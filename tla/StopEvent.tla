----------------------------- MODULE StopEvent -----------------------------
(***************************************************************************)
(* 06_concurrency/11_context_cancellation/main.py. Examples 1 and 2 run  *)
(* slow_operation_async on the asyncio loop: job1 is cancelled by main    *)
(* after asyncio.sleep(0.15), job2 by wait_for's 0.2 s timeout. Time is   *)
(* in ticks of 50 ms; the loop runs due timers earliest deadline first and *)
(* may wake up to Late ticks after a deadline.                            *)
(* Example 3 is the threaded cancellation: main starts the children, sleeps, sets the shared *)
(* threading.Event and joins them. Each child runs slow_operation_thread: *)
(* for up to Steps iterations it tests stop.is_set(), returns if set, and *)
(* otherwise prints its step and sleeps. The test and the print are two   *)
(* steps: main may set the event between them.                            *)
(***************************************************************************)
EXTENDS Naturals

CONSTANTS
    Children,  \* the child threads
    Steps,     \* the loop's range(1, Steps + 1)
    Late       \* how many ticks late the loop may run a due timer

\* slow_operation_async's range(1, 11); main's sleep(0.15); wait_for's
\* timeout=0.2; in ticks of asyncio.sleep(0.05).
JobSteps == 10
CancelAfter == 3
WaitTimeout == 4

VARIABLES
    stop,      \* the threading.Event
    cpc,       \* cpc[c]: "check", "print", "sleep" or "done"
    step,      \* step[c]: the loop variable i of child c
    outcome,   \* outcome[c]: "running", "cancelled" or "completed"
    late,      \* late[c]: steps child c printed after stop.set()
    mainPc,    \* "sleep", "join" or "done"
    part,      \* the example main is in
    now,       \* loop.time() in ticks
    timers,    \* pending timers: a set of [task, at], task "job" or "main"
    jstep,     \* jstep[j]: the last step job j printed
    jout       \* jout[j]: "running", "cancelled" or "completed"

vars == <<stop, cpc, step, outcome, late, mainPc, part, now, timers, jstep, jout>>
asyncVars == <<part, now, timers, jstep, jout>>
threadVars == <<stop, cpc, step, outcome, late, mainPc>>

\* The job of the current example.
Job == IF part = 1 THEN "job1" ELSE "job2"

\* Example 1 or 2 starting at time t: the job prints step 1 and sleeps, and
\* main's timer is the sleep(0.15) or the wait_for timeout.
StartJob(j, t, wait) ==
    /\ timers' = {[task |-> "job", at |-> t + 1], [task |-> "main", at |-> t + wait]}
    /\ jstep' = [jstep EXCEPT ![j] = 1]

Init ==
    /\ stop = FALSE
    /\ cpc = [c \in Children |-> "check"]
    /\ step = [c \in Children |-> 1]
    /\ outcome = [c \in Children |-> "running"]
    /\ late = [c \in Children |-> 0]
    /\ mainPc = "sleep"
    /\ part = 1
    /\ now = 0
    /\ timers = {[task |-> "job", at |-> 1], [task |-> "main", at |-> CancelAfter]}
    /\ jstep = [j \in {"job1", "job2"} |-> IF j = "job1" THEN 1 ELSE 0]
    /\ jout = [j \in {"job1", "job2"} |-> "running"]


\* slow_operation_async resumes from its sleep at time t (timer x): it
\* prints the next step and sleeps again, or after the last step prints
\* "completed all steps" and returns. In example 2 wait_for then returns
\* and cancels its timeout.
JobWakes(x, t) ==
    IF jstep[Job] < JobSteps
      THEN /\ timers' = (timers \ {x}) \cup {[task |-> "job", at |-> t + 1]}
           /\ jstep' = [jstep EXCEPT ![Job] = @ + 1]
           /\ now' = t
           /\ UNCHANGED <<part, jout>>
      ELSE /\ jout' = [jout EXCEPT ![Job] = "completed"]
           /\ UNCHANGED jstep
           /\ IF part = 1
                THEN timers' = timers \ {x} /\ now' = t /\ UNCHANGED part
                ELSE timers' = {} /\ now' = 0 /\ part' = 3

\* Main's timer at time t. Example 1: asyncio.sleep(0.15) ends and
\* task.cancel() throws CancelledError into the sleeping job, which prints
\* "cancelled" and re-raises; `await task` catches it (a no-op if the job
\* completed) and main starts example 2. Example 2: the timeout cancels
\* job2 the same way and main prints "job2: timed out". Example 3 runs on
\* threads and wall-clock sleeps, so the loop's clock is dropped (set to 0)
\* when it starts.
MainWakes(t) ==
    IF part = 1
      THEN /\ StartJob("job2", t, WaitTimeout)
           /\ jout' = [jout EXCEPT !["job1"] = IF @ = "running" THEN "cancelled" ELSE @]
           /\ part' = 2
           /\ now' = t
      ELSE /\ timers' = {}
           /\ jout' = [jout EXCEPT !["job2"] = IF @ = "running" THEN "cancelled" ELSE @]
           /\ part' = 3
           /\ now' = 0
           /\ UNCHANGED jstep

\* Mutant: the loop running any pending timer, not the earliest first.
FireTimerAnyOrder(e) ==
    /\ part \in {1, 2}
    /\ \E x \in timers :
         LET t == IF now > x.at + e THEN now ELSE x.at + e
         IN IF x.task = "job" THEN JobWakes(x, t) ELSE MainWakes(t)
    /\ UNCHANGED threadVars

\* The loop wakes e ticks after the earliest deadline and runs that timer.
FireTimer(e) ==
    /\ part \in {1, 2}
    /\ \E x \in timers :
         /\ \A y \in timers : x.at <= y.at
         /\ LET t == IF now > x.at + e THEN now ELSE x.at + e
            IN IF x.task = "job" THEN JobWakes(x, t) ELSE MainWakes(t)
    /\ UNCHANGED threadVars

\* Top of the loop: past range(1, Steps + 1) the child completes; with the
\* event set it returns, cancelled; else it goes on to print the step.
Check(c) ==
    /\ part = 3
    /\ cpc[c] = "check"
    /\ \/ /\ step[c] > Steps
          /\ outcome' = [outcome EXCEPT ![c] = "completed"]
          /\ cpc' = [cpc EXCEPT ![c] = "done"]
       \/ /\ step[c] <= Steps /\ stop
          /\ outcome' = [outcome EXCEPT ![c] = "cancelled"]
          /\ cpc' = [cpc EXCEPT ![c] = "done"]
       \/ /\ step[c] <= Steps /\ ~stop
          /\ cpc' = [cpc EXCEPT ![c] = "print"]
          /\ UNCHANGED outcome
    /\ UNCHANGED <<stop, step, late, mainPc, asyncVars>>

\* print(f"{name}: step {i}").
PrintStep(c) ==
    /\ cpc[c] = "print"
    /\ late' = [late EXCEPT ![c] = IF stop THEN @ + 1 ELSE @]
    /\ cpc' = [cpc EXCEPT ![c] = "sleep"]
    /\ UNCHANGED <<stop, step, outcome, mainPc, asyncVars>>

\* Mutant: the loop going on to the next print without the is_set() test.
SleepSkipsCheck(c) ==
    /\ cpc[c] = "sleep"
    /\ step' = [step EXCEPT ![c] = @ + 1]
    /\ cpc' = [cpc EXCEPT ![c] = IF step[c] < Steps THEN "print" ELSE "check"]
    /\ UNCHANGED <<stop, outcome, late, mainPc, asyncVars>>

\* time.sleep(0.05), then the next iteration.
Sleep(c) ==
    /\ cpc[c] = "sleep"
    /\ step' = [step EXCEPT ![c] = @ + 1]
    /\ cpc' = [cpc EXCEPT ![c] = "check"]
    /\ UNCHANGED <<stop, outcome, late, mainPc, asyncVars>>

\* main: time.sleep(0.12) ends, whenever that is, then stop.set().
SetStop ==
    /\ part = 3
    /\ mainPc = "sleep"
    /\ stop' = TRUE
    /\ mainPc' = "join"
    /\ UNCHANGED <<cpc, step, outcome, late, asyncVars>>

\* t1.join(); t2.join().
JoinChildren ==
    /\ mainPc = "join"
    /\ \A c \in Children : cpc[c] = "done"
    /\ mainPc' = "done"
    /\ UNCHANGED <<stop, cpc, step, outcome, late, asyncVars>>

\* main() has returned.
Terminated ==
    /\ mainPc = "done"
    /\ UNCHANGED vars

Next ==
    \/ \E e \in 0..Late : FireTimer(e)
    \/ SetStop \/ JoinChildren \/ Terminated
    \/ \E c \in Children : Check(c) \/ PrintStep(c) \/ Sleep(c)

Spec == Init /\ [][Next]_vars

\* Properties

TypeOK ==
    /\ stop \in BOOLEAN
    /\ cpc \in [Children -> {"check", "print", "sleep", "done"}]
    /\ step \in [Children -> 1..Steps + 1]
    /\ outcome \in [Children -> {"running", "cancelled", "completed"}]
    /\ mainPc \in {"sleep", "join", "done"}
    /\ part \in 1..3
    /\ jstep \in [{"job1", "job2"} -> 0..JobSteps]
    /\ jout \in [{"job1", "job2"} -> {"running", "cancelled", "completed"}]

\* Every cancellation is prompt. asyncio: main's timer is due before the
\* job's fourth sleep ends, and the loop runs due timers earliest first,
\* so however late it wakes job1 prints at most CancelAfter + 1 steps and
\* job2 at most WaitTimeout + 1 before CancelledError ends them, and both
\* end cancelled, not completed. Threads: a child that passed its
\* is_set() test just before stop.set() prints that one step, and the
\* next test ends it; no child prints two steps after the event.
AtMostOneStepAfterStop ==
    /\ jstep["job1"] <= CancelAfter + 1 /\ jstep["job2"] <= WaitTimeout + 1
    /\ part = 3 => \A j \in {"job1", "job2"} : jout[j] = "cancelled"
    /\ \A c \in Children : late[c] <= 1
=============================================================================
