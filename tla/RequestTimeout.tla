--------------------------- MODULE RequestTimeout ---------------------------
(***************************************************************************)
(* The per-request timeout of                                              *)
(* 08_http_and_backend/06_context_timeouts_cancel/main.py. For /fast and   *)
(* /slow, do_GET (_with_timeout) starts a worker thread running            *)
(* simulate_work(duration, cancel), joins it with a timeout, and if it is *)
(* still alive sets the cancel event, joins it again and answers 504;     *)
(* otherwise it answers from result_box. simulate_work loops until its    *)
(* deadline, returning None as soon as it sees the event set. HTTPServer *)
(* serves one request at a time. Time is counted in ticks from the start  *)
(* of the request; the worker may be scheduled late, so it may look at    *)
(* the clock and the event at any tick.                                   *)
(***************************************************************************)
EXTENDS Naturals

CONSTANTS
    FastWork, FastTimeout,  \* /fast: work_duration and timeout, in ticks
    SlowWork, SlowTimeout,  \* /slow: work_duration and timeout, in ticks
    MaxRequests             \* bound on the requests served

VARIABLES
    hpc,      \* handler: "idle", "join", "check" or "drain"
    path,     \* the path of the request being served
    elapsed,  \* ticks since the request started
    wpc,      \* worker thread: "none", "running" or "ended"
    cancel,   \* the cancel event
    result,   \* result_box: <<>> or <<r>>, r "done" or "None"
    served,   \* requests answered
    status    \* status of the last response, 0 before the first

vars == <<hpc, path, elapsed, wpc, cancel, result, served, status>>

Work(p) == IF p = "/fast" THEN FastWork ELSE SlowWork
Timeout(p) == IF p = "/fast" THEN FastTimeout ELSE SlowTimeout

MaxTicks == LET m == {FastWork, FastTimeout, SlowWork, SlowTimeout}
            IN CHOOSE x \in m : \A y \in m : y <= x

Init ==
    /\ hpc = "idle"
    /\ path = "/fast"
    /\ elapsed = 0
    /\ wpc = "none"
    /\ cancel = FALSE
    /\ result = <<>>
    /\ served = 0
    /\ status = 0

\* do_GET on /fast or /slow: a fresh event and result_box, the worker
\* thread started, then t.join(timeout=timeout).
Request(p) ==
    /\ hpc = "idle"
    /\ served < MaxRequests
    /\ hpc' = "join"
    /\ path' = p
    /\ elapsed' = 0
    /\ wpc' = "running"
    /\ cancel' = FALSE
    /\ result' = <<>>
    /\ UNCHANGED <<served, status>>

\* do_GET on any other path: 404.
NotFound ==
    /\ hpc = "idle"
    /\ served < MaxRequests
    /\ served' = served + 1
    /\ status' = 404
    /\ UNCHANGED <<hpc, path, elapsed, wpc, cancel, result>>

\* One test of simulate_work's loop, when it ends the thread: past the
\* deadline the loop exits and "done" is appended; before it, a set event
\* returns None, which is appended.
WorkerFinish ==
    /\ wpc = "running"
    /\ elapsed >= Work(path) \/ cancel
    /\ result' = <<IF elapsed >= Work(path) THEN "done" ELSE "None">>
    /\ wpc' = "ended"
    /\ UNCHANGED <<hpc, path, elapsed, cancel, served, status>>

\* Time passes while the worker runs.
Tick ==
    /\ wpc = "running"
    /\ elapsed < MaxTicks
    /\ elapsed' = elapsed + 1
    /\ UNCHANGED <<hpc, path, wpc, cancel, result, served, status>>

\* t.join(timeout=timeout) returns when the thread ends or the timeout
\* has passed.
JoinReturns ==
    /\ hpc = "join"
    /\ wpc = "ended" \/ elapsed >= Timeout(path)
    /\ hpc' = "check"
    /\ UNCHANGED <<path, elapsed, wpc, cancel, result, served, status>>

\* The answer from result_box: None (or an empty box) is 504 "cancelled",
\* a result 200.
Answer ==
    /\ served' = served + 1
    /\ status' = IF result = <<>> \/ result[1] = "None" THEN 504 ELSE 200
    /\ hpc' = "idle"

\* Mutant: the 504 sent as soon as cancel is set, without the second
\* t.join().
CheckNoJoin ==
    /\ hpc = "check"
    /\ \/ /\ wpc = "running"
          /\ cancel' = TRUE
          /\ served' = served + 1
          /\ status' = 504
          /\ hpc' = "idle"
          /\ UNCHANGED result
       \/ /\ wpc = "ended"
          /\ Answer
          /\ UNCHANGED <<cancel, result>>
    /\ UNCHANGED <<path, elapsed, wpc>>

\* `if t.is_alive()`: cancel.set() and on to the second join; otherwise
\* the answer from result_box.
Check ==
    /\ hpc = "check"
    /\ \/ /\ wpc = "running"
          /\ cancel' = TRUE
          /\ hpc' = "drain"
          /\ UNCHANGED <<served, status>>
       \/ /\ wpc = "ended"
          /\ Answer
          /\ UNCHANGED cancel
    /\ UNCHANGED <<path, elapsed, wpc, result>>

\* The second t.join() returns when the worker has ended; 504 "request
\* timed out".
Drain ==
    /\ hpc = "drain"
    /\ wpc = "ended"
    /\ served' = served + 1
    /\ status' = 504
    /\ hpc' = "idle"
    /\ UNCHANGED <<path, elapsed, wpc, cancel, result>>

\* serve_forever waits for the next request.
ServeForever ==
    /\ hpc = "idle"
    /\ UNCHANGED vars

Next ==
    \/ NotFound \/ WorkerFinish \/ Tick \/ JoinReturns \/ Check \/ Drain
    \/ ServeForever
    \/ \E p \in {"/fast", "/slow"} : Request(p)

Spec == Init /\ [][Next]_vars

\* Properties

TypeOK ==
    /\ hpc \in {"idle", "join", "check", "drain"}
    /\ path \in {"/fast", "/slow"}
    /\ elapsed \in 0..MaxTicks
    /\ wpc \in {"none", "running", "ended"}
    /\ cancel \in BOOLEAN
    /\ result \in {<<>>, <<"done">>, <<"None">>}
    /\ served \in 0..MaxRequests
    /\ status \in {0, 200, 404, 504}

\* _with_timeout never answers while its worker thread still runs: after
\* a timeout it sets the event and joins the worker again, so no request
\* leaves a thread behind that keeps working for an answered client
\* (unlike with_timeout of the reliability patterns).
NoAnswerWhileWorkerRuns == hpc = "idle" => wpc # "running"
=============================================================================
