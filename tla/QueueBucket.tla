---------------------------- MODULE QueueBucket ----------------------------
(***************************************************************************)
(* 06_concurrency/10_rate_limiting/main.py. Example 1 sleeps `interval`    *)
(* before each of five requests. Example 2 is a token bucket made of a    *)
(* queue.Queue(maxsize=3): main fills it with three put()s, starts a      *)
(* daemon refiller that sleeps 0.2 s and then put_nowait()s a token,      *)
(* dropping it on queue.Full, forever, and takes eight tokens with        *)
(* blocking get()s. Tokens are identical, so the queue is its length.     *)
(* The refiller's sleep is counted in ticks; main's interval sleeps are   *)
(* part of its request steps.                                             *)
(***************************************************************************)
EXTENDS Naturals

CONSTANTS
    FixedRequests,  \* len(requests) of example 1
    Capacity,       \* maxsize of the bucket
    RefillTicks,    \* the refiller's time.sleep, in ticks
    Requests        \* the range(1, 9) of example 2

VARIABLES
    mpc,        \* main: "fixed", "fill", "bucket" or "done"
    req,        \* requests made so far in the current example
    bucket,     \* tokens in the queue
    rpc,        \* refiller: "none", "sleep" or "put"
    sleepLeft   \* ticks left in the refiller's time.sleep

vars == <<mpc, req, bucket, rpc, sleepLeft>>

Init ==
    /\ mpc = "fixed"
    /\ req = 0
    /\ bucket = 0
    /\ rpc = "none"
    /\ sleepLeft = 0

\* Example 1: time.sleep(interval), then the request.
FixedRequest ==
    /\ mpc = "fixed"
    /\ req' = IF req + 1 = FixedRequests THEN 0 ELSE req + 1
    /\ mpc' = IF req + 1 = FixedRequests THEN "fill" ELSE "fixed"
    /\ UNCHANGED <<bucket, rpc, sleepLeft>>

\* The three put()s into the empty bucket, then the refiller started.
Fill ==
    /\ mpc = "fill"
    /\ bucket' = Capacity
    /\ rpc' = "sleep"
    /\ sleepLeft' = RefillTicks
    /\ mpc' = "bucket"
    /\ UNCHANGED req

\* bucket.get(): blocks while the bucket is empty.
Get ==
    /\ mpc = "bucket"
    /\ bucket > 0
    /\ bucket' = bucket - 1
    /\ req' = req + 1
    /\ mpc' = IF req + 1 = Requests THEN "done" ELSE "bucket"
    /\ UNCHANGED <<rpc, sleepLeft>>

\* A tick of the refiller's sleep.
Tick ==
    /\ rpc = "sleep"
    /\ sleepLeft' = sleepLeft - 1
    /\ rpc' = IF sleepLeft = 1 THEN "put" ELSE "sleep"
    /\ UNCHANGED <<mpc, req, bucket>>

\* Mutant: the refiller returns on queue.Full instead of passing.
RefillStopsOnFull ==
    /\ rpc = "put"
    /\ bucket' = IF bucket < Capacity THEN bucket + 1 ELSE bucket
    /\ rpc' = IF bucket < Capacity THEN "sleep" ELSE "none"
    /\ sleepLeft' = RefillTicks
    /\ UNCHANGED <<mpc, req>>

\* bucket.put_nowait(None), the token dropped on queue.Full, and the next
\* time.sleep(0.2).
Refill ==
    /\ rpc = "put"
    /\ bucket' = IF bucket < Capacity THEN bucket + 1 ELSE bucket
    /\ rpc' = "sleep"
    /\ sleepLeft' = RefillTicks
    /\ UNCHANGED <<mpc, req>>

\* main() has returned; the daemon refiller ends with the process.
Terminated ==
    /\ mpc = "done"
    /\ UNCHANGED vars

Next == FixedRequest \/ Fill \/ Get \/ Tick \/ Refill \/ Terminated

\* main and the refiller are both scheduled whenever they can run.
Fairness ==
    /\ WF_vars(FixedRequest) /\ WF_vars(Fill) /\ WF_vars(Get)
    /\ WF_vars(Tick) /\ WF_vars(Refill)

Spec == Init /\ [][Next]_vars /\ Fairness

\* Properties

TypeOK ==
    /\ mpc \in {"fixed", "fill", "bucket", "done"}
    /\ req \in 0..Requests
    /\ bucket \in 0..Capacity
    /\ rpc \in {"none", "sleep", "put"}
    /\ sleepLeft \in 0..RefillTicks

\* The eight blocking get()s all return: however main and the refiller
\* interleave, and however often a put_nowait finds the bucket full, the
\* refiller keeps adding a token every 0.2 s, so main finishes.
AllRequestsServed == <>(mpc = "done")
=============================================================================
