---------------------------- MODULE RefillBucket ----------------------------
(***************************************************************************)
(* The token bucket of 08_http_and_backend/09_rate_limit_basics/main.py:  *)
(* a daemon thread sleeps refill_interval, then sets tokens back to       *)
(* max_tokens under the lock, forever. The server thread handles one      *)
(* request at a time: on /api it calls limiter.allow() (429 when it       *)
(* fails) and then, in a second `with self.lock`, limiter.remaining() for *)
(* the X-RateLimit-Remaining header of the 200. The refill thread may run *)
(* between the two. Time is counted in ticks of the sleep.                *)
(***************************************************************************)
EXTENDS Naturals

CONSTANTS
    MaxTokens,       \* max_tokens
    RefillInterval,  \* refill_interval, in ticks
    MaxTime          \* bound on the clock

VARIABLES
    now,        \* time in ticks
    tokens,     \* TokenBucket.tokens
    sleepLeft,  \* ticks left in the refill thread's time.sleep, 0 when awake
    hpc,        \* where the request handler is: "idle" or "remaining"
    status,     \* the status code of the last response, 0 before the first
    header,     \* X-RateLimit-Remaining of the last 200
    admitted    \* admitted[t]: requests allow() let through at tick t

vars == <<now, tokens, sleepLeft, hpc, status, header, admitted>>

Init ==
    /\ now = 0
    /\ tokens = MaxTokens
    /\ sleepLeft = RefillInterval
    /\ hpc = "idle"
    /\ status = 0
    /\ header = MaxTokens
    /\ admitted = [t \in 0..MaxTime |-> 0]

\* Mutant: the refill thread sleeping one tick short.
RefillShortSleep ==
    /\ sleepLeft = 0
    /\ tokens' = MaxTokens
    /\ sleepLeft' = RefillInterval - 1
    /\ UNCHANGED <<now, hpc, status, header, admitted>>

\* refill(): after the sleep, `with self.lock: self.tokens = max_tokens`,
\* then the next time.sleep(refill_interval).
Refill ==
    /\ sleepLeft = 0
    /\ tokens' = MaxTokens
    /\ sleepLeft' = RefillInterval
    /\ UNCHANGED <<now, hpc, status, header, admitted>>

\* Mutant: allow() without its `if self.tokens > 0` test.
AllowNoCheck ==
    /\ hpc = "idle"
    /\ tokens' = tokens - 1
    /\ admitted' = [admitted EXCEPT ![now] = @ + 1]
    /\ hpc' = "remaining"
    /\ UNCHANGED <<now, sleepLeft, status, header>>

\* do_GET on /api, first lock: allow() takes a token, or the 429 is sent.
Allow ==
    /\ hpc = "idle"
    /\ \/ /\ tokens > 0
          /\ tokens' = tokens - 1
          /\ admitted' = [admitted EXCEPT ![now] = @ + 1]
          /\ hpc' = "remaining"
          /\ UNCHANGED status
       \/ /\ tokens = 0
          /\ status' = 429
          /\ UNCHANGED <<tokens, admitted, hpc>>
    /\ UNCHANGED <<now, sleepLeft, header>>

\* do_GET, second lock: remaining() read for the header of the 200.
Remaining ==
    /\ hpc = "remaining"
    /\ header' = tokens
    /\ status' = 200
    /\ hpc' = "idle"
    /\ UNCHANGED <<now, tokens, sleepLeft, admitted>>

\* do_GET on any other path: 404.
NotFound ==
    /\ hpc = "idle"
    /\ status' = 404
    /\ UNCHANGED <<now, tokens, sleepLeft, hpc, header, admitted>>

\* A tick of the clock; the sleeping refill thread gets one tick closer.
Tick ==
    /\ now < MaxTime
    /\ now' = now + 1
    /\ sleepLeft' = IF sleepLeft > 0 THEN sleepLeft - 1 ELSE 0
    /\ UNCHANGED <<tokens, hpc, status, header, admitted>>

Next == Refill \/ Allow \/ Remaining \/ NotFound \/ Tick

Spec == Init /\ [][Next]_vars

\* Properties

TypeOK ==
    /\ now \in 0..MaxTime
    /\ tokens \in 0..MaxTokens
    /\ sleepLeft \in 0..RefillInterval
    /\ hpc \in {"idle", "remaining"}
    /\ header \in 0..MaxTokens

\* Requests allow() let through in the ticks t..t+d-1.
AdmittedIn(t, d) ==
    LET RECURSIVE SumFrom(_)
        SumFrom(u) == IF u > t + d - 1 \/ u > MaxTime THEN 0
                      ELSE admitted[u] + SumFrom(u + 1)
    IN SumFrom(t)

\* "5 req / 3s" holds only up to a factor of two: the bucket is refilled
\* at most once in any refill_interval ticks (the thread sleeps the full
\* interval after each refill), so any refill_interval-long span admits
\* at most the tokens left before the refill plus max_tokens after it.
AtMostTwoBucketsPerInterval ==
    \A t \in 0..MaxTime : AdmittedIn(t, RefillInterval) <= 2 * MaxTokens
=============================================================================
