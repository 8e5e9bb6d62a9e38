---------------------------- MODULE RetryBackoff ----------------------------
(***************************************************************************)
(* retry(max_attempts, base_delay, fn) of                                   *)
(* 11_system_design_in_go/06_reliability_patterns_mini/main.py, calling    *)
(* FlakyService(fail_count).call, which raises on its first fail_count     *)
(* calls. After a failed attempt i that is not the last, retry sleeps      *)
(* base_delay * 2**i plus a jitter drawn from uniform(0, backoff / 2).     *)
(* Delays are counted in units small enough that every backoff and every  *)
(* jitter the model draws is a whole number of them.                       *)
(***************************************************************************)
EXTENDS Naturals

CONSTANTS
    MaxAttempts,  \* max_attempts
    BaseDelay,    \* base_delay, in units (even, so backoff / 2 is whole)
    FailCounts    \* the fail_count values FlakyService is built with

VARIABLES
    failCount,  \* FlakyService.fail_count
    i,          \* the loop variable of `for i in range(max_attempts)`
    callCount,  \* FlakyService.call_count
    lastErr,    \* last_err: "none" or "failure"
    slept,      \* total time.sleep(wait) so far, in units
    pc,         \* "call", "sleep" or "done"
    ret         \* what retry returned, once pc = "done"

vars == <<failCount, i, callCount, lastErr, slept, pc, ret>>

Init ==
    /\ failCount \in FailCounts
    /\ i = 0
    /\ callCount = 0
    /\ lastErr = "none"
    /\ slept = 0
    /\ pc = "call"
    /\ ret = "none"

\* Mutant: the `if i < max_attempts - 1` test off by one, so retry also
\* backs off after its last attempt before it returns.
MoreAttemptsOffByOne == i < MaxAttempts

\* `if i < max_attempts - 1`: a failed attempt that is not the last backs off.
MoreAttempts == i < MaxAttempts - 1

\* backoff = base_delay * (2 ** i).
Backoff(k) == BaseDelay * 2^k

\* The end of an iteration of `for i in range(max_attempts)`: the next i,
\* or, with the range exhausted, `return last_err`.
EndIteration ==
    IF i + 1 < MaxAttempts
    THEN /\ i' = i + 1
         /\ pc' = "call"
         /\ UNCHANGED ret
    ELSE /\ pc' = "done"
         /\ ret' = "failure"
         /\ UNCHANGED i

\* fn(): FlakyService.call increments call_count and raises while it is at
\* most fail_count; retry returns None on success, else records the error
\* and backs off, or, on the last attempt, ends the iteration at once.
Call ==
    /\ pc = "call"
    /\ callCount' = callCount + 1
    /\ \/ /\ callCount + 1 > failCount
          /\ pc' = "done"
          /\ ret' = "none"
          /\ UNCHANGED <<lastErr, i>>
       \/ /\ callCount + 1 <= failCount
          /\ lastErr' = "failure"
          /\ \/ /\ MoreAttempts
                /\ pc' = "sleep"
                /\ UNCHANGED <<i, ret>>
             \/ /\ ~MoreAttempts
                /\ EndIteration
    /\ UNCHANGED <<failCount, slept>>

\* jitter = random.uniform(0, backoff / 2); time.sleep(backoff + jitter);
\* then the end of the iteration.
Sleep ==
    /\ pc = "sleep"
    /\ \E jitter \in 0..(Backoff(i) \div 2) :
          slept' = slept + Backoff(i) + jitter
    /\ EndIteration
    /\ UNCHANGED <<failCount, callCount, lastErr>>

\* retry has returned.
Terminated ==
    /\ pc = "done"
    /\ UNCHANGED vars

Next == Call \/ Sleep \/ Terminated

Spec == Init /\ [][Next]_vars

\* Properties

TypeOK ==
    /\ failCount \in FailCounts
    /\ i \in 0..MaxAttempts - 1
    /\ callCount \in 0..MaxAttempts
    /\ lastErr \in {"none", "failure"}
    /\ pc \in {"call", "sleep", "done"}
    /\ ret \in {"none", "failure"}

\* retry makes max_attempts calls at most, stops at the first success, and
\* returns None exactly when a call succeeded: with fail_count failures
\* ahead it succeeds iff fail_count < max_attempts, on call fail_count + 1.
\* It backs off between calls and never after the last one: having made
\* n calls it has slept the n - 1 backoffs base_delay * (2**0 + ... +
\* 2**(n-2)) = base_delay * (2**(n-1) - 1), plus at most half as much
\* jitter.
RetryOutcome ==
    pc = "done" =>
        /\ IF failCount < MaxAttempts
           THEN ret = "none" /\ callCount = failCount + 1
           ELSE ret = "failure" /\ callCount = MaxAttempts
        /\ LET backoffs == BaseDelay * (2^(callCount - 1) - 1)
           IN slept \in backoffs..(backoffs + backoffs \div 2)

=============================================================================
