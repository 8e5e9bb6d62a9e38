--------------------------- MODULE CircuitBreaker ---------------------------
(***************************************************************************)
(* CircuitBreaker.call of                                                  *)
(* 11_system_design_in_go/06_reliability_patterns_mini/main.py, used by   *)
(* several caller threads at once. call takes the lock twice: once to     *)
(* decide whether to run fn (rejecting while OPEN and cooling down, moving *)
(* OPEN -> HALF-OPEN once the cooldown has passed), and once after fn     *)
(* returns to record the outcome. fn itself runs with the lock released,  *)
(* so other callers' critical sections can fall between the two. Each     *)
(* critical section is one action; fn's outcome is the environment's      *)
(* choice. Time is kept as sinceFailure = time.time() - last_failure_time,*)
(* capped at Cooldown + 1 ("longer ago than the cooldown").               *)
(***************************************************************************)
EXTENDS Naturals, FiniteSets

CONSTANTS
    Callers,    \* threads calling cb.call(fn)
    Threshold,  \* CircuitBreaker(threshold)
    Cooldown,   \* CircuitBreaker(cooldown_sec), in clock units
    MaxCalls    \* calls each thread makes

VARIABLES
    state,        \* self.state
    failures,     \* self.failures
    sinceFailure, \* time.time() - self.last_failure_time, capped
    pc,           \* pc[c]: "idle" or "running" fn
    calls,        \* calls[c]: calls c has made
    ret           \* ret[c]: what c's last call returned

vars == <<state, failures, sinceFailure, pc, calls, ret>>

States == {"CLOSED", "OPEN", "HALF-OPEN"}
LongAgo == Cooldown + 1

Init ==
    /\ state = "CLOSED"
    /\ failures = 0
    /\ sinceFailure = LongAgo   \* last_failure_time = 0: the epoch
    /\ pc = [c \in Callers |-> "idle"]
    /\ calls = [c \in Callers |-> 0]
    /\ ret = [c \in Callers |-> "none"]

\* A thread starts a call: the first with self.lock block.
Starts(c) ==
    /\ pc[c] = "idle"
    /\ calls[c] < MaxCalls
    /\ calls' = [calls EXCEPT ![c] = @ + 1]

\* OPEN within the cooldown: return "circuit breaker is open".
Reject(c) ==
    /\ Starts(c)
    /\ state = "OPEN"
    /\ sinceFailure <= Cooldown
    /\ ret' = [ret EXCEPT ![c] = "open"]
    /\ UNCHANGED <<state, failures, sinceFailure, pc>>

\* Mutant: the state set from a string literal that misspells HALF_OPEN.
ProbeMisspelt(c) ==
    /\ Starts(c)
    /\ state = "OPEN"
    /\ sinceFailure > Cooldown
    /\ state' = "HALF_OPEN"
    /\ pc' = [pc EXCEPT ![c] = "running"]
    /\ UNCHANGED <<failures, sinceFailure, ret>>

\* Mutant: the cooldown test written >=, probing exactly cooldown after
\* the last failure.
ProbeAtCooldown(c) ==
    /\ Starts(c)
    /\ state = "OPEN"
    /\ sinceFailure >= Cooldown
    /\ state' = "HALF-OPEN"
    /\ pc' = [pc EXCEPT ![c] = "running"]
    /\ UNCHANGED <<failures, sinceFailure, ret>>

\* OPEN past the cooldown: go HALF-OPEN and run fn.
Probe(c) ==
    /\ Starts(c)
    /\ state = "OPEN"
    /\ sinceFailure > Cooldown
    /\ state' = "HALF-OPEN"
    /\ pc' = [pc EXCEPT ![c] = "running"]
    /\ UNCHANGED <<failures, sinceFailure, ret>>

\* CLOSED or HALF-OPEN: run fn.
Admit(c) ==
    /\ Starts(c)
    /\ state # "OPEN"
    /\ pc' = [pc EXCEPT ![c] = "running"]
    /\ UNCHANGED <<state, failures, sinceFailure, ret>>

\* Mutant: the threshold test written failures > threshold.
RecordFailureStrict(c) ==
    /\ pc[c] = "running"
    /\ failures' = failures + 1
    /\ sinceFailure' = 0
    /\ state' = IF failures + 1 > Threshold THEN "OPEN" ELSE state
    /\ pc' = [pc EXCEPT ![c] = "idle"]
    /\ ret' = [ret EXCEPT ![c] = "failed"]
    /\ UNCHANGED calls

\* fn raised: the second with self.lock block counts the failure, restarts
\* the cooldown and opens the breaker at the threshold.
RecordFailure(c) ==
    /\ pc[c] = "running"
    /\ failures' = failures + 1
    /\ sinceFailure' = 0
    /\ state' = IF failures + 1 >= Threshold THEN "OPEN" ELSE state
    /\ pc' = [pc EXCEPT ![c] = "idle"]
    /\ ret' = [ret EXCEPT ![c] = "failed"]
    /\ UNCHANGED calls

\* fn returned: failures are cleared and the breaker closes.
RecordSuccess(c) ==
    /\ pc[c] = "running"
    /\ failures' = 0
    /\ state' = "CLOSED"
    /\ pc' = [pc EXCEPT ![c] = "idle"]
    /\ ret' = [ret EXCEPT ![c] = "ok"]
    /\ UNCHANGED <<sinceFailure, calls>>

\* The clock advances one unit.
Tick ==
    /\ sinceFailure' = IF sinceFailure < LongAgo THEN sinceFailure + 1 ELSE LongAgo
    /\ UNCHANGED <<state, failures, pc, calls, ret>>

Next ==
    \/ \E c \in Callers : Reject(c) \/ Probe(c) \/ Admit(c)
    \/ \E c \in Callers : RecordFailure(c) \/ RecordSuccess(c)
    \/ Tick

Spec == Init /\ [][Next]_vars

-----------------------------------------------------------------------------
(* Properties                                                             *)

TypeOK ==
    /\ state \in States
    /\ failures \in 0..(Threshold + Cardinality(Callers) * MaxCalls)
    /\ sinceFailure \in 0..LongAgo
    /\ pc \in [Callers -> {"idle", "running"}]
    /\ calls \in [Callers -> 0..MaxCalls]
    /\ ret \in [Callers -> {"none", "open", "failed", "ok"}]

\* The breaker is CLOSED exactly when fewer than threshold failures have
\* been counted since the last success: failures only reach the threshold
\* together with opening, and only a success clears them, together with
\* closing. Concurrent callers finishing in any order must keep the two
\* fields in step.
StateMatchesFailures == (state = "CLOSED") <=> (failures < Threshold)

\* The transitions the code announces (lines 70, 89, 94) are the only ones:
\* CLOSED -> OPEN, OPEN -> HALF-OPEN, HALF-OPEN -> CLOSED, HALF-OPEN -> OPEN.
\* In particular an OPEN breaker closes only through a half-open probe.
LegalTransitions ==
    [][state' # state =>
         <<state, state'>> \in {<<"CLOSED", "OPEN">>, <<"OPEN", "HALF-OPEN">>,
                                <<"HALF-OPEN", "CLOSED">>, <<"HALF-OPEN", "OPEN">>}]_state

=============================================================================
