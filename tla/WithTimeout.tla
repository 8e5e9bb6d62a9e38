---------------------------- MODULE WithTimeout ----------------------------
(***************************************************************************)
(* with_timeout(timeout_sec, fn) of                                         *)
(* 11_system_design_in_go/06_reliability_patterns_mini/main.py: fn runs in *)
(* a new thread, whose wrapper stores an exception in error[0]; the caller *)
(* joins with a timeout, then returns "timeout" if the thread is still     *)
(* alive and error[0] otherwise. The join's timer and the thread race;     *)
(* the thread is not a daemon, so it runs on after a timeout.              *)
(***************************************************************************)
EXTENDS Naturals

VARIABLES
    wpc,    \* the thread: "run", "stored" (wrapper done) or "exited"
    error,  \* error[0]: "none" or "failure"
    mpc,    \* the caller: "join", "check" or "done"
    ret     \* what with_timeout returned, once mpc = "done"

vars == <<wpc, error, mpc, ret>>

Init ==
    /\ wpc = "run"
    /\ error = "none"
    /\ mpc = "join"
    /\ ret = "none"

\* wrapper(): fn() returns, or raises and error[0] = e.
RunFn ==
    /\ wpc = "run"
    /\ \E e \in {"none", "failure"} : error' = e
    /\ wpc' = "stored"
    /\ UNCHANGED <<mpc, ret>>

\* The thread finishes after its target returns.
Exit ==
    /\ wpc = "stored"
    /\ wpc' = "exited"
    /\ UNCHANGED <<error, mpc, ret>>

\* t.join(timeout=timeout_sec) returns because the thread exited ...
JoinReturns ==
    /\ mpc = "join"
    /\ wpc = "exited"
    /\ mpc' = "check"
    /\ UNCHANGED <<wpc, error, ret>>

\* ... or because timeout_sec elapsed first.
JoinTimesOut ==
    /\ mpc = "join"
    /\ wpc # "exited"
    /\ mpc' = "check"
    /\ UNCHANGED <<wpc, error, ret>>

\* Mutant: error[0] returned without asking t.is_alive().
CheckAliveUntested ==
    /\ mpc = "check"
    /\ ret' = error
    /\ mpc' = "done"
    /\ UNCHANGED <<wpc, error>>

\* `if t.is_alive(): return "timeout"`; `return error[0]`.
CheckAlive ==
    /\ mpc = "check"
    /\ ret' = IF wpc # "exited" THEN "timeout" ELSE error
    /\ mpc' = "done"
    /\ UNCHANGED <<wpc, error>>

\* The caller has returned and the thread has exited.
Terminated ==
    /\ mpc = "done" /\ wpc = "exited"
    /\ UNCHANGED vars

Next == RunFn \/ Exit \/ JoinReturns \/ JoinTimesOut \/ CheckAlive \/ Terminated

Spec == Init /\ [][Next]_vars

\* Properties

TypeOK ==
    /\ wpc \in {"run", "stored", "exited"}
    /\ error \in {"none", "failure"}
    /\ mpc \in {"join", "check", "done"}
    /\ ret \in {"none", "failure", "timeout"}

\* with_timeout answers with fn's own outcome whenever it does not answer
\* "timeout": None only for an fn that returned, the exception only for
\* one that raised, and that stays true however late the abandoned thread
\* runs on; the caller never returns an error[0] the wrapper has yet to
\* store. Only a "timeout" answer leaves fn's outcome unreported.
AnswerIsWorkersOutcome == mpc = "done" /\ ret # "timeout" => ret = error
=============================================================================
