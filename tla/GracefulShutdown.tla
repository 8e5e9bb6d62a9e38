-------------------------- MODULE GracefulShutdown --------------------------
(***************************************************************************)
(* 08_http_and_backend/10_graceful_shutdown/main.py. main() registers     *)
(* on_signal for SIGINT and SIGTERM (each signal starts a thread calling  *)
(* server.shutdown()), starts the daemon demo thread and runs             *)
(* server.serve_forever(); when that returns main prints and returns, and *)
(* the process ends with every daemon thread in it. The demo starts a     *)
(* slow_req thread (GET /slow, whose handler sleeps before answering),    *)
(* then a thread calling server.shutdown(), joins slow_req and prints its *)
(* result. Threads started by the daemon demo are daemons too.            *)
(* socketserver's protocol, which the program relies on: serve_forever    *)
(* clears the is_shut_down event, loops `while not shutdown_request`      *)
(* over select(), breaks if the flag is set when select returns, else    *)
(* handles a ready request (HTTPServer does so in the main thread), and  *)
(* on leaving sets the flag back to False and sets is_shut_down;          *)
(* shutdown() sets the flag and waits for is_shut_down. After main        *)
(* returns the interpreter joins the non-daemon threads: on_signal's      *)
(* shutdown thread, started from the main thread, is one; the demo's is a *)
(* daemon like its parent. Sleeps are left to the scheduler.             *)
(***************************************************************************)
EXTENDS Naturals

CONSTANTS
    Callers   \* the threads that may call shutdown(): "demo" and a signal's

VARIABLES
    spc,        \* main thread: "start", "select", "handle", "returned", "exited"
    flag,       \* BaseServer.__shutdown_request
    isShutDown, \* BaseServer.__is_shut_down
    pending,    \* the slow request is waiting in the listen queue
    cpc,        \* slow_req: "none", "wait", "done"
    dpc,        \* demo: "start", "shutdown", "join", "done"
    sd          \* sd[c]: a caller's shutdown(): "none", "wait", "done"

vars == <<spc, flag, isShutDown, pending, cpc, dpc, sd>>

\* The process has ended: main returned, the non-daemon threads were
\* joined, and the daemon threads ended with it.
Exited == spc = "exited"

\* The shutdown threads that are not daemons: every one but the demo's.
NonDaemon == Callers \ {"demo"}

Init ==
    /\ spc = "start"
    /\ flag = FALSE
    /\ isShutDown = FALSE
    /\ pending = FALSE
    /\ cpc = "none"
    /\ dpc = "start"
    /\ sd = [c \in Callers |-> "none"]

\* Mutant: serve_forever also clearing the flag on entry.
ServeForeverClearsFlag ==
    /\ spc = "start"
    /\ isShutDown' = FALSE
    /\ flag' = FALSE
    /\ spc' = "select"
    /\ UNCHANGED <<pending, cpc, dpc, sd>>

\* serve_forever(): __is_shut_down.clear(), into the loop.
ServeForever ==
    /\ spc = "start"
    /\ isShutDown' = FALSE
    /\ spc' = "select"
    /\ UNCHANGED <<flag, pending, cpc, dpc, sd>>

\* One turn of the loop: leave it when the flag is set (before or after
\* select), else handle a ready request or poll again; leaving sets the
\* flag back and __is_shut_down, and serve_forever returns to main.
Select ==
    /\ spc = "select"
    /\ flag \/ pending
    /\ IF flag
       THEN /\ flag' = FALSE
            /\ isShutDown' = TRUE
            /\ spc' = "returned"
            /\ UNCHANGED pending
       ELSE /\ pending' = FALSE
            /\ spc' = "handle"
            /\ UNCHANGED <<flag, isShutDown>>
    /\ UNCHANGED <<cpc, dpc, sd>>

\* do_GET /slow: time.sleep(2), then the 200.
HandleSlow ==
    /\ spc = "handle"
    /\ cpc' = "done"
    /\ spc' = "select"
    /\ UNCHANGED <<flag, isShutDown, pending, dpc, sd>>

\* demo(): start slow_req, whose urlopen connects.
StartSlowRequest ==
    /\ ~Exited
    /\ dpc = "start"
    /\ pending' = TRUE
    /\ cpc' = "wait"
    /\ dpc' = "shutdown"
    /\ UNCHANGED <<spc, flag, isShutDown, sd>>

\* A shutdown thread starts: the demo's after its sleep, or on_signal's
\* on SIGINT or SIGTERM; shutdown() sets the flag and waits.
StartShutdown(c) ==
    /\ ~Exited
    /\ sd[c] = "none"
    /\ c = "demo" => dpc = "shutdown"
    /\ flag' = TRUE
    /\ sd' = [sd EXCEPT ![c] = "wait"]
    /\ dpc' = IF c = "demo" THEN "join" ELSE dpc
    /\ UNCHANGED <<spc, isShutDown, pending, cpc>>

\* Mutant: shutdown() returning without waiting for __is_shut_down.
ShutdownReturnsNoWait(c) ==
    /\ ~Exited
    /\ sd[c] = "wait"
    /\ sd' = [sd EXCEPT ![c] = "done"]
    /\ UNCHANGED <<spc, flag, isShutDown, pending, cpc, dpc>>

\* __is_shut_down.wait() returns.
ShutdownReturns(c) ==
    /\ ~Exited
    /\ sd[c] = "wait"
    /\ isShutDown
    /\ sd' = [sd EXCEPT ![c] = "done"]
    /\ UNCHANGED <<spc, flag, isShutDown, pending, cpc, dpc>>

\* demo: t.join() on slow_req, then the print of its result.
DemoPrints ==
    /\ ~Exited
    /\ dpc = "join"
    /\ cpc = "done"
    /\ dpc' = "done"
    /\ UNCHANGED <<spc, flag, isShutDown, pending, cpc, sd>>

\* main prints and returns; the interpreter's exit joins every non-daemon
\* thread still in shutdown(), then ends the daemon threads.
ProcessExit ==
    /\ spc = "returned"
    /\ \A c \in NonDaemon : sd[c] # "wait"
    /\ spc' = "exited"
    /\ UNCHANGED <<flag, isShutDown, pending, cpc, dpc, sd>>

\* The process has ended.
Terminated ==
    /\ Exited
    /\ UNCHANGED vars

Next ==
    \/ ServeForever \/ Select \/ HandleSlow \/ StartSlowRequest \/ DemoPrints
    \/ ProcessExit \/ Terminated
    \/ \E c \in Callers : StartShutdown(c) \/ ShutdownReturns(c)

\* Every thread that can run is eventually scheduled; the signal is sent
\* or not, as the operator chooses.
Fairness ==
    /\ WF_vars(ServeForever) /\ WF_vars(Select) /\ WF_vars(HandleSlow)
    /\ WF_vars(StartSlowRequest) /\ WF_vars(DemoPrints) /\ WF_vars(ProcessExit)
    /\ WF_vars(StartShutdown("demo"))
    /\ \A c \in Callers : WF_vars(ShutdownReturns(c))

Spec == Init /\ [][Next]_vars /\ Fairness

\* Properties

TypeOK ==
    /\ spc \in {"start", "select", "handle", "returned", "exited"}
    /\ flag \in BOOLEAN /\ isShutDown \in BOOLEAN /\ pending \in BOOLEAN
    /\ cpc \in {"none", "wait", "done"}
    /\ dpc \in {"start", "shutdown", "join", "done"}
    /\ sd \in [Callers -> {"none", "wait", "done"}]

\* serve_forever returns and main exits whenever shutdown() is called, at
\* any point: before serve_forever has started (a signal, or the demo's
\* thread scheduled early), while it selects, or during the slow request,
\* which it finishes first.
ServerStops == <>Exited

\* The drain the docstring weighs against Go's Shutdown(ctx): when any
\* shutdown() call returns, the server is not inside a handler, so a
\* request it took before the flag was set has been answered. A shutdown
\* thread can return only after serve_forever has left its loop, which
\* the signal's non-daemon thread must do before the process may exit.
DrainedWhenShutdownReturns == \A c \in Callers : sd[c] = "done" => spc # "handle"
=============================================================================
