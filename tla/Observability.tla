--------------------------- MODULE Observability ---------------------------
(***************************************************************************)
(* The observability demo of                                               *)
(* 11_system_design_in_go/05_observability_basics_mini/main.py: an        *)
(* HTTPServer (one request at a time) whose do_GET answers /hello 200,     *)
(* /error 500, /metrics with a Metrics.snapshot() and anything else 404;  *)
(* only /hello and /error reach metrics.record. run_demo, a daemon thread, *)
(* fetches /hello five times, /error and /metrics with urlopen, which      *)
(* raises HTTPError on a status of 400 or more, then calls os._exit(0).   *)
(* Other clients may send any path. Latencies and request ids are left    *)
(* out: no property is about them.                                        *)
(***************************************************************************)
EXTENDS Naturals, Sequences

CONSTANTS
    DemoHellos,   \* the range(5) of run_demo's /hello loop
    Paths,        \* the paths other clients request
    MaxExternal   \* bound on the requests of other clients

VARIABLES
    requests,   \* Metrics.total_requests
    errors,     \* Metrics.total_errors
    next,       \* the index in Script of run_demo's next urlopen
    dpc,        \* run_demo: "running", "died" (an exception ended it) or "exited"
    external,   \* requests other clients have made
    lastSnap    \* [requests, errors] of the last /metrics answer

vars == <<requests, errors, next, dpc, external, lastSnap>>

\* run_demo's urlopen calls, in order.
Script == [k \in 1..DemoHellos |-> "/hello"] \o <<"/error", "/metrics">>

\* The status do_GET answers a path with.
Status(path) ==
    CASE path = "/hello"   -> 200
      [] path = "/error"   -> 500
      [] path = "/metrics" -> 200
      [] OTHER             -> 404

\* /metrics and the 404 return before metrics.record.
Recorded(path) == path \in {"/hello", "/error"}

Init ==
    /\ requests = 0
    /\ errors = 0
    /\ next = 1
    /\ dpc = "running"
    /\ external = 0
    /\ lastSnap = [requests |-> 0, errors |-> 0]

\* do_GET on path, with Metrics.record(status, latency) after the
\* response when the path is recorded.
Handle(path) ==
    /\ requests' = IF Recorded(path) THEN requests + 1 ELSE requests
    /\ errors' = IF Recorded(path) /\ Status(path) >= 400 THEN errors + 1 ELSE errors
    /\ lastSnap' = IF path = "/metrics"
                   THEN [requests |-> requests, errors |-> errors]
                   ELSE lastSnap

\* One urlopen of run_demo, served by do_GET: a status of 400 or more
\* raises HTTPError, which ends the thread; after the last one run_demo
\* prints and calls os._exit(0).
DemoRequest ==
    /\ dpc = "running"
    /\ Handle(Script[next])
    /\ dpc' = CASE Status(Script[next]) >= 400 -> "died"
                [] next = Len(Script)          -> "exited"
                [] OTHER                       -> "running"
    /\ next' = IF dpc' = "running" THEN next + 1 ELSE next
    /\ UNCHANGED external

\* Another client's GET, served while the process runs.
ExternalRequest(path) ==
    /\ dpc # "exited"
    /\ external < MaxExternal
    /\ Handle(path)
    /\ external' = external + 1
    /\ UNCHANGED <<next, dpc>>

\* server.serve_forever(): the main thread waits for the next request.
ServeForever ==
    /\ dpc # "exited"
    /\ UNCHANGED vars

Next ==
    \/ DemoRequest \/ ServeForever
    \/ \E path \in Paths : ExternalRequest(path)

Spec == Init /\ [][Next]_vars

\* Properties

TypeOK ==
    /\ errors \in 0..requests
    /\ next \in 1..Len(Script)
    /\ dpc \in {"running", "died", "exited"}
    /\ external \in 0..MaxExternal
    /\ lastSnap.errors <= lastSnap.requests
=============================================================================
