--------------------------- MODULE GatewayLimiter ---------------------------
(***************************************************************************)
(* The API gateway of 11_system_design_in_go/07_api_gateway_basics_mini/  *)
(* main.py: GatewayHandler.do_GET checks the X-API-Key header against     *)
(* VALID_KEYS (401), asks the fixed-window RateLimiter about the client   *)
(* address (429), then routes /api/users and /api/orders (200) or answers *)
(* 404. RateLimiter keeps one window for all clients: when more than     *)
(* window_sec have passed since last_reset, every count is dropped.       *)
(* The HTTPServer is single-threaded, so each request is one atomic step. *)
(* time.time() is counted in ticks; the two time.time() calls of allow()  *)
(* fall in the same tick.                                                 *)
(***************************************************************************)
EXTENDS Naturals, FiniteSets

CONSTANTS
    Clients,    \* client addresses (client_address[0])
    ApiKeys,    \* X-API-Key values sent, the empty header included
    ValidKeys,  \* VALID_KEYS
    Paths,      \* request paths, by the route prefix they start with
    Limit,      \* RateLimiter limit
    Window,     \* RateLimiter window_sec, in ticks
    MaxTime,    \* bound on the clock
    MaxCount    \* bound on counts[key]; requests past it would be 429 anyway

VARIABLES
    now,        \* time.time() in ticks
    counts,     \* counts[k]: RateLimiter.counts.get(k, 0)
    lastReset,  \* RateLimiter.last_reset
    status,     \* the status code of the last response, 0 before the first
    admitted    \* admitted[k][t]: requests of k the limiter let through at tick t

vars == <<now, counts, lastReset, status, admitted>>

\* The routes of do_GET: the path prefixes answered 200.
Routed == {"/api/users", "/api/orders"}

Init ==
    /\ now = 0
    /\ counts = [k \in Clients |-> 0]
    /\ lastReset = 0
    /\ status = 0
    /\ admitted = [k \in Clients |-> [t \in 0..MaxTime |-> 0]]

\* Whether RateLimiter.allow drops the counts and restarts the window.
Expired == now - lastReset > Window

\* counts after allow(): the reset if the window expired, then +1 for k.
CountsAfter(k) ==
    LET base == IF Expired THEN [c \in Clients |-> 0] ELSE counts
    IN [base EXCEPT ![k] = @ + 1]

\* Mutant: the counts dropped but last_reset not moved, so every later
\* request finds the window expired.
LastResetAfterNoRestamp == lastReset

\* last_reset after allow(): time.time() when the window restarted.
LastResetAfter == IF Expired THEN now ELSE lastReset

\* `return self.counts[key] <= self.limit`
Allowed(c) == c <= Limit

\* The routing of do_GET: a path under /api/users or /api/orders is 200,
\* anything else 404.
Route(path) == IF path \in Routed THEN 200 ELSE 404

\* GatewayHandler.do_GET: auth, rate_limiter.allow(client_key), routing.
Request(k, key, path) ==
    \/ /\ key \notin ValidKeys
       /\ status' = 401
       /\ UNCHANGED <<now, counts, lastReset, admitted>>
    \/ /\ key \in ValidKeys
       /\ CountsAfter(k)[k] <= MaxCount
       /\ counts' = CountsAfter(k)
       /\ lastReset' = LastResetAfter
       /\ IF Allowed(counts'[k])
          THEN /\ status' = Route(path)
               /\ admitted' = [admitted EXCEPT ![k][now] = @ + 1]
          ELSE /\ status' = 429
               /\ UNCHANGED admitted
       /\ UNCHANGED now

\* The wall clock advances.
Tick ==
    /\ now < MaxTime
    /\ now' = now + 1
    /\ UNCHANGED <<counts, lastReset, status, admitted>>

Next ==
    \/ Tick
    \/ \E k \in Clients, key \in ApiKeys, path \in Paths : Request(k, key, path)

Spec == Init /\ [][Next]_vars

\* Properties

TypeOK ==
    /\ now \in 0..MaxTime
    /\ counts \in [Clients -> 0..MaxCount]
    /\ lastReset \in 0..now
    /\ status \in {0, 200, 401, 404, 429}

\* Requests of client k the limiter let through in the ticks t..t+d-1.
AdmittedIn(k, t, d) ==
    LET RECURSIVE SumFrom(_)
        SumFrom(u) == IF u > t + d - 1 \/ u > MaxTime THEN 0
                      ELSE admitted[k][u] + SumFrom(u + 1)
    IN SumFrom(t)

\* A client gets at most twice the limit through in any Window + 1
\* consecutive ticks: a window of RateLimiter lasts at least that long
\* (it restarts only when `time.time() - last_reset > window`, on a
\* request), so any such span meets at most two windows, and each admits
\* at most `limit` requests per client. The demo's "limit=5/10s" itself
\* does not hold: `limit` at the end of one window and `limit` after the
\* restart fall within one window_sec span.
AtMostTwoWindowsOfRequests ==
    \A k \in Clients, t \in 0..MaxTime :
        AdmittedIn(k, t, Window + 1) <= 2 * Limit
=============================================================================
