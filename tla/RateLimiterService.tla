------------------------- MODULE RateLimiterService -------------------------
(***************************************************************************)
(* The rate limiter service of                                             *)
(* 11_system_design_in_go/01_rate_limiter_service_mini/main.py: a         *)
(* RateLimiter keeps one Bucket per client address, created full on the   *)
(* first request; Bucket.allow refills lazily from the time elapsed since *)
(* last_refill, caps at max_tokens and takes one token. The HTTPServer is *)
(* single-threaded, so each do_GET is one atomic step.                    *)
(* time.time() is counted in ticks and tokens in units: one token is      *)
(* Units units and refill_rate is RefillPerTick units per tick, so the   *)
(* float arithmetic of the code is exact here.                            *)
(***************************************************************************)
EXTENDS Naturals, FiniteSets

CONSTANTS
    Clients,        \* client addresses (client_address[0])
    MaxTokens,      \* max_tokens
    Units,          \* units per token
    RefillPerTick,  \* refill_rate, in units per tick
    MaxTime         \* bound on the clock

VARIABLES
    now,         \* time.time() in ticks
    buckets,     \* the keys of RateLimiter.buckets
    tokens,      \* tokens[k]: Bucket.tokens of client k, in units
    lastRefill,  \* lastRefill[k]: Bucket.last_refill of client k
    status       \* the status code of the last response, 0 before the first

vars == <<now, buckets, tokens, lastRefill, status>>

MaxUnits == MaxTokens * Units

\* The refill of Bucket.allow: tokens += elapsed * refill_rate, then the
\* `if self.tokens > self.max_tokens` cap.
Refilled(t, last) ==
    LET added == t + (now - last) * RefillPerTick
    IN IF added > MaxUnits THEN MaxUnits ELSE added

\* The tokens of Bucket.allow after the refill: an existing bucket's, or
\* a new Bucket(max_tokens, refill_rate), full, that RateLimiter.allow
\* creates for an unknown key.
BucketOf(k) == IF k \in buckets THEN Refilled(tokens[k], lastRefill[k]) ELSE MaxUnits

\* `if self.tokens >= 1: self.tokens -= 1; return True`; `return False`.
Granted(t) == t >= Units

\* Mutant: the token taken without the `if self.tokens >= 1` test.
TakeNoCheck(t) == t - Units

Take(t) == IF Granted(t) THEN t - Units ELSE t

Init ==
    /\ now = 0
    /\ buckets = {}
    /\ tokens = [k \in Clients |-> 0]
    /\ lastRefill = [k \in Clients |-> 0]
    /\ status = 0

\* Mutant: last_refill left as it was, so the same elapsed time is
\* credited again on the next request.
PingNoStamp(k) ==
    LET t == BucketOf(k)
    IN /\ buckets' = buckets \cup {k}
       /\ tokens' = [tokens EXCEPT ![k] = Take(t)]
       /\ lastRefill' = [lastRefill EXCEPT ![k] = IF k \in buckets THEN @ ELSE now]
       /\ status' = IF Granted(t) THEN 200 ELSE 429
       /\ UNCHANGED now

\* do_GET on /ping: RateLimiter.allow(key) creates the bucket full with
\* last_refill = now if the key is new, then Bucket.allow refills, stamps
\* last_refill and takes a token if one is there; 200 or 429.
Ping(k) ==
    LET t == BucketOf(k)
    IN /\ buckets' = buckets \cup {k}
       /\ tokens' = [tokens EXCEPT ![k] = Take(t)]
       /\ lastRefill' = [lastRefill EXCEPT ![k] = now]
       /\ status' = IF Granted(t) THEN 200 ELSE 429
       /\ UNCHANGED now

\* do_GET on any other path: 404, the limiter untouched.
NotFound ==
    /\ status' = 404
    /\ UNCHANGED <<now, buckets, tokens, lastRefill>>

\* The wall clock advances.
Tick ==
    /\ now < MaxTime
    /\ now' = now + 1
    /\ UNCHANGED <<buckets, tokens, lastRefill, status>>

Next == Tick \/ NotFound \/ \E k \in Clients : Ping(k)

Spec == Init /\ [][Next]_vars

\* Properties

TypeOK ==
    /\ now \in 0..MaxTime
    /\ buckets \subseteq Clients
    /\ tokens \in [Clients -> 0..MaxUnits]
    /\ lastRefill \in [Clients -> 0..MaxTime]
    /\ \A k \in buckets : lastRefill[k] <= now

\* The bucket a client would see now: its lazily refilled tokens, or a
\* full bucket if RateLimiter.allow has not created one yet.
Avail == [k \in Clients |-> BucketOf(k)]

Contract == INSTANCE TokenBucketContract
                WITH Capacity <- MaxUnits, Cost <- Units, Rate <- RefillPerTick,
                     avail <- Avail

\* Lazy refill (tokens topped up only when a request arrives, from the
\* time since last_refill) answers every request exactly as a bucket
\* refilled on every tick would: Bucket.allow neither loses nor invents
\* tokens across any interleaving of clients, requests and clock ticks.
ImplementsTokenBucket == Contract!Spec
=============================================================================
