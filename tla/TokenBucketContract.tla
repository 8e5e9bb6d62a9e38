------------------------ MODULE TokenBucketContract ------------------------
(***************************************************************************)
(* What the per-client token bucket of                                     *)
(* 11_system_design_in_go/01_rate_limiter_service_mini/main.py promises:  *)
(* every client has its own bucket, full (Capacity) the first time it is  *)
(* seen; every tick of the clock adds Rate to every bucket, never past    *)
(* Capacity; a /ping is answered 200 and costs Cost when the bucket holds *)
(* at least Cost, and 429 otherwise. Amounts are in units of 1/Cost of a  *)
(* token. RateLimiterService.tla, which refills lazily, implements it.    *)
(***************************************************************************)
EXTENDS Naturals

CONSTANTS Clients, Capacity, Cost, Rate, MaxTime

VARIABLES now, avail, status

Init ==
    /\ now = 0
    /\ avail = [k \in Clients |-> Capacity]
    /\ status = 0

\* One tick of eager refill for every client.
Tick ==
    /\ now < MaxTime
    /\ now' = now + 1
    /\ avail' = [k \in Clients |->
                    IF avail[k] + Rate > Capacity THEN Capacity ELSE avail[k] + Rate]
    /\ UNCHANGED status

\* A /ping of client k.
Ping(k) ==
    /\ \/ /\ avail[k] >= Cost
          /\ avail' = [avail EXCEPT ![k] = @ - Cost]
          /\ status' = 200
       \/ /\ avail[k] < Cost
          /\ status' = 429
          /\ UNCHANGED avail
    /\ UNCHANGED now

\* Any other path.
Other ==
    /\ status' = 404
    /\ UNCHANGED <<now, avail>>

Next == Tick \/ Other \/ \E k \in Clients : Ping(k)

Spec == Init /\ [][Next]_<<now, avail, status>>
=============================================================================
