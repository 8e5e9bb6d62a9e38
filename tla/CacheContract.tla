--------------------------- MODULE CacheContract ---------------------------
(***************************************************************************)
(* What the TTL + LRU cache of                                             *)
(* 11_system_design_in_go/04_cache_service_mini/main.py promises its      *)
(* callers, with every operation atomic and without recency order:        *)
(*   - store maps each cached key to its value and the time left until    *)
(*     its deadline (expiresIn = expires_at - now);                       *)
(*   - set(k, v, ttl) stores k; only a NEW key arriving when the store is *)
(*     full may push out one other key;                                   *)
(*   - get(k) hits only a stored, unexpired key and returns its value; an *)
(*     expired key it finds is removed;                                   *)
(*   - size() reports how many keys are stored, expired ones included;    *)
(*   - any set of expired keys may be removed at any time (the reaper).   *)
(* "Expired" is the code's comparison time.time() > expires_at, i.e.      *)
(* expiresIn < 0. Cache.tla is shown to implement this module.            *)
(***************************************************************************)
EXTENDS Integers, FiniteSets, TLC

CONSTANTS Keys, Vals, TTLs, Capacity, Clients, NoValue

VARIABLES store, result, sizeResult

Expired(e) == e.expiresIn < 0

Miss == [found |-> FALSE, value |-> NoValue]

\* A store keyed by K, with its key k overwritten by entry e.
Put(s, k, e) == [x \in DOMAIN s \cup {k} |-> IF x = k THEN e ELSE s[x]]

Drop(s, D) == [x \in DOMAIN s \ D |-> s[x]]

Init ==
    /\ store = [k \in {} |-> NoValue]
    /\ result = [c \in Clients |-> Miss]
    /\ sizeResult = [c \in Clients |-> 0]

\* set(k, v, ttl): an overwrite or an insertion below capacity drops
\* nothing; an insertion at capacity drops exactly one other key.
Set(k, v, t) ==
    LET e == [value |-> v, expiresIn |-> t] IN
    /\ \/ /\ k \in DOMAIN store \/ Cardinality(DOMAIN store) < Capacity
          /\ store' = Put(store, k, e)
       \/ /\ k \notin DOMAIN store
          /\ Cardinality(DOMAIN store) >= Capacity
          /\ \E j \in DOMAIN store : store' = Put(Drop(store, {j}), k, e)
    /\ UNCHANGED <<result, sizeResult>>

Get(c, k) ==
    \/ /\ k \notin DOMAIN store
       /\ result' = [result EXCEPT ![c] = Miss]
       /\ UNCHANGED store
    \/ /\ k \in DOMAIN store
       /\ Expired(store[k])
       /\ store' = Drop(store, {k})
       /\ result' = [result EXCEPT ![c] = Miss]
    \/ /\ k \in DOMAIN store
       /\ ~Expired(store[k])
       /\ result' = [result EXCEPT ![c] = [found |-> TRUE,
                                            value |-> store[k].value]]
       /\ UNCHANGED store
    /\ UNCHANGED sizeResult

Size(c) ==
    /\ sizeResult' = [sizeResult EXCEPT ![c] = Cardinality(DOMAIN store)]
    /\ UNCHANGED <<store, result>>

\* Expired keys leave the store without a caller asking.
Reap(D) ==
    /\ D # {}
    /\ \A k \in D : Expired(store[k])
    /\ store' = Drop(store, D)
    /\ UNCHANGED <<result, sizeResult>>

\* Time passes: every deadline comes one unit closer; -1 stands for
\* "already passed".
Tick ==
    /\ store' = [k \in DOMAIN store |->
                    [store[k] EXCEPT !.expiresIn = IF @ < 0 THEN -1 ELSE @ - 1]]
    /\ UNCHANGED <<result, sizeResult>>

Next ==
    \/ \E k \in Keys, v \in Vals, t \in TTLs : Set(k, v, t)
    \/ \E c \in Clients, k \in Keys : Get(c, k)
    \/ \E c \in Clients : Size(c)
    \/ \E D \in SUBSET DOMAIN store : Reap(D)
    \/ Tick

Spec == Init /\ [][Next]_<<store, result, sizeResult>>

=============================================================================
