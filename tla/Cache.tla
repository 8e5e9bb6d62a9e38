------------------------------- MODULE Cache -------------------------------
(***************************************************************************)
(* The Cache class of 11_system_design_in_go/04_cache_service_mini/main.py:*)
(* an OrderedDict of CacheEntry guarded by one threading.Lock, used by     *)
(* client threads through set/get/size, and swept by a daemon reaper      *)
(* thread (_cleanup_loop) once per second.                                *)
(*                                                                         *)
(* items is the OrderedDict: a sequence of entries, oldest-used first.    *)
(* Time is kept per entry as expiresIn = expires_at - time.time(), the    *)
(* only quantity the code compares; every value below 0 is the same to   *)
(* the code (time.time() > expires_at) and is kept as -1. Each client     *)
(* thread runs the statements of set between lock acquisition and release *)
(* as separate steps, so a missing lock would show as an interleaving.    *)
(***************************************************************************)
EXTENDS Integers, Sequences, FiniteSetsExt, TLC

CONSTANTS
    Keys,       \* cache keys
    Vals,       \* payloads
    TTLs,       \* ttl_seconds arguments of set
    Capacity,   \* Cache(capacity)
    Clients,    \* caller threads
    NoValue,    \* the None returned by a miss
    None,       \* nobody holds the lock
    MaxOps      \* calls each client thread makes

VARIABLES
    items,      \* self.items
    holder,     \* owner of self.lock, or None
    pc,         \* pc[c]: where client c is
    arg,        \* arg[c]: the key, value and ttl of c's current call
    ops,        \* ops[c]: calls c has started
    result,     \* result[c]: what c's last get returned
    sizeResult, \* sizeResult[c]: what c's last size() returned
    sleepLeft,  \* time until the reaper's time.sleep(1) returns
    displaced,  \* history: entries the set in progress has removed
    newer       \* history: <<a, b>> \in newer iff a was touched after b

vars == <<items, holder, pc, arg, ops, result, sizeResult, sleepLeft,
          displaced, newer>>

Entry == [key : Keys, value : Vals, expiresIn : {-1} \cup 0..Max(TTLs)]
Miss == [found |-> FALSE, value |-> NoValue]

KeysOf(s) == {s[i].key : i \in DOMAIN s}
IndexOf(s, k) == CHOOSE i \in DOMAIN s : s[i].key = k
Expired(e) == e.expiresIn < 0

\* del self.items[key]
DelKey(s, k) == SelectSeq(s, LAMBDA e : e.key # k)

\* self.items[key] = entry: an existing key keeps its position.
Assign(s, e) ==
    IF e.key \in KeysOf(s) THEN [s EXCEPT ![IndexOf(s, e.key)] = e]
                           ELSE Append(s, e)

\* move_to_end(key)
MoveToEnd(s, k) == Append(DelKey(s, k), s[IndexOf(s, k)])

\* The dict as a function of its keys (what a caller can observe).
StoreOf(s) == [k \in KeysOf(s) |-> [value |-> s[IndexOf(s, k)].value,
                                   expiresIn |-> s[IndexOf(s, k)].expiresIn]]

\* A touch of k (set or get hit) makes k newer than every other key.
Touch(k) == {p \in newer : p[2] # k} \cup {<<k, j>> : j \in Keys \ {k}}

Age(x) == IF x < 0 THEN -1 ELSE x - 1

Init ==
    /\ items = <<>>
    /\ holder = None
    /\ pc = [c \in Clients |-> "idle"]
    /\ arg = [c \in Clients |-> [key |-> NoValue, value |-> NoValue, ttl |-> 0]]
    /\ ops = [c \in Clients |-> 0]
    /\ result = [c \in Clients |-> Miss]
    /\ sizeResult = [c \in Clients |-> 0]
    /\ sleepLeft = 1
    /\ displaced = [k \in {} |-> NoValue]
    /\ newer = {}

-----------------------------------------------------------------------------
(* set(key, value, ttl_seconds)                                           *)

\* with self.lock: -- the call starts once c owns the lock.
SetBegin(c, k, v, t) ==
    /\ pc[c] = "idle"
    /\ ops[c] < MaxOps
    /\ holder = None
    /\ holder' = c
    /\ pc' = [pc EXCEPT ![c] = "set_del"]
    /\ arg' = [arg EXCEPT ![c] = [key |-> k, value |-> v, ttl |-> t]]
    /\ ops' = [ops EXCEPT ![c] = @ + 1]
    /\ UNCHANGED <<items, result, sizeResult, sleepLeft, displaced, newer>>

\* if key in self.items: del self.items[key]
SetDelete(c) ==
    LET k == arg[c].key IN
    /\ pc[c] = "set_del"
    /\ items' = DelKey(items, k)
    /\ displaced' = IF k \in KeysOf(items)
                    THEN k :> StoreOf(items)[k] @@ displaced
                    ELSE displaced
    /\ pc' = [pc EXCEPT ![c] = "set_evict"]
    /\ UNCHANGED <<holder, arg, ops, result, sizeResult, sleepLeft, newer>>

\* Mutant: the capacity test written with > instead of >=.
SetEvictStrict(c) ==
    /\ pc[c] = "set_evict"
    /\ IF Len(items) > Capacity /\ items # <<>>
       THEN /\ items' = Tail(items)
            /\ displaced' = Head(items).key :> StoreOf(items)[Head(items).key]
                              @@ displaced
       ELSE UNCHANGED <<items, displaced>>
    /\ pc' = [pc EXCEPT ![c] = "set_insert"]
    /\ UNCHANGED <<holder, arg, ops, result, sizeResult, sleepLeft, newer>>

\* if len(self.items) >= self.capacity: self._evict_lru(), which pops the
\* oldest entry when there is one.
SetEvict(c) ==
    /\ pc[c] = "set_evict"
    /\ IF Len(items) >= Capacity /\ items # <<>>
       THEN /\ items' = Tail(items)
            /\ displaced' = Head(items).key :> StoreOf(items)[Head(items).key]
                              @@ displaced
       ELSE UNCHANGED <<items, displaced>>
    /\ pc' = [pc EXCEPT ![c] = "set_insert"]
    /\ UNCHANGED <<holder, arg, ops, result, sizeResult, sleepLeft, newer>>

\* self.items[key] = CacheEntry(value, time.time() + ttl_seconds), then
\* the with-block releases the lock.
SetInsert(c) ==
    LET a == arg[c] IN
    /\ pc[c] = "set_insert"
    /\ items' = Assign(items, [key |-> a.key, value |-> a.value,
                               expiresIn |-> a.ttl])
    /\ newer' = Touch(a.key)
    /\ displaced' = [k \in {} |-> NoValue]
    /\ holder' = None
    /\ pc' = [pc EXCEPT ![c] = "idle"]
    /\ UNCHANGED <<arg, ops, result, sizeResult, sleepLeft>>

-----------------------------------------------------------------------------
(* get(key)                                                               *)

GetBegin(c, k) ==
    /\ pc[c] = "idle"
    /\ ops[c] < MaxOps
    /\ holder = None
    /\ holder' = c
    /\ pc' = [pc EXCEPT ![c] = "get"]
    /\ arg' = [arg EXCEPT ![c] = [key |-> k, value |-> NoValue, ttl |-> 0]]
    /\ ops' = [ops EXCEPT ![c] = @ + 1]
    /\ UNCHANGED <<items, result, sizeResult, sleepLeft, displaced, newer>>

\* Leaving the with-block on any return path releases the lock.
GetReturn(c, r) ==
    /\ result' = [result EXCEPT ![c] = r]
    /\ holder' = None
    /\ pc' = [pc EXCEPT ![c] = "idle"]
    /\ UNCHANGED <<arg, ops, sizeResult, sleepLeft, displaced>>

\* Mutant: the early return of a miss leaves the lock held, as a manual
\* acquire() without release() on that path would.
GetAbsentKeepsLock(c) ==
    /\ pc[c] = "get"
    /\ arg[c].key \notin KeysOf(items)
    /\ result' = [result EXCEPT ![c] = Miss]
    /\ pc' = [pc EXCEPT ![c] = "idle"]
    /\ UNCHANGED <<items, newer, holder, arg, ops, sizeResult, sleepLeft, displaced>>

\* if key not in self.items: return None, False
GetAbsent(c) ==
    /\ pc[c] = "get"
    /\ arg[c].key \notin KeysOf(items)
    /\ GetReturn(c, Miss)
    /\ UNCHANGED <<items, newer>>

\* if time.time() > entry.expires_at: del self.items[key]; return None, False
GetExpired(c) ==
    LET k == arg[c].key IN
    /\ pc[c] = "get"
    /\ k \in KeysOf(items)
    /\ Expired(items[IndexOf(items, k)])
    /\ items' = DelKey(items, k)
    /\ GetReturn(c, Miss)
    /\ UNCHANGED newer

\* Mutant: a hit that forgets move_to_end.
GetHitNoMove(c) ==
    LET k == arg[c].key IN
    /\ pc[c] = "get"
    /\ k \in KeysOf(items)
    /\ ~Expired(items[IndexOf(items, k)])
    /\ newer' = Touch(k)
    /\ GetReturn(c, [found |-> TRUE, value |-> items[IndexOf(items, k)].value])
    /\ UNCHANGED items

\* Mutant: a hit that returns the CacheEntry instead of entry.value.
GetHitReturnsEntry(c) ==
    LET k == arg[c].key IN
    /\ pc[c] = "get"
    /\ k \in KeysOf(items)
    /\ ~Expired(items[IndexOf(items, k)])
    /\ items' = MoveToEnd(items, k)
    /\ newer' = Touch(k)
    /\ GetReturn(c, [found |-> TRUE, value |-> items[IndexOf(items, k)]])

\* self.items.move_to_end(key); return entry.value, True
GetHit(c) ==
    LET k == arg[c].key IN
    /\ pc[c] = "get"
    /\ k \in KeysOf(items)
    /\ ~Expired(items[IndexOf(items, k)])
    /\ items' = MoveToEnd(items, k)
    /\ newer' = Touch(k)
    /\ GetReturn(c, [found |-> TRUE, value |-> items[IndexOf(items, k)].value])

-----------------------------------------------------------------------------
(* size(): with self.lock: return len(self.items)                         *)

Size(c) ==
    /\ pc[c] = "idle"
    /\ ops[c] < MaxOps
    /\ holder = None
    /\ sizeResult' = [sizeResult EXCEPT ![c] = Len(items)]
    /\ ops' = [ops EXCEPT ![c] = @ + 1]
    /\ UNCHANGED <<items, holder, pc, arg, result, sleepLeft, displaced, newer>>

-----------------------------------------------------------------------------
(* _cleanup_loop: after time.sleep(1), take the lock, read now once and   *)
(* delete every entry with now > expires_at; then sleep again.            *)

ReaperSweep ==
    /\ sleepLeft = 0
    /\ holder = None
    /\ items' = SelectSeq(items, LAMBDA e : ~Expired(e))
    /\ sleepLeft' = 1
    /\ UNCHANGED <<holder, pc, arg, ops, result, sizeResult, displaced, newer>>

\* The clock advances one unit.
Tick ==
    /\ items' = [i \in DOMAIN items |->
                    [items[i] EXCEPT !.expiresIn = Age(@)]]
    /\ displaced' = [k \in DOMAIN displaced |->
                        [displaced[k] EXCEPT !.expiresIn = Age(@)]]
    /\ sleepLeft' = IF sleepLeft > 0 THEN sleepLeft - 1 ELSE 0
    /\ UNCHANGED <<holder, pc, arg, ops, result, sizeResult, newer>>

-----------------------------------------------------------------------------

Next ==
    \/ \E c \in Clients, k \in Keys, v \in Vals, t \in TTLs : SetBegin(c, k, v, t)
    \/ \E c \in Clients : SetDelete(c) \/ SetEvict(c) \/ SetInsert(c)
    \/ \E c \in Clients, k \in Keys : GetBegin(c, k)
    \/ \E c \in Clients : GetAbsent(c) \/ GetExpired(c) \/ GetHit(c)
    \/ \E c \in Clients : Size(c)
    \/ ReaperSweep
    \/ Tick

\* A thread inside a critical section keeps being scheduled, the daemon
\* reaper keeps looping, and the clock keeps running. Starting a call is
\* the caller's choice and carries no fairness.
Fairness ==
    /\ \A c \in Clients : WF_vars(SetDelete(c) \/ SetEvict(c) \/ SetInsert(c))
    /\ \A c \in Clients : WF_vars(GetAbsent(c) \/ GetExpired(c) \/ GetHit(c))
    /\ WF_vars(ReaperSweep)
    /\ WF_vars(Tick)

Spec == Init /\ [][Next]_vars /\ Fairness

\* Values the cfgs cannot write. A caller passing a negative ttl next to a
\* valid one (a cfg has no negative numbers).
NegativeTTLs == {-1, 2}

\* Keys, values and client threads are model values the cache neither
\* orders nor inspects, so the safety run reduces by their permutations.
CacheSymmetry == Permutations(Keys) \cup Permutations(Vals) \cup Permutations(Clients)

-----------------------------------------------------------------------------
(* Properties                                                             *)

TypeOK ==
    /\ items \in Seq(Entry)
    /\ holder \in Clients \cup {None}
    /\ pc \in [Clients -> {"idle", "set_del", "set_evict", "set_insert", "get"}]
    /\ arg \in [Clients -> [key : Keys \cup {NoValue}, value : Vals \cup {NoValue},
                            ttl : TTLs \cup {0}]]
    /\ ops \in [Clients -> 0..MaxOps]
    /\ result \in [Clients -> [found : BOOLEAN, value : Vals \cup {NoValue}]]
    /\ sizeResult \in [Clients -> Nat]
    /\ sleepLeft \in {0, 1}
    /\ newer \subseteq Keys \X Keys

\* I1 (spec section 3): whenever no call is in progress, the OrderedDict
\* holds at most capacity entries. Breaking it takes a set that misjudges
\* len(self.items) at line 30, or two threads inside set at once.
CapacityBound == holder = None => Len(items) <= Capacity

\* I2 (spec section 3): the OrderedDict's order is the order of the last
\* touches: every entry was set or hit by get more recently than every
\* entry before it, so popitem(last=False) evicts the least recently used
\* key. This depends on set deleting an existing key before re-inserting
\* it (an OrderedDict assignment keeps an existing key's position) and on
\* get's move_to_end.
RecencyOrder ==
    \A i, j \in DOMAIN items :
        i < j => <<items[j].key, items[i].key>> \in newer

\* The cache implements CacheContract: with the entries a set in progress
\* has removed counted as still present (nobody can see them while the
\* lock is held), every step of set, get, size, the reaper and the clock
\* is a step of the atomic contract. In particular an overwrite never
\* evicts another key, get never returns an expired or outdated value,
\* and the reaper and get's lazy check agree on what is expired.
Contract == INSTANCE CacheContract WITH store <- displaced @@ StoreOf(items)
EventuallyReaped ==
    \A k \in Keys :
        (k \in KeysOf(items) /\ Expired(StoreOf(items)[k]))
            ~> (k \notin KeysOf(items) \/ ~Expired(StoreOf(items)[k]))

\* Spec section 8, TTL correctness: a key set with ttl T is a miss for
\* every get at time >= T after the insertion, i.e. get never hits an
\* entry whose deadline has been reached (expiresIn = 0).
HitsBeforeDeadline ==
    [][\A c \in Clients :
         GetHit(c) => items[IndexOf(items, arg[c].key)].expiresIn > 0]_vars

\* Spec sections 4.2 and 7: a non-positive ttl is a contract violation that
\* set must reject rather than leave the cache in an undefined state. What
\* accepting it leads to: a set whose entry is expired on arrival still
\* takes a slot, and never at the cost of a live entry.
NoLiveEvictedForDeadEntry ==
    [][\A c \in Clients :
         (SetInsert(c) /\ arg[c].ttl < 0)
            => \A k \in DOMAIN displaced \ {arg[c].key} : Expired(displaced[k])]_vars

=============================================================================
