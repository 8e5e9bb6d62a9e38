---------------------------- MODULE SafeCounter ----------------------------
(***************************************************************************)
(* The safe counter of 06_concurrency/08_mutexes/main.py: main starts one *)
(* thread per increment, each running SafeCounter.inc, joins them all and *)
(* reads SafeCounter.value(). `self._value += 1` is a load, an add and a  *)
(* store, three steps another thread could run between; the lock makes    *)
(* them one critical section.                                             *)
(* main then runs the Cache example: two sets, Readers threads each doing *)
(* cache.get("name") under the lock, the joins, a set to "bob" and a get.  *)
(***************************************************************************)
EXTENDS Naturals, FiniteSets

CONSTANTS
    Threads,  \* the threads main starts, one inc each
    Readers,  \* the cache example's reader threads
    None      \* the lock is free, or cache.get found no value

VARIABLES
    value,    \* SafeCounter._value
    lock,     \* the thread holding SafeCounter._lock, or None
    pc,       \* pc[t]: "start", "locked", "loaded" or "done"
    loaded,   \* loaded[t]: the _value thread t has loaded
    mainPc,   \* "join", "cache", "readers", "rjoin", "done"
    result,   \* what counter.value() returned
    data,     \* Cache._data: "name" and "role" to a value or None
    rpc,      \* rpc[r]: "new", "started" or "done"
    saw,      \* saw[r]: what reader r's cache.get("name") returned
    after     \* what the final cache.get("name") returned

vars == <<value, lock, pc, loaded, mainPc, result, data, rpc, saw, after>>
cacheVars == <<data, rpc, saw, after>>

Init ==
    /\ value = 0
    /\ lock = None
    /\ pc = [t \in Threads |-> "start"]
    /\ loaded = [t \in Threads |-> 0]
    /\ mainPc = "join"
    /\ result = 0
    /\ data = [k \in {"name", "role"} |-> None]
    /\ rpc = [r \in Readers |-> "new"]
    /\ saw = [r \in Readers |-> None]
    /\ after = None

\* Mutant: inc entering its critical section without taking the lock.
AcquireNoLock(t) ==
    /\ pc[t] = "start"
    /\ pc' = [pc EXCEPT ![t] = "locked"]
    /\ UNCHANGED <<value, lock, loaded, mainPc, result, cacheVars>>

\* `with self._lock:` blocks until the lock is free and takes it.
Acquire(t) ==
    /\ pc[t] = "start"
    /\ lock = None
    /\ lock' = t
    /\ pc' = [pc EXCEPT ![t] = "locked"]
    /\ UNCHANGED <<value, loaded, mainPc, result, cacheVars>>

\* `self._value += 1`, first half: load _value.
Load(t) ==
    /\ pc[t] = "locked"
    /\ loaded' = [loaded EXCEPT ![t] = value]
    /\ pc' = [pc EXCEPT ![t] = "loaded"]
    /\ UNCHANGED <<value, lock, mainPc, result, cacheVars>>

\* Second half: store the loaded value plus one; leaving the `with`
\* releases the lock.
Store(t) ==
    /\ pc[t] = "loaded"
    /\ value' = loaded[t] + 1
    /\ lock' = None
    /\ pc' = [pc EXCEPT ![t] = "done"]
    /\ UNCHANGED <<loaded, mainPc, result, cacheVars>>

\* `for t in threads: t.join()`, then counter.value() under the lock.
JoinAndRead ==
    /\ mainPc = "join"
    /\ \A t \in Threads : pc[t] = "done"
    /\ lock = None
    /\ result' = value
    /\ mainPc' = "cache"
    /\ UNCHANGED <<value, lock, pc, loaded, cacheVars>>

\* `cache = Cache(); cache.set("name", "alice"); cache.set("role",
\* "engineer")`: no other thread is running, so the lock is free.
FillCache ==
    /\ mainPc = "cache"
    /\ data' = [data EXCEPT !["name"] = "alice", !["role"] = "engineer"]
    /\ mainPc' = "readers"
    /\ UNCHANGED <<value, lock, pc, loaded, result, rpc, saw, after>>

\* `t = threading.Thread(target=reader, args=(i,)); t.start()`.
StartReader(r) ==
    /\ mainPc = "readers"
    /\ rpc[r] = "new"
    /\ rpc' = [rpc EXCEPT ![r] = "started"]
    /\ mainPc' = IF \A x \in Readers \ {r} : rpc[x] /= "new" THEN "rjoin" ELSE "readers"
    /\ UNCHANGED <<value, lock, pc, loaded, result, data, saw, after>>

\* reader(rid): cache.get("name") takes the lock, reads and releases it
\* (the print that follows changes no state).
Read(r) ==
    /\ rpc[r] = "started"
    /\ lock = None
    /\ saw' = [saw EXCEPT ![r] = data["name"]]
    /\ rpc' = [rpc EXCEPT ![r] = "done"]
    /\ UNCHANGED <<value, lock, pc, loaded, mainPc, result, data, after>>

\* The joins, then `cache.set("name", "bob")` and the printed get.
JoinReadersAndWrite ==
    /\ mainPc = "rjoin"
    /\ \A r \in Readers : rpc[r] = "done"
    /\ data' = [data EXCEPT !["name"] = "bob"]
    /\ after' = data'["name"]
    /\ mainPc' = "done"
    /\ UNCHANGED <<value, lock, pc, loaded, result, rpc, saw>>

\* main() has returned.
Terminated ==
    /\ mainPc = "done"
    /\ UNCHANGED vars

Next ==
    \/ JoinAndRead \/ FillCache \/ JoinReadersAndWrite \/ Terminated
    \/ \E r \in Readers : StartReader(r) \/ Read(r)
    \/ \E t \in Threads : Acquire(t) \/ Load(t) \/ Store(t)

Spec == Init /\ [][Next]_vars

\* Properties

TypeOK ==
    /\ value \in 0..Cardinality(Threads)
    /\ lock \in Threads \cup {None}
    /\ pc \in [Threads -> {"start", "locked", "loaded", "done"}]
    /\ mainPc \in {"join", "cache", "readers", "rjoin", "done"}
    /\ rpc \in [Readers -> {"new", "started", "done"}]

\* What main prints is what its comments promise: "counter: always 1000"
\* (after the joins value() counts every inc, however the threads' loads
\* and stores interleave), every reader finds "alice" (the write to "bob"
\* comes only after the readers are joined), and the final get sees "bob".
CounterAndCachePrints ==
    /\ mainPc \in {"cache", "readers", "rjoin", "done"} => result = Cardinality(Threads)
    /\ \A r \in Readers : rpc[r] = "done" => saw[r] = "alice"
    /\ mainPc = "done" => after = "bob"
=============================================================================
