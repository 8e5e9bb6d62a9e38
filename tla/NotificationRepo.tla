-------------------------- MODULE NotificationRepo --------------------------
(***************************************************************************)
(* 10_design_patterns_in_go/05_repository/main.py. MemoryRepo is a dict  *)
(* from id to Notification: save assigns (an id saved again keeps its     *)
(* place in the dict's order and gets the new notification), find_by_id   *)
(* returns it or raises KeyError, list_all returns the values in dict     *)
(* order. NotificationService.send builds the Notification and saves it;  *)
(* get_history is list_all. sent_at is left out: nothing reads it. The    *)
(* client is any sequence of these calls.                                 *)
(***************************************************************************)
EXTENDS Naturals, Sequences, FiniteSets

CONSTANTS
    Ids,         \* notification ids
    Recipients,  \* `to` values
    MaxSends     \* bound on the sends

VARIABLES
    data,   \* MemoryRepo._data: id -> [id, to]
    order,  \* the dict's keys in insertion order
    sends,  \* sends so far
    reply   \* the last call's result, as a record

vars == <<data, order, sends, reply>>

Init ==
    /\ data = [id \in {} |-> [id |-> id, to |-> id]]
    /\ order = <<>>
    /\ sends = 0
    /\ reply = [none |-> TRUE]

\* NotificationService.send: Notification(...) and repo.save, i.e.
\* self._data[n.id] = n.
Send(id, to) ==
    /\ sends < MaxSends
    /\ data' = [x \in DOMAIN data \cup {id} |-> IF x = id THEN [id |-> id, to |-> to] ELSE data[x]]
    /\ order' = IF id \in DOMAIN data THEN order ELSE Append(order, id)
    /\ sends' = sends + 1
    /\ reply' = [none |-> TRUE]

\* find_by_id: the notification, or the KeyError.
FindById(id) ==
    /\ reply' = IF id \in DOMAIN data THEN [found |-> data[id]] ELSE [error |-> "not found"]
    /\ UNCHANGED <<data, order, sends>>

\* get_history / list_all: list(self._data.values()).
ListAll ==
    /\ reply' = [items |-> [i \in 1..Len(order) |-> data[order[i]]]]
    /\ UNCHANGED <<data, order, sends>>

Next ==
    \/ ListAll
    \/ \E id \in Ids : FindById(id) \/ \E to \in Recipients : Send(id, to)

Spec == Init /\ [][Next]_vars

\* Properties

\* The type invariant, with what the dict keeps: every saved id once, in
\* the order of its first save.
TypeOK ==
    /\ sends \in 0..MaxSends
    /\ DOMAIN data \subseteq Ids
    /\ Len(order) = Cardinality(DOMAIN data) /\ {order[i] : i \in 1..Len(order)} = DOMAIN data
=============================================================================
