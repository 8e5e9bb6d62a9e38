----------------------------- MODULE CrudStore -----------------------------
(***************************************************************************)
(* The in-memory item API of                                               *)
(* 08_http_and_backend/05_json_api_crud_in_memory/main.py. `store` is a    *)
(* dict, and a dict lists its values in insertion order, so the store is   *)
(* modelled as the sequence of its items in that order. HTTPServer serves *)
(* one request at a time, so every do_* handler is one atomic step.        *)
(* A request body field is a value or Absent; names and prices are model  *)
(* values or small integers.                                               *)
(***************************************************************************)
EXTENDS Naturals, SequencesExt

CONSTANTS
    Ids,      \* the ids a request path can carry: 1..MaxId
    MaxId,    \* bound on next_id
    Names,    \* non-empty names a body can carry
    Prices,   \* prices a body can carry
    Absent    \* a field missing from a body

VARIABLES
    store,   \* the items of `store`, in dict insertion order
    nextId,  \* next_id
    reply    \* [status, body] of the last response; status 0 before any

vars == <<store, nextId, reply>>

Reply(s, b) == [status |-> s, body |-> b]

StoreIds == {store[i].id : i \in DOMAIN store}

\* The position of item id in the dict.
Pos(id) == SelectInSeq(store, LAMBDA it : it.id = id)

Init ==
    /\ store = <<>>
    /\ nextId = 1
    /\ reply = Reply(0, Absent)

\* do_GET /items: list(store.values()).
ListItems ==
    /\ reply' = Reply(200, [items |-> store])
    /\ UNCHANGED <<store, nextId>>

\* do_GET /items/{id}: store.get(item_id), 404 on None.
GetItem(id) ==
    /\ reply' = IF id \in StoreIds THEN Reply(200, store[Pos(id)]) ELSE Reply(404, Absent)
    /\ UNCHANGED <<store, nextId>>

\* do_POST /items: body.get("name", ""), 400 if falsy; body.get("price", 0);
\* the item goes in under next_id, which is then incremented.
PostItem(n, p) ==
    LET name  == IF n = Absent THEN "" ELSE n
        price == IF p = Absent THEN 0 ELSE p
        item  == [id |-> nextId, name |-> name, price |-> price]
    IN \/ /\ name = ""
          /\ reply' = Reply(400, Absent)
          /\ UNCHANGED <<store, nextId>>
       \/ /\ name # ""
          /\ nextId <= MaxId
          /\ store' = Append(store, item)
          /\ nextId' = nextId + 1
          /\ reply' = Reply(201, item)

\* Python truthiness of a body field: a missing field, "" and 0 are false.
TruthyName(n) == n \notin {Absent, ""}
TruthyPrice(p) == p \notin {Absent, 0}

\* Mutant: the updated item re-inserted at the end of the dict (a pop and
\* set instead of the in-place `store[item_id] = item`).
Reinsert(id, item) == Append(RemoveAt(store, Pos(id)), item)

\* `store[item_id] = item` on a present key keeps its place in the dict.
Reassign(id, item) == [store EXCEPT ![Pos(id)] = item]

\* do_PUT /items/{id}: 404 when absent; the name and the price replaced
\* when the body's field is truthy; the item stored back.
PutItem(id, n, p) ==
    \/ /\ id \notin StoreIds
       /\ reply' = Reply(404, Absent)
       /\ UNCHANGED <<store, nextId>>
    \/ /\ id \in StoreIds
       /\ LET old  == store[Pos(id)]
              item == [old EXCEPT !.name = IF TruthyName(n) THEN n ELSE @,
                                  !.price = IF TruthyPrice(p) THEN p ELSE @]
          IN /\ store' = Reassign(id, item)
             /\ reply' = Reply(200, item)
       /\ UNCHANGED nextId

\* do_DELETE /items/{id}: 404 when absent, else `del store[item_id]`.
DeleteItem(id) ==
    \/ /\ id \notin StoreIds
       /\ reply' = Reply(404, Absent)
       /\ UNCHANGED <<store, nextId>>
    \/ /\ id \in StoreIds
       /\ store' = RemoveAt(store, Pos(id))
       /\ reply' = Reply(200, [deleted |-> id])
       /\ UNCHANGED nextId

\* Any other path of a handled method: 404.
NotFound ==
    /\ reply' = Reply(404, Absent)
    /\ UNCHANGED <<store, nextId>>

\* A method with no do_* handler: BaseHTTPRequestHandler answers 501.
Unsupported ==
    /\ reply' = Reply(501, Absent)
    /\ UNCHANGED <<store, nextId>>

Next ==
    \/ ListItems \/ NotFound \/ Unsupported
    \/ \E id \in Ids : GetItem(id) \/ DeleteItem(id)
    \/ \E n \in Names \cup {"", Absent}, p \in Prices \cup {Absent} : PostItem(n, p)
    \/ \E id \in Ids, n \in Names \cup {"", Absent}, p \in Prices \cup {Absent} :
          PutItem(id, n, p)

Spec == Init /\ [][Next]_vars

\* Properties

TypeOK ==
    /\ nextId \in 1..MaxId + 1
    /\ StoreIds \subseteq 1..nextId - 1
    /\ Len(store) = Cardinality(StoreIds)

\* The store seen as the contract's function from ids to items.
Items == [id \in StoreIds |-> store[Pos(id)]]

\* `store` starts empty.
NoItems == [id \in {} |-> Absent]

Contract == INSTANCE ItemStoreContract
                WITH items <- Items, used <- 1..nextId - 1,
                     Prices <- Prices \cup {0},
                     Accepts <- LAMBDA n, p : n # "",
                     InitItems <- NoItems

\* The handlers keep the contract: ids are never reused (next_id only
\* grows), GET /items lists the items in id order (a PUT keeps the dict
\* position of its key), PUT and DELETE act on the addressed item only.
ImplementsItemStore == Contract!Spec
=============================================================================
