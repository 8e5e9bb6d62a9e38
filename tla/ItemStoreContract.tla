------------------------- MODULE ItemStoreContract -------------------------
(***************************************************************************)
(* What the item APIs of 08_http_and_backend/05_json_api_crud_in_memory   *)
(* and 08_http_and_backend/11_sqlite_repo_pattern_intro promise a client, *)
(* whatever stores the items:                                             *)
(*   - POST /items with an acceptable name and price answers 201 with a   *)
(*     new item under an id no item has ever had; otherwise 400;          *)
(*   - GET /items answers every item, in id order; GET /items/{id} the   *)
(*     item, or 404;                                                      *)
(*   - PUT /items/{id} replaces the name when a non-empty one is given    *)
(*     and the price when one is given, or answers 404;                   *)
(*   - DELETE /items/{id} removes the item, or answers 404;               *)
(*   - any other path answers 404, a method with no handler 501.          *)
(* Accepts(name, price) is the validation of the service at hand and      *)
(* InitItems the items it starts with. CrudStore.tla, SqliteRepo.tla and  *)
(* RoutingStore.tla implement it.                                         *)
(***************************************************************************)
EXTENDS Naturals, SequencesExt

CONSTANTS
    Ids,            \* the ids an item can get
    Names,          \* non-empty item names
    Prices,         \* item prices
    Absent,         \* a field missing from a request body or a reply
    Accepts(_, _),  \* Accepts(name, price): the create validation
    InitItems       \* id -> item: the items the service starts with

VARIABLES
    items,  \* id -> [id, name, price] of the stored items
    used,   \* every id an item has had
    reply   \* [status, body] of the last response; status 0 before any

vars == <<items, used, reply>>

Reply(s, b) == [status |-> s, body |-> b]

\* The items, in ascending id order.
InIdOrder == [i \in 1..Cardinality(DOMAIN items) |->
                 items[SetToSortSeq(DOMAIN items, <)[i]]]

Init ==
    /\ items = InitItems
    /\ used = DOMAIN InitItems
    /\ reply = Reply(0, Absent)

Create(n, p) ==
    \/ /\ Accepts(n, p)
       /\ \E id \in Ids \ used :
             LET item == [id |-> id, name |-> n, price |-> p]
             IN /\ items' = id :> item @@ items
                /\ used' = used \cup {id}
                /\ reply' = Reply(201, item)
    \/ /\ ~Accepts(n, p)
       /\ reply' = Reply(400, Absent)
       /\ UNCHANGED <<items, used>>

List ==
    /\ reply' = Reply(200, [items |-> InIdOrder])
    /\ UNCHANGED <<items, used>>

Get(id) ==
    /\ reply' = IF id \in DOMAIN items THEN Reply(200, items[id]) ELSE Reply(404, Absent)
    /\ UNCHANGED <<items, used>>

Update(id, n, p) ==
    \/ /\ id \in DOMAIN items
       /\ LET item == [items[id] EXCEPT !.name = IF n \in {"", Absent} THEN @ ELSE n,
                                        !.price = IF p = Absent THEN @ ELSE p]
          IN /\ items' = [items EXCEPT ![id] = item]
             /\ reply' = Reply(200, item)
       /\ UNCHANGED used
    \/ /\ id \notin DOMAIN items
       /\ reply' = Reply(404, Absent)
       /\ UNCHANGED <<items, used>>

Delete(id) ==
    \/ /\ id \in DOMAIN items
       /\ items' = [x \in DOMAIN items \ {id} |-> items[x]]
       /\ reply' = Reply(200, [deleted |-> id])
       /\ UNCHANGED used
    \/ /\ id \notin DOMAIN items
       /\ reply' = Reply(404, Absent)
       /\ UNCHANGED <<items, used>>

Unrouted ==
    /\ reply' = Reply(404, Absent)
    /\ UNCHANGED <<items, used>>

Unsupported ==
    /\ reply' = Reply(501, Absent)
    /\ UNCHANGED <<items, used>>

Next ==
    \/ \E n \in Names \cup {""}, p \in Prices : Create(n, p)
    \/ List \/ Unrouted \/ Unsupported
    \/ \E id \in Ids : Get(id) \/ Delete(id)
    \/ \E id \in Ids, n \in Names \cup {"", Absent}, p \in Prices \cup {Absent} :
          Update(id, n, p)

Spec == Init /\ [][Next]_vars
=============================================================================
