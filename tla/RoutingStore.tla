---------------------------- MODULE RoutingStore ----------------------------
(***************************************************************************)
(* The item router of 08_http_and_backend/02_routing_and_handlers/main.py: *)
(* `items` is a dict from id to name, seeded with "1": "alpha" and         *)
(* "2": "bravo", with next_id = 3; do_GET, do_POST and do_DELETE route by  *)
(* path, by hand, with the regex ^/items/(\w+)$. The dict keeps insertion  *)
(* order and is listed as a JSON object in that order, so it is modelled   *)
(* as the sequence of its [id, name] entries. Ids are str(next_id): str is *)
(* injective on counters, so they are the integers here. HTTPServer serves *)
(* one request at a time, so each handler is one atomic step.             *)
(***************************************************************************)
EXTENDS Naturals, SequencesExt

CONSTANTS
    Ids,     \* the ids a request path can carry
    MaxId,   \* bound on next_id
    Names,   \* non-empty names a body can carry
    Absent   \* a field missing from a body or a reply

VARIABLES
    items,   \* the entries of `items`, in dict insertion order
    nextId,  \* next_id
    reply    \* [status, body] of the last response; status 0 before any

vars == <<items, nextId, reply>>

Reply(s, b) == [status |-> s, body |-> b]

ItemIds == {items[i].id : i \in DOMAIN items}

Pos(id) == SelectInSeq(items, LAMBDA it : it.id = id)

\* Mutant: next_id seeded at 2, below the highest seeded id.
InitNextIdLow == 2

InitNextId == 3

Init ==
    /\ items = << [id |-> 1, name |-> "alpha"], [id |-> 2, name |-> "bravo"] >>
    /\ nextId = InitNextId
    /\ reply = Reply(0, Absent)

\* do_GET /items: the whole dict.
ListItems ==
    /\ reply' = Reply(200, [items |-> items])
    /\ UNCHANGED <<items, nextId>>

\* do_GET /items/{id}: the entry, or 404 "not found".
GetItem(id) ==
    /\ reply' = IF id \in ItemIds THEN Reply(200, items[Pos(id)]) ELSE Reply(404, Absent)
    /\ UNCHANGED <<items, nextId>>

\* `items[item_id] = name`: a present key keeps its place in the dict and
\* takes the new name, a fresh key is appended.
Assign(id, entry) ==
    IF id \in ItemIds THEN [items EXCEPT ![Pos(id)] = entry] ELSE Append(items, entry)

\* do_POST /items: body.get("name", ""); 400 "name required" when empty,
\* else item_id = str(next_id), next_id += 1, items[item_id] = name, 201.
PostItem(n) ==
    LET name == IF n = Absent THEN "" ELSE n
    IN \/ /\ name = ""
          /\ reply' = Reply(400, Absent)
          /\ UNCHANGED <<items, nextId>>
       \/ /\ name # ""
          /\ nextId <= MaxId
          /\ LET entry == [id |-> nextId, name |-> name]
             IN /\ items' = Assign(nextId, entry)
                /\ reply' = Reply(201, entry)
          /\ nextId' = nextId + 1

\* do_DELETE /items/{id}: 404 when absent, else `del items[item_id]`.
DeleteItem(id) ==
    \/ /\ id \notin ItemIds
       /\ reply' = Reply(404, Absent)
       /\ UNCHANGED <<items, nextId>>
    \/ /\ id \in ItemIds
       /\ items' = RemoveAt(items, Pos(id))
       /\ reply' = Reply(200, [deleted |-> id])
       /\ UNCHANGED nextId

\* Any other path of GET, POST or DELETE: 404 "route not found".
NotFound ==
    /\ reply' = Reply(404, Absent)
    /\ UNCHANGED <<items, nextId>>

\* A method with no do_* handler (PUT): BaseHTTPRequestHandler sends 501.
Unsupported ==
    /\ reply' = Reply(501, Absent)
    /\ UNCHANGED <<items, nextId>>

Next ==
    \/ ListItems \/ NotFound \/ Unsupported
    \/ \E id \in Ids : GetItem(id) \/ DeleteItem(id)
    \/ \E n \in Names \cup {"", Absent} : PostItem(n)

Spec == Init /\ [][Next]_vars

\* Properties

TypeOK ==
    /\ nextId \in 1..MaxId + 1
    /\ ItemIds \subseteq 1..nextId - 1
    /\ Len(items) = Cardinality(ItemIds)

\* The router has no prices: every item is seen with the price Absent.
WithPrice(e) == [id |-> e.id, name |-> e.name, price |-> Absent]

\* The reply as the contract states it.
ContractBody(b) ==
    CASE b = Absent                -> Absent
      [] DOMAIN b = {"items"}      -> [items |-> [i \in DOMAIN b.items |-> WithPrice(b.items[i])]]
      [] DOMAIN b = {"id", "name"} -> WithPrice(b)
      [] OTHER                     -> b

Contract == INSTANCE ItemStoreContract
                WITH items <- [id \in ItemIds |-> WithPrice(items[Pos(id)])],
                     used <- 1..nextId - 1,
                     reply <- Reply(reply.status, ContractBody(reply.body)),
                     Prices <- {Absent},
                     Accepts <- LAMBDA n, p : n # "",
                     InitItems <- 1 :> WithPrice([id |-> 1, name |-> "alpha"])
                                  @@ 2 :> WithPrice([id |-> 2, name |-> "bravo"])

\* The router keeps the item-store contract from its seeded state: a
\* created item never takes the id of a seeded, live or deleted item
\* (next_id starts above the seeds and only grows), and GET /items lists
\* the dict in id order.
ImplementsItemStore == Contract!Spec
=============================================================================
