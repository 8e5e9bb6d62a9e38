----------------------------- MODULE SqliteRepo -----------------------------
(***************************************************************************)
(* The layered item API of                                                 *)
(* 08_http_and_backend/11_sqlite_repo_pattern_intro/main.py: Handler ->    *)
(* ItemService -> SQLiteRepo over a table whose id is INTEGER PRIMARY KEY *)
(* AUTOINCREMENT. The table is modelled as a function from rowid to row   *)
(* and sqlite_sequence as `seq`, the largest rowid ever inserted; a scan  *)
(* without ORDER BY walks the rowid b-tree, so it yields rowid order.     *)
(* HTTPServer serves one request at a time: each do_* is one step.         *)
(* An exception other than ValueError leaves do_POST: socketserver drops   *)
(* the connection and the client gets no response (status 0).            *)
(***************************************************************************)
EXTENDS Integers, SequencesExt

CONSTANTS
    Ids,        \* the ids a request path can carry: 1..MaxId
    MaxId,      \* bound on sqlite_sequence
    Names,      \* non-empty names a body can carry
    Prices,     \* numeric prices a body can carry
    BadPrices,  \* non-numeric JSON prices (strings) a body can carry
    Absent      \* a field missing from a body

VARIABLES
    rows,   \* rowid -> [id, name, price] of the items table
    seq,    \* sqlite_sequence.seq of the items table
    reply   \* [status, body] of the last response; status 0 if none

vars == <<rows, seq, reply>>

Reply(s, b) == [status |-> s, body |-> b]

\* Mutant: a plain INTEGER PRIMARY KEY, which takes the largest rowid in
\* the table plus one and so reuses the id of a deleted last row.
RowidNoAutoincrement == Max(DOMAIN rows \cup {0}) + 1

\* AUTOINCREMENT: one more than the largest rowid the table ever had.
NewRowid == seq + 1

Init ==
    /\ rows = [id \in {} |-> Absent]
    /\ seq = 0
    /\ reply = Reply(0, Absent)

\* The rows as a table scan yields them: by ascending rowid.
Scan == LET ids == SetToSortSeq(DOMAIN rows, <)
        IN [i \in DOMAIN ids |-> rows[ids[i]]]

\* do_GET /items: svc.list_items() -> SELECT without ORDER BY.
ListItems ==
    /\ reply' = Reply(200, [items |-> Scan])
    /\ UNCHANGED <<rows, seq>>

\* do_GET /items/{id}: svc.get_item -> SELECT ... WHERE id = ?; 404 on None.
GetItem(id) ==
    /\ reply' = IF id \in DOMAIN rows THEN Reply(200, rows[id]) ELSE Reply(404, Absent)
    /\ UNCHANGED <<rows, seq>>

\* What svc.create_item's checks end in: `not name` and `price < 0` raise
\* ValueError, which do_POST answers 400; `price < 0` on a string raises
\* TypeError, which nothing catches (no response); 201 if both pass.
Validation(name, price) ==
    CASE name = ""            -> 400
      [] price \in BadPrices  -> 0
      [] price < 0            -> 400
      [] OTHER                -> 201

\* do_POST /items: svc.create_item(body.get("name", ""), body.get("price", 0));
\* repo.create inserts, commits and returns the row under cur.lastrowid.
CreateItem(n, p) ==
    LET name  == IF n = Absent THEN "" ELSE n
        price == IF p = Absent THEN 0 ELSE p
        item  == [id |-> NewRowid, name |-> name, price |-> price]
    IN \/ /\ Validation(name, price) # 201
          /\ reply' = Reply(Validation(name, price), Absent)
          /\ UNCHANGED <<rows, seq>>
       \/ /\ Validation(name, price) = 201
          /\ NewRowid <= MaxId
          /\ rows' = NewRowid :> item @@ rows
          /\ seq' = NewRowid
          /\ reply' = Reply(201, item)

\* do_DELETE /items/{id}: svc.delete_item -> DELETE ... WHERE id = ?;
\* 404 unless cur.rowcount > 0.
DeleteItem(id) ==
    \/ /\ id \notin DOMAIN rows
       /\ reply' = Reply(404, Absent)
       /\ UNCHANGED <<rows, seq>>
    \/ /\ id \in DOMAIN rows
       /\ rows' = [r \in DOMAIN rows \ {id} |-> rows[r]]
       /\ reply' = Reply(200, [deleted |-> id])
       /\ UNCHANGED seq

\* Any other path of GET, POST or DELETE: 404.
NotFound ==
    /\ reply' = Reply(404, Absent)
    /\ UNCHANGED <<rows, seq>>

\* PUT, or any method with no do_* handler: BaseHTTPRequestHandler's 501.
Unsupported ==
    /\ reply' = Reply(501, Absent)
    /\ UNCHANGED <<rows, seq>>

Next ==
    \/ ListItems \/ NotFound \/ Unsupported
    \/ \E id \in Ids : GetItem(id) \/ DeleteItem(id)
    \/ \E n \in Names \cup {"", Absent}, p \in Prices \cup BadPrices \cup {Absent} :
          CreateItem(n, p)

Spec == Init /\ [][Next]_vars

\* Properties

TypeOK ==
    /\ seq \in 0..MaxId
    /\ DOMAIN rows \subseteq 1..seq
    /\ \A id \in DOMAIN rows : rows[id].id = id

\* The table starts empty.
NoItems == [id \in {} |-> Absent]

Contract == INSTANCE ItemStoreContract
                WITH items <- rows, used <- 1..seq,
                     Prices <- Prices \cup BadPrices \cup {0},
                     Accepts <- LAMBDA n, p : n # "" /\ p \notin BadPrices /\ p >= 0,
                     InitItems <- NoItems

\* The three layers keep the contract: a create the service accepts gets
\* an id no row ever had (AUTOINCREMENT), one it rejects gets a 400, and
\* GET /items lists the rows in id order.
ImplementsItemStore == Contract!Spec
=============================================================================
