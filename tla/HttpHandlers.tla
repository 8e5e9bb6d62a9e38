---------------------------- MODULE HttpHandlers ----------------------------
(***************************************************************************)
(* The stateless handlers of 08_http_and_backend:                          *)
(*   01_http_server_basics   MyHandler.do_GET  (/hello, /health, 404)      *)
(*   03_middleware_basics    MyHandler.do_GET  (recovery around _route)    *)
(*   04_request_parsing...   Handler.do_POST /users and do_GET /search     *)
(*   07_logging_and_request_id  Handler.do_GET (X-Request-ID)              *)
(*   08_auth_basics_api_key  Handler.do_GET    (/health, /protected)       *)
(* Each server is an HTTPServer, so each request is one atomic step that  *)
(* sets `reply`: the status, the body as a record of its fields, and the  *)
(* X-Request-ID header where there is one. Strings the code only tests    *)
(* (content types, e-mail addresses, API keys) come from small sets, with *)
(* the subsets the code's `in` tests accept.                              *)
(***************************************************************************)
EXTENDS Naturals

CONSTANTS
    Paths,        \* request paths
    ContentTypes, \* Content-Type headers; JsonTypes those containing "application/json"
    JsonTypes,
    Lengths,      \* Content-Length values
    MaxBody,      \* the 1 MB limit of _create_user
    Bodies,       \* decoded bodies: [name, email]; Invalid for undecodable JSON
    Invalid,
    AtEmails,     \* the e-mails that contain "@"
    Queries,      \* parsed query strings: [page, limit], None for a missing one
    RequestIds,   \* X-Request-ID headers a client sends ("" for none)
    Generated,    \* ids generate_id() can return
    Keys,         \* X-API-Key headers a client sends ("" for none)
    ApiKey,       \* API_KEY
    None          \* no header, no body

VARIABLES
    request,  \* [path, key, rid]: the headers of the last request that matter
    reply     \* [server, status, body, rid] of the last response

vars == <<request, reply>>

Reply(srv, s, b, r) == [server |-> srv, status |-> s, body |-> b, rid |-> r]

\* A body that only carries a message.
Text(msg) == [text |-> msg]

Request(path, key, rid) == [path |-> path, key |-> key, rid |-> rid]

Init ==
    /\ request = Request(None, None, None)
    /\ reply = Reply("none", 0, None, None)

\* 01: /hello text, /health JSON with the time, anything else 404.
BasicsGet(path) ==
    /\ request' = Request(path, None, None)
    /\ reply' = CASE path = "/hello"  -> Reply("basics", 200, Text("hello"), None)
                  [] path = "/health" -> Reply("basics", 200, Text("ok"), None)
                  [] OTHER            -> Reply("basics", 404, None, None)

\* 03: _route inside the recovery try: /hello 200, /panic raises
\* RuntimeError and the except answers 500, anything else 404.
MiddlewareGet(path) ==
    /\ request' = Request(path, None, None)
    /\ reply' = CASE path = "/hello" -> Reply("middleware", 200, Text("hello"), None)
                  [] path = "/panic" -> Reply("middleware", 500, Text("internal server error"), None)
                  [] OTHER           -> Reply("middleware", 404, None, None)

\* 04: validation errors of a decoded body.
FieldErrors(b) ==
    (IF b.name = "" THEN {"name is required"} ELSE {})
    \cup (CASE b.email = ""         -> {"email is required"}
             [] b.email \notin AtEmails -> {"email must contain @"}
             [] OTHER                 -> {})

\* 04: do_POST /users (_create_user) in the order of its early returns;
\* any other POST path 404.
CreateUser(path, ct, len, b) ==
    /\ request' = Request(path, None, None)
    /\ reply' = CASE path # "/users"      -> Reply("parsing", 404, None, None)
                  [] ct \notin JsonTypes  -> Reply("parsing", 400, Text("content type"), None)
                  [] len > MaxBody        -> Reply("parsing", 400, Text("body too large"), None)
                  [] b = Invalid          -> Reply("parsing", 400, Text("invalid JSON"), None)
                  [] FieldErrors(b) # {}  -> Reply("parsing", 400, [errors |-> FieldErrors(b)], None)
                  [] OTHER                -> Reply("parsing", 201, b, None)

\* 04: do_GET: a path starting /search answers the first page and limit
\* of its query, with the defaults "1" and "10"; anything else 404.
Search(path, q) ==
    /\ request' = Request(path, None, None)
    /\ reply' = IF path = "/search"
                THEN Reply("parsing", 200,
                           [page  |-> IF q.page = None THEN "1" ELSE q.page,
                            limit |-> IF q.limit = None THEN "10" ELSE q.limit], None)
                ELSE Reply("parsing", 404, None, None)

\* 07: `self.headers.get("X-Request-ID", "") or generate_id()`.
RequestId(hdr, gen) == IF hdr # "" THEN hdr ELSE gen

\* 07: do_GET with the request id in the X-Request-ID header of both
\* answers and in the body of /hello.
LoggingGet(path, hdr, gen) ==
    LET rid == RequestId(hdr, gen)
    IN /\ request' = Request(path, None, hdr)
       /\ reply' = IF path = "/hello"
                   THEN Reply("logging", 200, [request_id |-> rid], rid)
                   ELSE Reply("logging", 404, None, rid)

\* 08: hmac.compare_digest(key, API_KEY) of the X-API-Key header.
CheckApiKey(key) == key = ApiKey

\* 08: /health public, /protected 401 without the key and the secret
\* with it, anything else 404.
AuthGet(path, key) ==
    /\ request' = Request(path, key, None)
    /\ reply' = CASE path = "/health"                        -> Reply("auth", 200, Text("ok"), None)
                  [] path = "/protected" /\ ~CheckApiKey(key) -> Reply("auth", 401, None, None)
                  [] path = "/protected"                     -> Reply("auth", 200, Text("secret"), None)
                  [] OTHER                                   -> Reply("auth", 404, None, None)

Next ==
    \/ \E path \in Paths : BasicsGet(path) \/ MiddlewareGet(path)
    \/ \E path \in Paths, q \in Queries : Search(path, q)
    \/ \E path \in Paths, ct \in ContentTypes, len \in Lengths, b \in Bodies :
          CreateUser(path, ct, len, b)
    \/ \E path \in Paths, hdr \in RequestIds, gen \in Generated : LoggingGet(path, hdr, gen)
    \/ \E path \in Paths, key \in Keys : AuthGet(path, key)

Spec == Init /\ [][Next]_vars

\* Properties

TypeOK ==
    /\ reply.server \in {"none", "basics", "middleware", "parsing", "logging", "auth"}
    /\ reply.status \in {0, 200, 201, 400, 401, 404, 500}

=============================================================================
