---------------------------- MODULE UrlShortener ----------------------------
(***************************************************************************)
(* The URL shortener of 11_system_design_in_go/02_url_shortener_service_  *)
(* mini/main.py. HTTPServer handles one request at a time, so each        *)
(* handler is one action. Codes are model values: Codes6 stands for the   *)
(* six-character codes generate_code(6) draws, Codes8 for the eight-       *)
(* character codes of the fallback generate_code(8); the two sets are     *)
(* disjoint because the lengths differ. random.choices is a free choice.  *)
(*                                                                         *)
(* generate_unique_code draws up to ten six-character codes and returns   *)
(* the first one store.exists() does not know; if all ten are known it    *)
(* returns generate_code(8) without checking it. Ten random draws can all *)
(* land on stored codes whenever at least one six-character code is      *)
(* stored, so that is when the fallback is possible.                      *)
(***************************************************************************)
EXTENDS Naturals, TLC

CONSTANTS
    Codes6,     \* codes of length 6
    Codes8,     \* codes of length 8 (the fallback)
    Urls,       \* non-empty "url" fields a client posts
    NoUrl,      \* the empty "url" field, and the None of a failed load
    NoCode,     \* no code in a response
    MaxPosts    \* POST /shorten requests in a run

VARIABLES
    urls,       \* MemoryStore.urls: code -> url
    issued,     \* history: <<code, url>> pairs returned to clients
    resp,       \* the last response: [status, code, url]
    posts       \* POST requests handled

vars == <<urls, issued, resp, posts>>

Codes == Codes6 \cup Codes8

Init ==
    /\ urls = [c \in {} |-> NoUrl]
    /\ issued = {}
    /\ resp = [status |-> 0, code |-> NoCode, url |-> NoUrl]
    /\ posts = 0

\* MemoryStore.save(code, url)
Save(code, url) == code :> url @@ urls

\* store.exists(code)
Exists(code) == code \in DOMAIN urls

\* Mutant: generate_unique_code returning its first draw without asking
\* store.exists().
ShortenUnchecked(url, code) ==
    /\ posts < MaxPosts
    /\ \/ code \in Codes6
       \/ code \in Codes8 /\ \E c \in Codes6 : Exists(c)
    /\ urls' = Save(code, url)
    /\ issued' = issued \cup {<<code, url>>}
    /\ resp' = [status |-> 200, code |-> code, url |-> url]
    /\ posts' = posts + 1

\* do_POST with a valid url, the code a fresh draw store.exists() rejected
\* none of, or all ten draws known and the unchecked fallback used.
Shorten(url, code) ==
    /\ posts < MaxPosts
    /\ \/ code \in Codes6 /\ ~Exists(code)
       \/ code \in Codes8 /\ \E c \in Codes6 : Exists(c)
    /\ urls' = Save(code, url)
    /\ issued' = issued \cup {<<code, url>>}
    /\ resp' = [status |-> 200, code |-> code, url |-> url]
    /\ posts' = posts + 1

\* Mutant: the 400 branch without its return, so the empty url is saved.
ShortenEmptyNoReturn ==
    /\ posts < MaxPosts
    /\ \E code \in Codes6 :
        /\ ~Exists(code)
        /\ urls' = Save(code, NoUrl)
    /\ resp' = [status |-> 400, code |-> NoCode, url |-> NoUrl]
    /\ posts' = posts + 1
    /\ UNCHANGED issued

\* do_POST with an empty url: 400, nothing stored.
ShortenEmpty ==
    /\ posts < MaxPosts
    /\ resp' = [status |-> 400, code |-> NoCode, url |-> NoUrl]
    /\ posts' = posts + 1
    /\ UNCHANGED <<urls, issued>>

\* do_GET /r/<code>: store.load(code), 404 when unknown.
Resolve(code) ==
    /\ resp' = IF Exists(code)
               THEN [status |-> 200, code |-> code, url |-> urls[code]]
               ELSE [status |-> 404, code |-> code, url |-> NoUrl]
    /\ UNCHANGED <<urls, issued, posts>>

Next ==
    \/ \E u \in Urls, c \in Codes : Shorten(u, c)
    \/ ShortenEmpty
    \/ \E c \in Codes : Resolve(c)

Spec == Init /\ [][Next]_vars

-----------------------------------------------------------------------------
(* Properties                                                             *)

TypeOK ==
    /\ urls \in [DOMAIN urls -> Urls] /\ DOMAIN urls \subseteq Codes
    /\ issued \subseteq Codes \X Urls
    /\ resp \in [status : {0, 200, 400, 404}, code : Codes \cup {NoCode},
                 url : Urls \cup {NoUrl}]
    /\ posts \in 0..MaxPosts

\* A six-character code, which store.exists() checked, is handed out at most
\* once: two shortened URLs never share a checked code.
CheckedCodesUnique ==
    \A p, q \in issued : p[1] = q[1] /\ p[1] \in Codes6 => p = q

\* What the name generate_unique_code promises: every short code returned
\* to a client still resolves to the URL it was returned for.
IssuedCodesResolve ==
    \A p \in issued : Exists(p[1]) /\ urls[p[1]] = p[2]

=============================================================================
