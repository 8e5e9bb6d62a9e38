--------------------------- MODULE MCHttpServices ---------------------------
(***************************************************************************)
(* The HTTP services checked in one model: the three rate limiters (the    *)
(* token-bucket service with lazy refill, the API gateway with a fixed     *)
(* window, the bucket with a refill thread), the item stores (the in-      *)
(* memory CRUD API, the sqlite repository and the router of 08/02), the    *)
(* observability demo's server and client, the stateless handlers of       *)
(* 08/01, 03, 04, 07 and 08, the graceful shutdown of 08/10, the streaming *)
(* download and upload of 07/11 and the http perf demo of 09/10. The       *)
(* initial state chooses which service runs and only that one ever steps,  *)
(* so every behaviour is a behaviour of exactly one specification and the  *)
(* state space is the sum of theirs.                                       *)
(***************************************************************************)
EXTENDS Integers, Sequences

CONSTANTS
    RLClients, RLMaxTokens, RLUnits, RLRefillPerTick, RLMaxTime,
    GWClients, GWApiKeys, GWValidKeys, GWPaths, GWLimit, GWWindow,
    GWMaxTime, GWMaxCount,
    RBMaxTokens, RBRefillInterval, RBMaxTime,
    ItemIds, ItemMaxId, ItemNames, NoField, SQBadPrices,
    OBDemoHellos, OBPaths, OBMaxExternal, RSIds, RSMaxId,
    HHPaths, HHContentTypes, HHJsonTypes, HHLengths, HHMaxBody, HHAtEmails,
    HHRequestIds, HHGenerated, HHKeys, HHApiKey, GSCallers,
    STPayloadLen, STChunk1, STChunk2, STUploadLen, HPRequests

VARIABLES
    prog,
    rlNow, rlBuckets, rlTokens, rlLastRefill, rlStatus,
    gwNow, gwCounts, gwLastReset, gwStatus, gwAdmitted,
    rbNow, rbTokens, rbSleepLeft, rbHpc, rbStatus, rbHeader, rbAdmitted,
    crStore, crNextId, crReply,
    sqRows, sqSeq, sqReply,
    obRequests, obErrors, obNext, obDpc, obExternal, obLastSnap,
    rsItems, rsNextId, rsReply,
    hhRequest, hhReply,
    gsSpc, gsFlag, gsIsShutDown, gsPending, gsCpc, gsDpc, gsSd,
    stMpc, stSpc, stStop, stPending, stHdrs, stWritten, stGot, stTotal, stDownloaded,
    stClen, stStatus, stReceived, stRaised,
    hpMpc, hpI, hpSpc, hpStop, hpReq, hpServed, hpConns, hpSock,
    cdItems, cdHolder, cdPc, cdArg, cdOps, cdResult, cdSizeResult, cdSleepLeft, cdDisplaced,
    cdNewer, cdStep, cdSleep, cdTicks, cdGets

rlVars == <<rlNow, rlBuckets, rlTokens, rlLastRefill, rlStatus>>
gwVars == <<gwNow, gwCounts, gwLastReset, gwStatus, gwAdmitted>>
rbVars == <<rbNow, rbTokens, rbSleepLeft, rbHpc, rbStatus, rbHeader, rbAdmitted>>
crVars == <<crStore, crNextId, crReply>>
sqVars == <<sqRows, sqSeq, sqReply>>
obVars == <<obRequests, obErrors, obNext, obDpc, obExternal, obLastSnap>>
rsVars == <<rsItems, rsNextId, rsReply>>
hhVars == <<hhRequest, hhReply>>
gsVars == <<gsSpc, gsFlag, gsIsShutDown, gsPending, gsCpc, gsDpc, gsSd>>
stVars == <<stMpc, stSpc, stStop, stPending, stHdrs, stWritten, stGot, stTotal, stDownloaded,
           stClen, stStatus, stReceived, stRaised>>
hpVars == <<hpMpc, hpI, hpSpc, hpStop, hpReq, hpServed, hpConns, hpSock>>
cdCacheVars == <<cdItems, cdHolder, cdPc, cdArg, cdOps, cdResult, cdSizeResult, cdSleepLeft,
                 cdDisplaced, cdNewer>>
cdVars == <<cdCacheVars, cdStep, cdSleep, cdTicks, cdGets>>
allVars == <<prog, rlVars, gwVars, rbVars, crVars, sqVars, obVars, rsVars, hhVars, gsVars,
            stVars, hpVars, cdVars>>

\* Prices a request body can carry: a negative one and a positive one
\* (a missing price defaults to 0).
ItemPrices == {-1, 5}

RL == INSTANCE RateLimiterService
        WITH Clients <- RLClients, MaxTokens <- RLMaxTokens, Units <- RLUnits,
             RefillPerTick <- RLRefillPerTick, MaxTime <- RLMaxTime,
             now <- rlNow, buckets <- rlBuckets, tokens <- rlTokens,
             lastRefill <- rlLastRefill, status <- rlStatus
GW == INSTANCE GatewayLimiter
        WITH Clients <- GWClients, ApiKeys <- GWApiKeys, ValidKeys <- GWValidKeys,
             Paths <- GWPaths, Limit <- GWLimit, Window <- GWWindow,
             MaxTime <- GWMaxTime, MaxCount <- GWMaxCount,
             now <- gwNow, counts <- gwCounts, lastReset <- gwLastReset,
             status <- gwStatus, admitted <- gwAdmitted
RB == INSTANCE RefillBucket
        WITH MaxTokens <- RBMaxTokens, RefillInterval <- RBRefillInterval,
             MaxTime <- RBMaxTime,
             now <- rbNow, tokens <- rbTokens, sleepLeft <- rbSleepLeft,
             hpc <- rbHpc, status <- rbStatus, header <- rbHeader,
             admitted <- rbAdmitted

CR == INSTANCE CrudStore
        WITH Ids <- ItemIds, MaxId <- ItemMaxId, Names <- ItemNames,
             Prices <- ItemPrices, Absent <- NoField,
             store <- crStore, nextId <- crNextId, reply <- crReply
SQ == INSTANCE SqliteRepo
        WITH Ids <- ItemIds, MaxId <- ItemMaxId, Names <- ItemNames,
             Prices <- ItemPrices, BadPrices <- SQBadPrices, Absent <- NoField,
             rows <- sqRows, seq <- sqSeq, reply <- sqReply

RS == INSTANCE RoutingStore
        WITH Ids <- RSIds, MaxId <- RSMaxId, Names <- ItemNames, Absent <- NoField,
             items <- rsItems, nextId <- rsNextId, reply <- rsReply
OB == INSTANCE Observability
        WITH DemoHellos <- OBDemoHellos, Paths <- OBPaths, MaxExternal <- OBMaxExternal,
             requests <- obRequests, errors <- obErrors, next <- obNext,
             dpc <- obDpc, external <- obExternal, lastSnap <- obLastSnap

\* POST /users bodies: valid, without a name, with an e-mail lacking "@",
\* and undecodable JSON.
HHBodies == {[name |-> "ann", email |-> "a@x"], [name |-> "", email |-> "a@x"],
             [name |-> "ann", email |-> "ax"], NoField}
\* /search query strings: none, and both fields given.
HHQueries == {[page |-> NoField, limit |-> NoField], [page |-> "2", limit |-> "5"]}

HH == INSTANCE HttpHandlers
        WITH Paths <- HHPaths, ContentTypes <- HHContentTypes, JsonTypes <- HHJsonTypes,
             Lengths <- HHLengths, MaxBody <- HHMaxBody, Bodies <- HHBodies,
             Invalid <- NoField, AtEmails <- HHAtEmails, Queries <- HHQueries,
             RequestIds <- HHRequestIds, Generated <- HHGenerated, Keys <- HHKeys,
             ApiKey <- HHApiKey, None <- NoField,
             request <- hhRequest, reply <- hhReply
GS == INSTANCE GracefulShutdown
        WITH Callers <- GSCallers,
             spc <- gsSpc, flag <- gsFlag, isShutDown <- gsIsShutDown,
             pending <- gsPending, cpc <- gsCpc, dpc <- gsDpc, sd <- gsSd

ST == INSTANCE Streaming
        WITH PayloadLen <- STPayloadLen, Chunk1 <- STChunk1, Chunk2 <- STChunk2,
             UploadLen <- STUploadLen,
             mpc <- stMpc, spc <- stSpc, stop <- stStop, pending <- stPending,
             hdrs <- stHdrs, written <- stWritten, got <- stGot, total <- stTotal,
             downloaded <- stDownloaded, clen <- stClen, status <- stStatus,
             received <- stReceived, raised <- stRaised

(* --- 09_performance_and_profiling/10_http_perf_basics/main.py ---------- *)

\* main binds HTTPServer(("127.0.0.1", 0), PingHandler), so connections
\* wait in the listen backlog until the daemon thread's serve_forever
\* accepts them; it makes n urlopen requests, then n on one
\* http.client.HTTPConnection, and calls server.shutdown(). PingHandler
\* keeps BaseHTTPRequestHandler's protocol_version "HTTP/1.0": the server
\* closes each connection after its one response, and the client's
\* HTTPResponse has will_close set. hpReq is the request on the wire:
\* "none", "sent" or "answered".
HPWillClose == TRUE

HPServeForever ==
    /\ hpSpc = "start" /\ hpSpc' = "select"
    /\ UNCHANGED <<hpMpc, hpI, hpStop, hpReq, hpServed, hpConns, hpSock>>

\* handle_request: accept, PingHandler.do_GET's 200 {"status": "pong"},
\* and the connection closed after the one request.
HPHandle ==
    /\ hpSpc = "select" /\ ~hpStop /\ hpReq = "sent"
    /\ hpReq' = "answered" /\ hpServed' = hpServed + 1
    /\ UNCHANGED <<hpMpc, hpI, hpSpc, hpStop, hpConns, hpSock>>

\* serve_forever sees __shutdown_request and leaves its loop.
HPServerExit ==
    /\ hpSpc = "select" /\ hpStop /\ hpSpc' = "exited"
    /\ UNCHANGED <<hpMpc, hpI, hpStop, hpReq, hpServed, hpConns, hpSock>>

\* urlopen(url, timeout=5): a new connection and the GET.
HPUrlopen ==
    /\ hpMpc = "urllib"
    /\ hpConns' = hpConns + 1 /\ hpReq' = "sent" /\ hpMpc' = "urllib_wait"
    /\ UNCHANGED <<hpI, hpSpc, hpStop, hpServed, hpSock>>

\* conn.request("GET", "/ping"): auto_open connects when the connection
\* has no socket.
HPRequest ==
    /\ hpMpc = "reuse"
    /\ hpConns' = IF hpSock THEN hpConns ELSE hpConns + 1
    /\ hpSock' = TRUE
    /\ hpReq' = "sent" /\ hpMpc' = "reuse_wait"
    /\ UNCHANGED <<hpI, hpSpc, hpStop, hpServed>>

\* The loop's next pass, or main goes on after the n-th: from the urllib
\* loop to the HTTPConnection, from that loop to conn.close().
HPNextPass(loop, after) ==
    IF hpI = HPRequests THEN hpI' = 1 /\ hpMpc' = after ELSE hpI' = hpI + 1 /\ hpMpc' = loop

\* resp.read() and resp.close() of urlopen's response.
HPRead ==
    /\ hpMpc = "urllib_wait" /\ hpReq = "answered"
    /\ hpReq' = "none" /\ HPNextPass("urllib", "reuse")
    /\ UNCHANGED <<hpSpc, hpStop, hpServed, hpConns, hpSock>>

\* Mutant: the connection kept although the response will close.
HPGetResponseKeepAlive ==
    /\ hpMpc = "reuse_wait" /\ hpReq = "answered"
    /\ hpReq' = "none" /\ HPNextPass("reuse", "close")
    /\ UNCHANGED <<hpSpc, hpStop, hpServed, hpConns, hpSock>>

\* conn.getresponse() and resp.read(); getresponse closes the connection
\* of a response that will close.
HPGetResponse ==
    /\ hpMpc = "reuse_wait" /\ hpReq = "answered"
    /\ hpReq' = "none" /\ HPNextPass("reuse", "close")
    /\ hpSock' = (hpSock /\ ~HPWillClose)
    /\ UNCHANGED <<hpSpc, hpStop, hpServed, hpConns>>

\* conn.close(), then server.shutdown() sets the request and waits for
\* serve_forever to leave its loop.
HPShutdown ==
    /\ hpMpc = "close"
    /\ hpSock' = FALSE /\ hpStop' = TRUE /\ hpMpc' = "shutdown"
    /\ UNCHANGED <<hpI, hpSpc, hpReq, hpServed, hpConns>>

HPShutdownReturns ==
    /\ hpMpc = "shutdown" /\ hpSpc = "exited" /\ hpMpc' = "done"
    /\ UNCHANGED <<hpI, hpSpc, hpStop, hpReq, hpServed, hpConns, hpSock>>

HPNext ==
    \/ HPServeForever \/ HPHandle \/ HPServerExit
    \/ HPUrlopen \/ HPRead \/ HPRequest \/ HPGetResponse
    \/ HPShutdown \/ HPShutdownReturns
    \/ hpMpc = "done" /\ UNCHANGED hpVars

HPInit ==
    /\ hpMpc = "urllib" /\ hpI = 1 /\ hpSpc = "start" /\ hpStop = FALSE
    /\ hpReq = "none" /\ hpServed = 0 /\ hpConns = 0 /\ hpSock = FALSE

\* main() of 04_cache_service_mini: Cache(capacity=3), its calls in turn,
\* and time.sleep(3) before the last get and size. Time is in seconds,
\* the reaper's period; the clock may run at any point, main being slow.
\* cdTicks counts the seconds before the set of user:4, up to 3; cdGets
\* records each get's key and whether it hit.
CDCalls ==
    << <<"set", "user:1", "Alice", 5>>, <<"set", "user:2", "Bob", 2>>,
       <<"set", "user:3", "Charlie", 5>>, <<"size", "", "", 0>>,
       <<"get", "user:1", "", 0>>, <<"get", "user:2", "", 0>>, <<"get", "user:99", "", 0>>,
       <<"set", "user:4", "Diana", 5>>, <<"size", "", "", 0>>, <<"get", "user:3", "", 0>>,
       <<"sleep", "", "", 3>>, <<"get", "user:2", "", 0>>, <<"size", "", "", 0>> >>
CD == INSTANCE Cache
        WITH Keys <- {"user:1", "user:2", "user:3", "user:4", "user:99"},
             Vals <- {"Alice", "Bob", "Charlie", "Diana"}, TTLs <- {5, 2}, Capacity <- 3,
             Clients <- {"main"}, NoValue <- "none", None <- "nobody", MaxOps <- 12,
             items <- cdItems, holder <- cdHolder, pc <- cdPc, arg <- cdArg, ops <- cdOps,
             result <- cdResult, sizeResult <- cdSizeResult, sleepLeft <- cdSleepLeft,
             displaced <- cdDisplaced, newer <- cdNewer

\* main starts its next call once the last one has returned.
CDCall ==
    /\ cdStep <= Len(CDCalls) /\ cdPc["main"] = "idle" /\ cdSleep = 0
    /\ LET c == CDCalls[cdStep]
       IN CASE c[1] = "set"  -> CD!SetBegin("main", c[2], c[3], c[4]) /\ UNCHANGED cdSleep
            [] c[1] = "get"  -> CD!GetBegin("main", c[2]) /\ UNCHANGED cdSleep
            [] c[1] = "size" -> CD!Size("main") /\ UNCHANGED cdSleep
            [] OTHER         -> cdSleep' = c[4] /\ UNCHANGED cdCacheVars
    /\ cdStep' = cdStep + 1
    /\ UNCHANGED <<cdTicks, cdGets>>

\* The rest of a set, under the lock.
CDSetSteps ==
    /\ CD!SetDelete("main") \/ CD!SetEvict("main") \/ CD!SetInsert("main")
    /\ UNCHANGED <<cdStep, cdSleep, cdTicks, cdGets>>

\* get returns: absent, lazily expired, or a hit moved to the end.
CDGetReturns ==
    /\ CD!GetAbsent("main") \/ CD!GetExpired("main") \/ CD!GetHit("main")
    /\ cdGets' = Append(cdGets, <<cdArg["main"].key, cdResult'["main"].found>>)
    /\ UNCHANGED <<cdStep, cdSleep, cdTicks>>

CDReaper == CD!ReaperSweep /\ UNCHANGED <<cdStep, cdSleep, cdTicks, cdGets>>

CDTick ==
    /\ cdStep <= Len(CDCalls)
    /\ CD!Tick
    /\ cdSleep' = IF cdSleep > 0 THEN cdSleep - 1 ELSE 0
    /\ cdTicks' = IF cdStep <= 8 /\ cdTicks < 3 THEN cdTicks + 1 ELSE cdTicks
    /\ UNCHANGED <<cdStep, cdGets>>

\* After the last call main returns and the daemon reaper ends with it.
CDNext ==
    \/ CDCall \/ CDSetSteps \/ CDGetReturns \/ CDReaper \/ CDTick
    \/ cdStep > Len(CDCalls) /\ cdPc["main"] = "idle" /\ UNCHANGED cdVars

Progs == {"rl", "gw", "rb", "cr", "sq", "ob", "rs", "hh", "gs", "st", "hp", "cd"}

\* A step of one service while the others stay as they are.
InRL(A) == prog = "rl" /\ A /\ UNCHANGED <<prog, gwVars, rbVars, crVars, sqVars, obVars, rsVars,
        hhVars, gsVars, stVars, hpVars, cdVars>>
InGW(A) == prog = "gw" /\ A /\ UNCHANGED <<prog, rlVars, rbVars, crVars, sqVars, obVars, rsVars,
        hhVars, gsVars, stVars, hpVars, cdVars>>
InRB(A) == prog = "rb" /\ A /\ UNCHANGED <<prog, rlVars, gwVars, crVars, sqVars, obVars, rsVars,
        hhVars, gsVars, stVars, hpVars, cdVars>>
InCR(A) == prog = "cr" /\ A /\ UNCHANGED <<prog, rlVars, gwVars, rbVars, sqVars, obVars, rsVars,
        hhVars, gsVars, stVars, hpVars, cdVars>>
InSQ(A) == prog = "sq" /\ A /\ UNCHANGED <<prog, rlVars, gwVars, rbVars, crVars, obVars, rsVars,
        hhVars, gsVars, stVars, hpVars, cdVars>>
InOB(A) == prog = "ob" /\ A /\ UNCHANGED <<prog, rlVars, gwVars, rbVars, crVars, sqVars, rsVars,
        hhVars, gsVars, stVars, hpVars, cdVars>>
InRS(A) == prog = "rs" /\ A /\ UNCHANGED <<prog, rlVars, gwVars, rbVars, crVars, sqVars, obVars,
        hhVars, gsVars, stVars, hpVars, cdVars>>
InHH(A) == prog = "hh" /\ A /\ UNCHANGED <<prog, rlVars, gwVars, rbVars, crVars, sqVars, obVars,
        rsVars, gsVars, stVars, hpVars, cdVars>>
InGS(A) == prog = "gs" /\ A /\ UNCHANGED <<prog, rlVars, gwVars, rbVars, crVars, sqVars, obVars,
        rsVars, hhVars, stVars, hpVars, cdVars>>
InST(A) == prog = "st" /\ A /\ UNCHANGED <<prog, rlVars, gwVars, rbVars, crVars, sqVars, obVars,
        rsVars, hhVars, gsVars, hpVars, cdVars>>
InHP(A) == prog = "hp" /\ A /\ UNCHANGED <<prog, rlVars, gwVars, rbVars, crVars, sqVars, obVars,
        rsVars, hhVars, gsVars, stVars, cdVars>>
InCD(A) == prog = "cd" /\ A /\ UNCHANGED <<prog, rlVars, gwVars, rbVars, crVars, sqVars, obVars,
        rsVars, hhVars, gsVars, stVars, hpVars>>

Init ==
    /\ prog \in Progs
    /\ RL!Init /\ GW!Init /\ RB!Init /\ CR!Init /\ SQ!Init /\ OB!Init /\ RS!Init
    /\ HH!Init /\ GS!Init /\ ST!Init /\ HPInit
    /\ CD!Init /\ cdStep = 1 /\ cdSleep = 0 /\ cdTicks = 0 /\ cdGets = <<>>

Next ==
    \/ InRL(RL!Next) \/ InGW(GW!Next) \/ InRB(RB!Next)
    \/ InCR(CR!Next) \/ InSQ(SQ!Next) \/ InOB(OB!Next)
    \/ InRS(RS!Next) \/ InHH(HH!Next) \/ InGS(GS!Next)
    \/ InST(ST!Next) \/ InHP(HPNext) \/ InCD(CDNext)

\* The threads of the graceful-shutdown and the streaming programs are
\* scheduled fairly, as in GS!Fairness and ST!Fairness (a streaming
\* timeout is never forced); the other services only answer requests.
Fairness ==
    /\ WF_allVars(InGS(GS!ServeForever)) /\ WF_allVars(InGS(GS!Select))
    /\ WF_allVars(InGS(GS!HandleSlow)) /\ WF_allVars(InGS(GS!StartSlowRequest))
    /\ WF_allVars(InGS(GS!DemoPrints)) /\ WF_allVars(InGS(GS!StartShutdown("demo")))
    /\ WF_allVars(InGS(GS!ProcessExit))
    /\ \A c \in GSCallers : WF_allVars(InGS(GS!ShutdownReturns(c)))
    /\ WF_allVars(InST(ST!ServerExit)) /\ WF_allVars(InST(ST!ServeForever))
    /\ WF_allVars(InST(ST!HandleGet)) /\ WF_allVars(InST(ST!HandlePost))
    /\ WF_allVars(InST(\E k \in 1..STPayloadLen - stWritten : ST!WriteBody(k)))
    /\ WF_allVars(InST(ST!OpenDownload)) /\ WF_allVars(InST(ST!GotHeaders))
    /\ WF_allVars(InST(\E k \in 1..STChunk1 : ST!ReadChunk1(k)))
    /\ WF_allVars(InST(\E k \in 1..STChunk2 : ST!ReadChunk2(k))) /\ WF_allVars(InST(ST!ReadEnd))
    /\ WF_allVars(InST(ST!SendUpload)) /\ WF_allVars(InST(ST!GotUploadReply))
    /\ WF_allVars(InST(ST!Shutdown)) /\ WF_allVars(InST(ST!ShutdownReturns))
    /\ WF_allVars(InHP(HPServeForever)) /\ WF_allVars(InHP(HPHandle))
    /\ WF_allVars(InHP(HPServerExit)) /\ WF_allVars(InHP(HPUrlopen)) /\ WF_allVars(InHP(HPRead))
    /\ WF_allVars(InHP(HPRequest)) /\ WF_allVars(InHP(HPGetResponse))
    /\ WF_allVars(InHP(HPShutdown)) /\ WF_allVars(InHP(HPShutdownReturns))

Spec == Init /\ [][Next]_allVars /\ Fairness

\* The type invariant of each service.
TypeOK ==
    /\ prog \in Progs
    /\ RL!TypeOK /\ GW!TypeOK /\ RB!TypeOK /\ CR!TypeOK /\ SQ!TypeOK /\ OB!TypeOK /\ RS!TypeOK
    /\ HH!TypeOK /\ GS!TypeOK /\ ST!TypeOK
    /\ hpMpc \in {"urllib", "urllib_wait", "reuse", "reuse_wait", "close", "shutdown", "done"}
    /\ hpSpc \in {"start", "select", "exited"} /\ hpReq \in {"none", "sent", "answered"}
    /\ hpI \in 1..HPRequests /\ hpServed \in 0..2 * HPRequests /\ hpConns \in 0..2 * HPRequests
    /\ {hpStop, hpSock} \subseteq BOOLEAN
    /\ CD!TypeOK /\ cdStep \in 1..Len(CDCalls) + 1 /\ cdSleep \in 0..3 /\ cdTicks \in 0..3
    /\ Len(cdGets) <= 5

\* Cache demo: "adding user:4 (should evict LRU)" evicts user:3, and the
\* get of user:3 then misses, whenever main reaches set("user:4") within
\* two seconds: the hits on user:1 and user:2 moved them to the recent
\* end, and user:2, not expired while time.time() > expires_at is still
\* false, keeps the third slot from the reaper. One second more and the
\* reaper may free that slot, so nothing is evicted. After the 3 s sleep
\* the get of user:2 misses, whether the reaper or the lazy check in get
\* removed it.
DemoEvictsLeastRecent ==
    prog = "cd" =>
        /\ Len(cdGets) >= 4 /\ cdTicks <= 2 => cdGets[4] = <<"user:3", FALSE>>
        /\ Len(cdGets) = 5 => cdGets[5] = <<"user:2", FALSE>>

\* Token-bucket service: lazy refill behaves as an eagerly refilled bucket.
ImplementsTokenBucket == RL!ImplementsTokenBucket

\* Gateway: at most twice the limit in any window_sec span.
AtMostTwoWindowsOfRequests == prog = "gw" => GW!AtMostTwoWindowsOfRequests

\* Refill-thread bucket: at most two buckets of requests per interval.
AtMostTwoBucketsPerInterval == prog = "rb" => RB!AtMostTwoBucketsPerInterval

\* CRUD API: the handlers keep the item-store contract (ids never reused,
\* GET /items in id order, PUT and DELETE on the addressed item only).
\* This is CR!ImplementsItemStore with the contract's step tried only on
\* the CRUD API's own steps: on the others its state stutters.
CrudImplementsItemStore ==
    /\ CR!Contract!Init
    /\ [][prog # "cr" \/ CR!Contract!Next]_(CR!Contract!vars)

\* sqlite repository: handler, service and repository keep the item-store
\* contract (AUTOINCREMENT ids, 400 for a rejected create, rowid order).
\* This is SQ!ImplementsItemStore guarded as CrudImplementsItemStore is.
SqliteImplementsItemStore ==
    /\ SQ!Contract!Init
    /\ [][prog # "sq" \/ SQ!Contract!Next]_(SQ!Contract!vars)

\* Router: from its seeded items, the hand-routed handlers keep the
\* item-store contract (next_id above the seeds, ids never reused).
\* Guarded as CrudImplementsItemStore is.
RouterImplementsItemStore ==
    /\ RS!Contract!Init
    /\ [][prog # "rs" \/ RS!Contract!Next]_(RS!Contract!vars)

\* Graceful shutdown: no shutdown() returns while a request is in the
\* handler.
DrainedWhenShutdownReturns == prog = "gs" => GS!DrainedWhenShutdownReturns

\* The two programs whose main waits on server.shutdown(): serve_forever
\* returns and main exits, whenever the shutdown comes (graceful shutdown
\* of 08/10); and the streaming demo of 07/11 returns with its server
\* stopped, having counted exactly Content-Length bytes in both download
\* loops and sent the whole upload when no socket op timed out; and the
\* http perf demo of 09/10 returns with its server stopped after all 2n
\* pings were answered, its "reused" HTTPConnection having opened a new
\* connection for every request, as urlopen did, since the HTTP/1.0
\* handler closes each one.
ServerStops ==
    /\ prog = "gs" => GS!ServerStops
    /\ prog = "st" => ST!StreamsWholePayload
    /\ prog = "hp" => <>(/\ hpMpc = "done" /\ hpSpc = "exited"
                         /\ hpServed = 2 * HPRequests /\ hpConns = 2 * HPRequests)
=============================================================================
