\* Token bucket: two clients, two tokens of two units, half a token a tick.
\* Gateway: two clients, one valid and one missing key, limit 2 per 2 ticks.
\* Refill thread: two tokens refilled every two ticks.
\* Item stores: three ids, two names, prices -1, 5 and the default 0.
\* Router: two seeded items and two creates.
\* Observability: run_demo's seven requests, two from another client.
\* Handlers: every path of the five servers, each early return of POST
\* /users, a sent and a missing request id, no, a wrong and the API key.
\* Graceful shutdown: the demo's shutdown thread and one signal's.
\* Streaming: a payload of five units read two and one at a time, so
\* full and short reads both happen; a one-unit upload.
\* HTTP perf: two requests in each loop, so the HTTPConnection's second
\* request finds its socket closed by the first response.
\* Cache demo: the code's keys, ttls and capacity, one-second ticks.
CONSTANTS
    RLClients = {r1, r2}
    RLMaxTokens = 2
    RLUnits = 2
    RLRefillPerTick = 1
    RLMaxTime = 5
    GWClients = {g1, g2}
    GWApiKeys = {"key-abc-123", ""}
    GWValidKeys = {"key-abc-123", "key-xyz-789"}
    GWPaths = {"/api/users", "/api/unknown"}
    GWLimit = 2
    GWWindow = 2
    GWMaxTime = 5
    GWMaxCount = 3
    RBMaxTokens = 2
    RBRefillInterval = 2
    RBMaxTime = 5
    ItemIds = {1, 2, 3}
    ItemMaxId = 3
    ItemNames = {"w", "g"}
    NoField = NoField
    SQBadPrices = {}
    OBDemoHellos = 5
    OBPaths = {"/metrics", "/other"}
    OBMaxExternal = 2
    RSIds = {1, 2, 3, 4}
    RSMaxId = 4
    HHPaths = {"/hello", "/panic", "/users", "/search", "/protected", "/health"}
    HHContentTypes = {"application/json", "text/plain"}
    HHJsonTypes = {"application/json"}
    HHLengths = {10, 2000000}
    HHMaxBody = 1048576
    HHAtEmails = {"a@x"}
    HHRequestIds = {"", "abc"}
    HHGenerated = {"g1", "g2"}
    HHKeys = {"", "wrong", "secret123"}
    HHApiKey = "secret123"
    GSCallers = {"demo", "signal"}
    STPayloadLen = 5
    STChunk1 = 2
    STChunk2 = 1
    STUploadLen = 1
    HPRequests = 2
SPECIFICATION Spec
INVARIANTS
    TypeOK
    AtMostTwoWindowsOfRequests
    AtMostTwoBucketsPerInterval
    DrainedWhenShutdownReturns
    DemoEvictsLeastRecent
PROPERTIES
    ImplementsTokenBucket
    CrudImplementsItemStore
    SqliteImplementsItemStore
    RouterImplementsItemStore
    ServerStops
