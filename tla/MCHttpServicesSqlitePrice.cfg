\* The sqlite repository with a string price in a POST body.
CONSTANTS
    RLClients = {r1, r2}
    RLMaxTokens = 2
    RLUnits = 2
    RLRefillPerTick = 1
    RLMaxTime = 5
    GWClients = {g1, g2}
    GWApiKeys = {"key-abc-123", ""}
    GWValidKeys = {"key-abc-123", "key-xyz-789"}
    GWPaths = {"/api/users", "/api/unknown"}
    GWLimit = 2
    GWWindow = 2
    GWMaxTime = 5
    GWMaxCount = 3
    RBMaxTokens = 2
    RBRefillInterval = 2
    RBMaxTime = 5
    ItemIds = {1, 2, 3}
    ItemMaxId = 3
    ItemNames = {"w", "g"}
    NoField = NoField
    SQBadPrices = {abc}
    OBDemoHellos = 5
    OBPaths = {"/metrics", "/other"}
    OBMaxExternal = 2
    RSIds = {1, 2, 3, 4}
    RSMaxId = 4
    HHPaths = {"/hello", "/panic", "/users", "/search", "/protected", "/health"}
    HHContentTypes = {"application/json", "text/plain"}
    HHJsonTypes = {"application/json"}
    HHLengths = {10, 2000000}
    HHMaxBody = 1048576
    HHAtEmails = {"a@x"}
    HHRequestIds = {"", "abc"}
    HHGenerated = {"g1", "g2"}
    HHKeys = {"", "wrong", "secret123"}
    HHApiKey = "secret123"
    GSCallers = {"demo", "signal"}
    STPayloadLen = 5
    STChunk1 = 2
    STChunk2 = 1
    STUploadLen = 1
    HPRequests = 2
SPECIFICATION Spec
PROPERTY SqliteImplementsItemStore
