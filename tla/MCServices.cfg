\* Circuit breaker: two threads, threshold 2, cooldown 1, three calls each.
\* URL shortener: two checked codes, one fallback, four POSTs.
\* Parking lot: one spot of each size, four vehicles, three tickets.
\* Decorators: the code's three retries and three sends, delay 2 ticks,
\* sleeps up to a tick late, callers up to three ticks apart. Pattern
\* lessons: two handlers, ids and recipients, a few calls each; every
\* validation branch of the handler chain; a known and an unknown factory
\* kind, four strategy sends (a full round-robin cycle and one more), and
\* builder chains of up to four calls. Cancellation: the code's delays in
\* ticks of 50 ms, timers up to two ticks late; two children of three
\* steps. 09/09: rounds of two and three tasks on a pool of two; three
\* values through a queue of one to two consumers, so the queue is both
\* full and empty.
CONSTANTS
    CBCallers = {c1, c2}
    CBThreshold = 2
    CBCooldown = 1
    CBMaxCalls = 3
    Codes6 = {a1, a2}
    Codes8 = {b1}
    Urls = {u1, u2}
    NoUrl = NoUrl
    NoCode = NoCode
    SHMaxPosts = 4
    PKSmall = 1
    PKMedium = 1
    PKLarge = 1
    PKCars = {k1, k2}
    PKPricing = "hourly"
    PKFlatRate = 10
    PKHourTicks = 2
    PKMaxTime = 3
    PKMaxTickets = 3
    DSMaxRetries = 3
    DSDelay = 2
    DSSends = 3
    DSStart = 1
    DSOversleep = 1
    DSMaxGap = 3
    EBHandlers = {eh1, eh2}
    EBMaxSubs = 2
    EBMaxCalls = 2
    NRIds = {"n1", "n2"}
    NRRecipients = {"alice", "bob"}
    NRMaxSends = 3
    HXRecipients = {"alice", ""}
    HXMaxSends = 2
    HCTos = {"", "bob", "a@x"}
    HCAtAddresses = {"a@x"}
    HCBodies = {"", "hi"}
    HCNone = HCNone
    HCMaxRuns = 2
    SPTos = {"alice"}
    SPMsgs = {"shipped"}
    SPKinds = {"email", "pigeon"}
    SPFromNum = "+1555000000"
    SPMaxCalls = 2
    STMaxSends = 4
    BDTimeouts = {100}
    BDRetries = {3}
    BDMaxSteps = 4
    SEChildren = {ch1, ch2}
    SESteps = 3
    SELate = 2
    CPTaskCounts = {2, 3}
    CPWorkers = 2
    CPItems = 3
    CPMaxSize = 1
    CPConsumers = {cc1, cc2}
SYMMETRY CBSymmetry
SPECIFICATION Spec
INVARIANTS
    TypeOK
    StateMatchesFailures
    DemoRespectsCooldown
    CheckedCodesUnique
    AllocateIsNearestFit
    SpotsMatchTickets
    FeeCoversStay
    SendsSpacedByDelay
    AtMostOneStepAfterStop
