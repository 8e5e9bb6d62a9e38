\* Parking lot: a plate parked twice while its first ticket is active.
\* The services' constants as in MCServices.cfg.
CONSTANTS
    CBCallers = {c1, c2}
    CBThreshold = 2
    CBCooldown = 1
    CBMaxCalls = 3
    Codes6 = {a1, a2}
    Codes8 = {b1}
    Urls = {u1, u2}
    NoUrl = NoUrl
    NoCode = NoCode
    SHMaxPosts = 4
    PKSmall = 1
    PKMedium = 1
    PKLarge = 1
    PKCars = {k1, k2}
    PKPricing = "hourly"
    PKFlatRate = 10
    PKHourTicks = 2
    PKMaxTime = 3
    PKMaxTickets = 3
    DSMaxRetries = 3
    DSDelay = 2
    DSSends = 3
    DSStart = 1
    DSOversleep = 1
    DSMaxGap = 3
    EBHandlers = {eh1, eh2}
    EBMaxSubs = 2
    EBMaxCalls = 2
    NRIds = {"n1", "n2"}
    NRRecipients = {"alice", "bob"}
    NRMaxSends = 3
    HXRecipients = {"alice", ""}
    HXMaxSends = 2
    HCTos = {"", "bob", "a@x"}
    HCAtAddresses = {"a@x"}
    HCBodies = {"", "hi"}
    HCNone = HCNone
    HCMaxRuns = 2
    SPTos = {"alice"}
    SPMsgs = {"shipped"}
    SPKinds = {"email", "pigeon"}
    SPFromNum = "+1555000000"
    SPMaxCalls = 2
    STMaxSends = 4
    BDTimeouts = {100}
    BDRetries = {3}
    BDMaxSteps = 4
    SEChildren = {ch1, ch2}
    SESteps = 3
    SELate = 2
    CPTaskCounts = {2, 3}
    CPWorkers = 2
    CPItems = 3
    CPMaxSize = 1
    CPConsumers = {cc1, cc2}
SYMMETRY CBSymmetry
SPECIFICATION Spec
INVARIANT OneActiveTicketPerPlate
