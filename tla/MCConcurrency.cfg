\* Job queue: three workers, five jobs, queue of two (the producer blocks).
\* Worker pool: three workers, four jobs. Pipeline: three asyncio workers
\* over generate(1, 4). Safe counter: three inc threads, two cache
\* readers. Retry: three attempts, base delay 2 units, fail_count 0 to 3
\* (success on each attempt, and failure throughout).
\* Request timeout: /fast works 1 tick of a 3-tick timeout, /slow 3 of 2;
\* two requests. Buffered channels and the queue bucket: the demos' own
\* sizes (five jobs in a queue of five, five workers on Semaphore(2); a
\* bucket of three, a refill every two ticks, eight gets). Thread demos:
\* the code's five values; its five and 10,000 threads, which share nothing
\* but the queue, cut to three. asyncio demos: the code's delays, in ticks
\* of 50 ms (select) and 10 ms (timers), sleeps up to two ticks late
\* (late enough to cost the ticker a tick).
CONSTANTS
    JQWorkers = {jw1, jw2, jw3}
    JQJobs = 5
    JQQueueSize = 2
    WPWorkers = {pw1, pw2, pw3}
    WPJobs = 4
    PLWorkers = {lw1, lw2, lw3}
    PLLo = 1
    PLHi = 4
    SCThreads = {st1, st2, st3}
    SCReaders = {rd1, rd2}
    SCNone = SCNone
    RTMaxAttempts = 3
    RTBaseDelay = 2
    RTFailCounts = {0, 1, 2, 3}
    CTFastWork = 1
    CTFastTimeout = 3
    CTSlowWork = 3
    CTSlowTimeout = 2
    CTMaxRequests = 2
    BCJobs = 5
    BCJobsSize = 5
    BCWorkers = {bw1, bw2, bw3, bw4, bw5}
    BCSemValue = 2
    BCSentinel = BCSentinel
    QBFixedRequests = 5
    QBCapacity = 3
    QBRefillTicks = 2
    QBRequests = 8
    GRWorkers = 3
    GRSpawned = 3
    CHCount = 5
    CHMsg = CHMsg
    CHEmpty = CHEmpty
    WGWorkers = 3
    WGTasks = 3
    ASLate = 2
    ASWanted = 3
    ATLate = 2
    ATSlowWork = 20
    ATTimeout = 10
    ATInterval = 8
    ATSpan = 35
SPECIFICATION Spec
INVARIANT TypeOK
INVARIANT JoinMeansAllDone
INVARIANT AllResultsCollected
INVARIANT PipelinesDeliverAll
INVARIANT CounterAndCachePrints
INVARIANT RetryOutcome
INVARIANT PrintsExpectedLines
INVARIANT NoAnswerWhileWorkerRuns
PROPERTY AllJobsDoneAndWorkersExit
PROPERTY PoolTerminates
PROPERTY FanOutTerminates
INVARIANT ConsumedInOrder
INVARIANT AnswerIsWorkersOutcome
PROPERTY MainReturns
PROPERTY AllRequestsServed
PROPERTY AllExamplesDeliver
