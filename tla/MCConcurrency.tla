--------------------------- MODULE MCConcurrency ---------------------------
(***************************************************************************)
(* The threaded programs checked in one model: the queue-based job queue, *)
(* worker pool and pipeline, the lock-protected counter and cache, retry *)
(* and with_timeout of the reliability patterns, the per-request timeout *)
(* of 08/06, the buffered-queue and semaphore examples of 06/03, the      *)
(* queue token bucket of 06/10, and the thread and queue demos of 06/01, *)
(* 06/02, 06/04 and 06/07.                                               *)
(* The initial state chooses which program runs, and only that program    *)
(* ever steps. Each behaviour is a behaviour of exactly one of the        *)
(* specifications, so the state space is their sum.                       *)
(***************************************************************************)
EXTENDS TLC

CONSTANTS
    JQWorkers, JQJobs, JQQueueSize,   \* job queue: workers, num_jobs, queue_size
    WPWorkers, WPJobs,                \* worker pool: num_workers, num_jobs
    PLWorkers, PLLo, PLHi,            \* pipeline: workers, generate(lo, hi)
    SCThreads, SCReaders, SCNone,     \* safe counter: inc and cache reader threads
    RTMaxAttempts, RTBaseDelay, RTFailCounts,  \* retry
    CTFastWork, CTFastTimeout, CTSlowWork, CTSlowTimeout, CTMaxRequests,  \* request timeout
    BCJobs, BCJobsSize, BCWorkers, BCSemValue, BCSentinel,  \* buffered channels
    QBFixedRequests, QBCapacity, QBRefillTicks, QBRequests,  \* queue token bucket
    GRWorkers, GRSpawned,             \* goroutines: example 1 and 3 threads
    CHCount, CHMsg, CHEmpty,          \* channels basics
    WGWorkers, WGTasks,               \* waitgroups: threads, executor tasks
    ASLate, ASWanted,                 \* asyncio select: timer lateness, values taken
    ATLate, ATSlowWork, ATTimeout, ATInterval, ATSpan  \* asyncio timers

VARIABLES
    prog,
    jqQueue, jqUnfinished, jqShutdown, jqNext, jqMainPc, jqWpc, jqJob, jqCompleted,
    wpJobs, wpResults, wpNext, wpSentinels, wpMainPc, wpWpc, wpItem, wpCollected,
    plNums, plMerged, plMainPc, plWpc, plVal, plSimple, plDrained,
    scValue, scLock, scPc, scLoaded, scMainPc, scResult, scData, scRpc, scSaw, scAfter,
    rtFailCount, rtI, rtCallCount, rtLastErr, rtSlept, rtPc, rtRet,
    wtWpc, wtError, wtMpc, wtRet,
    ctHpc, ctPath, ctElapsed, ctWpc, ctCancel, ctResult, ctServed, ctStatus,
    bcMpc, bcGot, bcJobs, bcPpc, bcDone, bcDpc, bcSem, bcWpc,
    qbMpc, qbReq, qbBucket, qbRpc, qbSleepLeft,
    grEx, grStarted, grJoined, grTh,
    chEx, chQ, chPut, chGot,
    cdEx, cdMpc, cdRaw, cdOut, cdPpc, cdTpc, cdGot,
    wgEx, wgStarted, wgJoined, wgTh, wgResults, wgPrinted,
    asPart, asNow, asTimers, asPrinted, asQ, asReady, asMpc, asPpc, asI, asResults, asCancelled,
    atPart, atNow, atDeadline, atCount, atWakes, atPrinted

jqVars == <<jqQueue, jqUnfinished, jqShutdown, jqNext, jqMainPc, jqWpc, jqJob, jqCompleted>>
wpVars == <<wpJobs, wpResults, wpNext, wpSentinels, wpMainPc, wpWpc, wpItem, wpCollected>>
plVars == <<plNums, plMerged, plMainPc, plWpc, plVal, plSimple, plDrained>>
scVars == <<scValue, scLock, scPc, scLoaded, scMainPc, scResult, scData, scRpc, scSaw, scAfter>>
rtVars == <<rtFailCount, rtI, rtCallCount, rtLastErr, rtSlept, rtPc, rtRet>>
wtVars == <<wtWpc, wtError, wtMpc, wtRet>>
ctVars == <<ctHpc, ctPath, ctElapsed, ctWpc, ctCancel, ctResult, ctServed, ctStatus>>
bcVars == <<bcMpc, bcGot, bcJobs, bcPpc, bcDone, bcDpc, bcSem, bcWpc>>
qbVars == <<qbMpc, qbReq, qbBucket, qbRpc, qbSleepLeft>>
grVars == <<grEx, grStarted, grJoined, grTh>>
chVars == <<chEx, chQ, chPut, chGot>>
cdVars == <<cdEx, cdMpc, cdRaw, cdOut, cdPpc, cdTpc, cdGot>>
wgVars == <<wgEx, wgStarted, wgJoined, wgTh, wgResults, wgPrinted>>
asVars == <<asPart, asNow, asTimers, asPrinted, asQ, asReady, asMpc, asPpc, asI, asResults, asCancelled>>
atVars == <<atPart, atNow, atDeadline, atCount, atWakes, atPrinted>>
allVars == <<prog, jqVars, wpVars, plVars, scVars, rtVars, wtVars, ctVars,
             bcVars, qbVars, grVars, chVars, cdVars, wgVars,
            asVars, atVars>>

JQ == INSTANCE JobQueue
        WITH Workers <- JQWorkers, NumJobs <- JQJobs, QueueSize <- JQQueueSize,
             queue <- jqQueue, unfinished <- jqUnfinished, shutdown <- jqShutdown,
             next <- jqNext, mainPc <- jqMainPc, wpc <- jqWpc, job <- jqJob,
             completed <- jqCompleted
WP == INSTANCE WorkerPool
        WITH Workers <- WPWorkers, NumJobs <- WPJobs,
             jobs <- wpJobs, results <- wpResults, next <- wpNext,
             sentinels <- wpSentinels, mainPc <- wpMainPc, wpc <- wpWpc,
             item <- wpItem, collected <- wpCollected
PL == INSTANCE Pipeline
        WITH Workers <- PLWorkers, Lo <- PLLo, Hi <- PLHi,
             nums <- plNums, merged <- plMerged, mainPc <- plMainPc,
             wpc <- plWpc, val <- plVal, simple <- plSimple, drained <- plDrained

SC == INSTANCE SafeCounter
        WITH Threads <- SCThreads, Readers <- SCReaders, None <- SCNone,
             value <- scValue, lock <- scLock, pc <- scPc, loaded <- scLoaded,
             mainPc <- scMainPc, result <- scResult, data <- scData, rpc <- scRpc,
             saw <- scSaw, after <- scAfter
RT == INSTANCE RetryBackoff
        WITH MaxAttempts <- RTMaxAttempts, BaseDelay <- RTBaseDelay,
             FailCounts <- RTFailCounts,
             failCount <- rtFailCount, i <- rtI, callCount <- rtCallCount,
             lastErr <- rtLastErr, slept <- rtSlept, pc <- rtPc, ret <- rtRet
WT == INSTANCE WithTimeout
        WITH wpc <- wtWpc, error <- wtError, mpc <- wtMpc, ret <- wtRet
CT == INSTANCE RequestTimeout
        WITH FastWork <- CTFastWork, FastTimeout <- CTFastTimeout,
             SlowWork <- CTSlowWork, SlowTimeout <- CTSlowTimeout,
             MaxRequests <- CTMaxRequests,
             hpc <- ctHpc, path <- ctPath, elapsed <- ctElapsed, wpc <- ctWpc,
             cancel <- ctCancel, result <- ctResult, served <- ctServed,
             status <- ctStatus
BC == INSTANCE BufferedChannels
        WITH Jobs <- BCJobs, JobsSize <- BCJobsSize, Workers <- BCWorkers,
             SemValue <- BCSemValue, Sentinel <- BCSentinel,
             mpc <- bcMpc, got <- bcGot, jobs <- bcJobs, ppc <- bcPpc,
             done <- bcDone, dpc <- bcDpc, sem <- bcSem, wpc <- bcWpc
QB == INSTANCE QueueBucket
        WITH FixedRequests <- QBFixedRequests, Capacity <- QBCapacity,
             RefillTicks <- QBRefillTicks, Requests <- QBRequests,
             mpc <- qbMpc, req <- qbReq, bucket <- qbBucket, rpc <- qbRpc,
             sleepLeft <- qbSleepLeft
GR == INSTANCE Goroutines
        WITH Workers <- GRWorkers, Spawned <- GRSpawned,
             ex <- grEx, started <- grStarted, joined <- grJoined, th <- grTh
CH == INSTANCE Channels
        WITH Msg <- CHMsg, Count <- CHCount, Sentinel <- BCSentinel, Empty <- CHEmpty,
             ex <- chEx, q <- chQ, put <- chPut, got <- chGot
CD == INSTANCE ChannelDirections
        WITH Sentinel <- BCSentinel,
             ex <- cdEx, mpc <- cdMpc, raw <- cdRaw, out <- cdOut, ppc <- cdPpc,
             tpc <- cdTpc, got <- cdGot
WG == INSTANCE WaitGroups
        WITH Workers <- WGWorkers, Tasks <- WGTasks,
             ex <- wgEx, started <- wgStarted, joined <- wgJoined, th <- wgTh,
             results <- wgResults, printed <- wgPrinted

AS == INSTANCE AsyncSelect
        WITH Late <- ASLate, Wanted <- ASWanted,
             part <- asPart, now <- asNow, timers <- asTimers, printed <- asPrinted,
             q <- asQ, ready <- asReady, mpc <- asMpc, ppc <- asPpc, i <- asI,
             results <- asResults, cancelled <- asCancelled
AT == INSTANCE AsyncTimers
        WITH Late <- ATLate, SlowWork <- ATSlowWork, Timeout <- ATTimeout,
             Interval <- ATInterval, Span <- ATSpan,
             part <- atPart, now <- atNow, deadline <- atDeadline, count <- atCount,
             wakes <- atWakes, printed <- atPrinted

\* A step of one program while the others stay as they are.
InJQ(A) == prog = "jq" /\ A /\ UNCHANGED <<prog, wpVars, plVars, scVars, rtVars, wtVars, ctVars,
        bcVars, qbVars, grVars, chVars, cdVars, wgVars, asVars, atVars>>
InWP(A) == prog = "wp" /\ A /\ UNCHANGED <<prog, jqVars, plVars, scVars, rtVars, wtVars, ctVars,
        bcVars, qbVars, grVars, chVars, cdVars, wgVars, asVars, atVars>>
InPL(A) == prog = "pl" /\ A /\ UNCHANGED <<prog, jqVars, wpVars, scVars, rtVars, wtVars, ctVars,
        bcVars, qbVars, grVars, chVars, cdVars, wgVars, asVars, atVars>>
InSC(A) == prog = "sc" /\ A /\ UNCHANGED <<prog, jqVars, wpVars, plVars, rtVars, wtVars, ctVars,
        bcVars, qbVars, grVars, chVars, cdVars, wgVars, asVars, atVars>>
InRT(A) == prog = "rt" /\ A /\ UNCHANGED <<prog, jqVars, wpVars, plVars, scVars, wtVars, ctVars,
        bcVars, qbVars, grVars, chVars, cdVars, wgVars, asVars, atVars>>
InWT(A) == prog = "wt" /\ A /\ UNCHANGED <<prog, jqVars, wpVars, plVars, scVars, rtVars, ctVars,
        bcVars, qbVars, grVars, chVars, cdVars, wgVars, asVars, atVars>>
InCT(A) == prog = "ct" /\ A /\ UNCHANGED <<prog, jqVars, wpVars, plVars, scVars, rtVars, wtVars,
        bcVars, qbVars, grVars, chVars, cdVars, wgVars, asVars, atVars>>
InBC(A) == prog = "bc" /\ A /\ UNCHANGED <<prog, jqVars, wpVars, plVars, scVars, rtVars, wtVars,
        ctVars, qbVars, grVars, chVars, cdVars, wgVars, asVars, atVars>>
InQB(A) == prog = "qb" /\ A /\ UNCHANGED <<prog, jqVars, wpVars, plVars, scVars, rtVars, wtVars,
        ctVars, bcVars, grVars, chVars, cdVars, wgVars, asVars, atVars>>
InGR(A) == prog = "gr" /\ A /\ UNCHANGED <<prog, jqVars, wpVars, plVars, scVars, rtVars, wtVars,
        ctVars, bcVars, qbVars, chVars, cdVars, wgVars, asVars, atVars>>
InCH(A) == prog = "ch" /\ A /\ UNCHANGED <<prog, jqVars, wpVars, plVars, scVars, rtVars, wtVars,
        ctVars, bcVars, qbVars, grVars, cdVars, wgVars, asVars, atVars>>
InCD(A) == prog = "cd" /\ A /\ UNCHANGED <<prog, jqVars, wpVars, plVars, scVars, rtVars, wtVars,
        ctVars, bcVars, qbVars, grVars, chVars, wgVars, asVars, atVars>>
InWG(A) == prog = "wg" /\ A /\ UNCHANGED <<prog, jqVars, wpVars, plVars, scVars, rtVars, wtVars,
        ctVars, bcVars, qbVars, grVars, chVars, cdVars, asVars, atVars>>
InAS(A) == prog = "as" /\ A /\ UNCHANGED <<prog, jqVars, wpVars, plVars, scVars, rtVars, wtVars,
        ctVars, bcVars, qbVars, grVars, chVars, cdVars, wgVars, atVars>>
InAT(A) == prog = "at" /\ A /\ UNCHANGED <<prog, jqVars, wpVars, plVars, scVars, rtVars, wtVars,
        ctVars, bcVars, qbVars, grVars, chVars, cdVars, wgVars, asVars>>

Progs == {"jq", "wp", "pl", "sc", "rt", "wt", "ct", "bc", "qb", "gr", "ch", "cd", "wg", "as", "at"}

Init ==
    /\ prog \in Progs
    /\ JQ!Init /\ WP!Init /\ PL!Init /\ SC!Init /\ RT!Init /\ WT!Init /\ CT!Init
    /\ BC!Init /\ QB!Init /\ GR!Init /\ CH!Init /\ CD!Init /\ WG!Init
    /\ AS!Init /\ AT!Init

Next ==
    \/ InJQ(JQ!Next) \/ InWP(WP!Next) \/ InPL(PL!Next)
    \/ InSC(SC!Next) \/ InRT(RT!Next) \/ InWT(WT!Next)
    \/ InCT(CT!Next) \/ InBC(BC!Next) \/ InQB(QB!Next)
    \/ InGR(GR!Next) \/ InCH(CH!Next) \/ InCD(CD!Next) \/ InWG(WG!Next)
    \/ InAS(AS!Next) \/ InAT(AT!Next)

\* Each program's own fairness: every thread or task that can run is
\* eventually scheduled.
Fairness ==
    /\ WF_allVars(InJQ(JQ!Put)) /\ WF_allVars(InJQ(JQ!Join))
    /\ WF_allVars(InJQ(JQ!SetShutdown)) /\ WF_allVars(InJQ(JQ!JoinThreads))
    /\ \A w \in JQWorkers :
          /\ WF_allVars(InJQ(JQ!WorkerGet(w))) /\ WF_allVars(InJQ(JQ!WorkerTimeout(w)))
          /\ WF_allVars(InJQ(JQ!WorkerCheck(w))) /\ WF_allVars(InJQ(JQ!WorkerFinish(w)))
    /\ WF_allVars(InWP(WP!PutJob)) /\ WF_allVars(InWP(WP!PutSentinel))
    /\ WF_allVars(InWP(WP!JoinThreads)) /\ WF_allVars(InWP(WP!Collect))
    /\ \A w \in WPWorkers :
          WF_allVars(InWP(WP!WorkerGet(w))) /\ WF_allVars(InWP(WP!WorkerPut(w)))
    /\ WF_allVars(InPL(PL!SimplePipeline)) /\ WF_allVars(InPL(PL!StartFanOut))
    /\ WF_allVars(InPL(PL!Gather)) /\ WF_allVars(InPL(PL!DrainStep))
    /\ \A w \in PLWorkers :
          WF_allVars(InPL(PL!WorkerGet(w))) /\ WF_allVars(InPL(PL!WorkerPut(w)))
    /\ WF_allVars(InBC(BC!Example1)) /\ WF_allVars(InBC(BC!Produce))
    /\ WF_allVars(InBC(BC!Consume)) /\ WF_allVars(InBC(BC!DoWork))
    /\ WF_allVars(InBC(BC!ReceiveDone)) /\ WF_allVars(InBC(BC!JoinWorkers))
    /\ \A w \in BCWorkers :
          WF_allVars(InBC(BC!Acquire(w))) /\ WF_allVars(InBC(BC!Release(w)))
    /\ WF_allVars(InQB(QB!FixedRequest)) /\ WF_allVars(InQB(QB!Fill))
    /\ WF_allVars(InQB(QB!Get)) /\ WF_allVars(InQB(QB!Tick))
    /\ WF_allVars(InQB(QB!Refill))
    /\ WF_allVars(InCD(CD!Produce)) /\ WF_allVars(InCD(CD!Transform))
    /\ WF_allVars(InCD(CD!Consume)) /\ WF_allVars(InCD(CD!JoinProducer))
    /\ WF_allVars(InCD(CD!JoinTransform))

Spec == Init /\ [][Next]_allVars /\ Fairness


\* The type invariant of each program.
TypeOK ==
    /\ prog \in Progs
    /\ JQ!TypeOK /\ WP!TypeOK /\ PL!TypeOK
    /\ SC!TypeOK /\ RT!TypeOK /\ WT!TypeOK /\ CT!TypeOK
    /\ BC!TypeOK /\ QB!TypeOK /\ GR!TypeOK /\ CH!TypeOK /\ CD!TypeOK /\ WG!TypeOK
    /\ AS!TypeOK /\ AT!TypeOK

\* Job queue: job_queue.join() returns only after every job, including
\* those still inside a worker, has been completed.
JoinMeansAllDone == JQ!JoinMeansAllDone

\* Worker pool: the results.empty() loop after the joins collects the
\* square of every job.
AllResultsCollected == WP!AllResultsCollected

\* Pipeline: the fan-in drains every square exactly once and the simple
\* pipeline prints the even squares in order.
PipelinesDeliverAll == PL!PipelinesDeliverAll

\* Job queue: all jobs complete and every worker leaves its timeout loop
\* after the shutdown event, so main() returns.
AllJobsDoneAndWorkersExit == prog = "jq" => JQ!AllJobsDoneAndWorkersExit

\* Worker pool: one SENTINEL per worker ends every worker and main().
PoolTerminates == prog = "wp" => WP!PoolTerminates

\* Pipeline: the re-posted SENTINEL reaches every square_worker, so gather
\* and the drain finish.
FanOutTerminates == prog = "pl" => PL!FanOutTerminates

\* Safe counter and cache: after the joins, value() counts every inc,
\* whatever the interleaving of the threads' loads and stores; every
\* reader finds "alice" and the get after the write finds "bob".
CounterAndCachePrints == prog = "sc" => SC!CounterAndCachePrints

\* Retry: at most max_attempts calls, None exactly when one succeeded.
RetryOutcome == prog = "rt" => RT!RetryOutcome

\* select (05): the lines main prints, in order, with example 4's producer
\* never more than one value ahead and stopped before asyncio.run returns.
PrintsExpectedLines == prog = "as" => AS!PrintsExpectedLines

\* Request timeout: _with_timeout answers only after its worker thread has
\* ended, the timed-out ones included.
NoAnswerWhileWorkerRuns == prog = "ct" => CT!NoAnswerWhileWorkerRuns

\* Buffered channels: main gets 1..5 in order before the SENTINEL.
ConsumedInOrder == prog = "bc" => BC!ConsumedInOrder

\* with_timeout: an answer other than "timeout" is the outcome fn ended
\* with, however the join's timer and the thread race.
AnswerIsWorkersOutcome == prog = "wt" => WT!AnswerIsWorkersOutcome

\* Buffered channels: every example ends and main() returns.
MainReturns == prog = "bc" => BC!MainReturns

\* Queue token bucket: all eight blocking gets return.
AllRequestsServed == prog = "qb" => QB!AllRequestsServed

\* Channel directions: main returns having printed every value, doubled
\* once through transform, in order.
AllExamplesDeliver == prog = "cd" => CD!AllExamplesDeliver
=============================================================================
