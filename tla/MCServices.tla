---------------------------- MODULE MCServices ----------------------------
(***************************************************************************)
(* The programs checked for safety alone, in one model: the circuit        *)
(* breaker and its demo main, the URL shortener and its demo, the parking  *)
(* lot and its demo main, the design-pattern lessons (decorator senders,   *)
(* event bus, singleton and DI, repository, hexagonal ports and adapters,  *)
(* handler chain, sender wiring, strategy, builder), the cancellation      *)
(* examples of 06/11 and the concurrency patterns of 09/09. The initial    *)
(* state chooses which service runs and only that one ever steps, so every *)
(* behaviour is a behaviour of exactly one specification and the state     *)
(* space is the sum of theirs.                                             *)
(***************************************************************************)
EXTENDS Naturals, Sequences, TLC

CONSTANTS
    CBCallers, CBThreshold, CBCooldown, CBMaxCalls,
    Codes6, Codes8, Urls, NoUrl, NoCode, SHMaxPosts,
    PKSmall, PKMedium, PKLarge, PKCars, PKPricing, PKFlatRate, PKHourTicks,
    PKMaxTime, PKMaxTickets,
    DSMaxRetries, DSDelay, DSSends, DSStart, DSOversleep, DSMaxGap,
    EBHandlers, EBMaxSubs, EBMaxCalls,
    NRIds, NRRecipients, NRMaxSends, HXRecipients, HXMaxSends,
    HCTos, HCAtAddresses, HCBodies, HCNone, HCMaxRuns,
    SPTos, SPMsgs, SPKinds, SPFromNum, SPMaxCalls,
    STMaxSends, BDTimeouts, BDRetries, BDMaxSteps,
    SEChildren, SESteps, SELate,
    CPTaskCounts, CPWorkers, CPItems, CPMaxSize, CPConsumers

VARIABLES
    prog,
    cbState, cbFailures, cbSinceFailure, cbPc, cbCalls, cbRet,
    shUrls, shIssued, shResp, shPosts,
    sdUrls, sdIssued, sdResp, sdPosts, sdPc, sdI, sdCodes, sdBound,
    pkOccupied, pkParkedIn, pkTickets, pkNow, pkReply,
    pdOccupied, pdParkedIn, pdTickets, pdNow, pdReply, pdStep,
    bmState, bmFailures, bmSinceFailure, bmPc, bmCalls, bmRet, bmMpc, bmI, bmSleep, bmCount, bmLate,
    dsPart, dsFailCount, dsAttempt, dsOutcome, dsClock, dsLastSent, dsSentAt, dsGap,
    ebHandlers, ebCalls,
    sgConfig, sgLoads, sgSent, sgFakeCalls,
    nrData, nrOrder, nrSends, nrReply,
    hxEmails, hxMemData, hxFakeCalls, hxFakeSaved, hxSends, hxReply,
    hcDelivered, hcResult, hcRuns,
    spLog, spFakeCalls, spN,
    stStrategy, stCounter, stRouted, stSends,
    bdBuilder, bdService, bdPrinted, bdSteps,
    seStop, seCpc, seStep, seOutcome, seLate, seMainPc, sePart, seNow, seTimers, seJstep, seJout,
    cpMpc, cpTasks, cpUStarted, cpUDone, cpUJoined, cpPTaken, cpPRunning, cpPDone, cpPCollected,
    cpQ, cpUnfinished, cpNextItem, cpProduced, cpConsumed, cpPpc, cpCpc, cpCtmp, cpJoined

cbVars == <<cbState, cbFailures, cbSinceFailure, cbPc, cbCalls, cbRet>>
shVars == <<shUrls, shIssued, shResp, shPosts>>
sdVars == <<sdUrls, sdIssued, sdResp, sdPosts, sdPc, sdI, sdCodes, sdBound>>
pkVars == <<pkOccupied, pkParkedIn, pkTickets, pkNow, pkReply>>
pdVars == <<pdOccupied, pdParkedIn, pdTickets, pdNow, pdReply, pdStep>>
bmVars == <<bmState, bmFailures, bmSinceFailure, bmPc, bmCalls, bmRet, bmMpc, bmI, bmSleep,
            bmCount, bmLate>>
dsVars == <<dsPart, dsFailCount, dsAttempt, dsOutcome, dsClock, dsLastSent, dsSentAt, dsGap>>
ebVars == <<ebHandlers, ebCalls>>
sgVars == <<sgConfig, sgLoads, sgSent, sgFakeCalls>>
nrVars == <<nrData, nrOrder, nrSends, nrReply>>
hxVars == <<hxEmails, hxMemData, hxFakeCalls, hxFakeSaved, hxSends, hxReply>>
hcVars == <<hcDelivered, hcResult, hcRuns>>
spVars == <<spLog, spFakeCalls, spN>>
stVars == <<stStrategy, stCounter, stRouted, stSends>>
bdVars == <<bdBuilder, bdService, bdPrinted, bdSteps>>
seVars == <<seStop, seCpc, seStep, seOutcome, seLate, seMainPc, sePart, seNow, seTimers, seJstep, seJout>>
cpVars == <<cpMpc, cpTasks, cpUStarted, cpUDone, cpUJoined, cpPTaken, cpPRunning, cpPDone,
            cpPCollected, cpQ, cpUnfinished, cpNextItem, cpProduced, cpConsumed, cpPpc, cpCpc,
            cpCtmp, cpJoined>>
allVars == <<prog, cbVars, bmVars, shVars, sdVars, pkVars, pdVars, dsVars, ebVars, sgVars, nrVars, hxVars, hcVars,
            spVars, stVars, bdVars, seVars, cpVars>>

\* The parking lot's vehicles: one motorcycle, the cars PKCars, one truck.
PKPlates == {"m1", "t1"} \cup PKCars
PKTypeOf == [p \in PKPlates |-> CASE p = "m1" -> 0 [] p = "t1" -> 2 [] OTHER -> 1]

\* The strategy lesson's channel list.
STChannels == <<"email", "sms", "slack">>

CB == INSTANCE CircuitBreaker
        WITH Callers <- CBCallers, Threshold <- CBThreshold,
             Cooldown <- CBCooldown, MaxCalls <- CBMaxCalls,
             state <- cbState, failures <- cbFailures,
             sinceFailure <- cbSinceFailure, pc <- cbPc, calls <- cbCalls,
             ret <- cbRet
SH == INSTANCE UrlShortener
        WITH MaxPosts <- SHMaxPosts,
             urls <- shUrls, issued <- shIssued, resp <- shResp, posts <- shPosts
\* run_demo() and __main__ of the URL shortener: the demo thread sleeps
\* 0.5 s, POSTs its three urls, GETs each returned code, then
\* /r/missing, and ends the process with os._exit(0); main meanwhile binds
\* HTTPServer on :9002 and serves. Three six-character codes and one
\* eight-character fallback; "missing", seven characters, is no code
\* generate_code draws, so it stands where no code is.
SDUrlList == <<"go.dev/doc/effective_go", "pkg.go.dev/net/http", "example.com/very/long/path">>
SD == INSTANCE UrlShortener
        WITH Codes6 <- {"k1", "k2", "k3"}, Codes8 <- {"l1"},
             Urls <- {SDUrlList[i] : i \in 1..3}, NoCode <- "missing", MaxPosts <- 3,
             urls <- sdUrls, issued <- sdIssued, resp <- sdResp, posts <- sdPosts

\* main: HTTPServer(("", 9002), Handler), then serve_forever.
SDBind ==
    /\ ~sdBound /\ sdBound' = TRUE
    /\ UNCHANGED <<sdUrls, sdIssued, sdResp, sdPosts, sdPc, sdI, sdCodes>>

\* time.sleep(0.5) returns.
SDWake ==
    /\ sdPc = "sleep" /\ sdPc' = "post"
    /\ UNCHANGED <<sdUrls, sdIssued, sdResp, sdPosts, sdI, sdCodes, sdBound>>

\* urlopen of POST /shorten for urls[i]: refused before the server is
\* bound, the URLError ending the demo thread while main serves on;
\* otherwise do_POST answers and the code is appended to codes.
SDPost ==
    /\ sdPc = "post"
    /\ \/ /\ ~sdBound /\ sdPc' = "dead"
          /\ UNCHANGED <<sdUrls, sdIssued, sdResp, sdPosts, sdI, sdCodes>>
       \/ /\ sdBound
          /\ \E c \in SD!Codes : SD!Shorten(SDUrlList[sdI], c) /\ sdCodes' = Append(sdCodes, c)
          /\ sdI' = IF sdI = 3 THEN 1 ELSE sdI + 1
          /\ sdPc' = IF sdI = 3 THEN "get" ELSE "post"
    /\ UNCHANGED sdBound

\* urlopen of GET /r/<codes[i]>.
SDGet ==
    /\ sdPc = "get"
    /\ SD!Resolve(sdCodes[sdI])
    /\ sdI' = IF sdI = 3 THEN 1 ELSE sdI + 1
    /\ sdPc' = IF sdI = 3 THEN "missing" ELSE "get"
    /\ UNCHANGED <<sdCodes, sdBound>>

\* GET /r/missing: the 404 raised as HTTPError is caught, and os._exit(0).
SDMissing ==
    /\ sdPc = "missing"
    /\ SD!Resolve("missing")
    /\ sdPc' = "done"
    /\ UNCHANGED <<sdI, sdCodes, sdBound>>

SDNext ==
    \/ SDBind \/ SDWake \/ SDPost \/ SDGet \/ SDMissing
    \/ sdPc \in {"done", "dead"} /\ sdBound /\ UNCHANGED sdVars
PK == INSTANCE ParkingLot
        WITH Small <- PKSmall, Medium <- PKMedium, Large <- PKLarge,
             Plates <- PKPlates, TypeOf <- PKTypeOf, Pricing <- PKPricing,
             FlatRate <- PKFlatRate, HourTicks <- PKHourTicks,
             MaxTime <- PKMaxTime, MaxTickets <- PKMaxTickets,
             occupied <- pkOccupied, parkedIn <- pkParkedIn,
             tickets <- pkTickets, now <- pkNow, reply <- pkReply
DS == INSTANCE DecoratorSenders
        WITH MaxRetries <- DSMaxRetries, Delay <- DSDelay, Sends <- DSSends,
             Start <- DSStart, Oversleep <- DSOversleep, MaxGap <- DSMaxGap,
             part <- dsPart, failCount <- dsFailCount, attempt <- dsAttempt,
             outcome <- dsOutcome, clock <- dsClock, lastSent <- dsLastSent,
             sentAt <- dsSentAt, gap <- dsGap
EB == INSTANCE EventBus
        WITH Handlers <- EBHandlers, MaxSubs <- EBMaxSubs, MaxCalls <- EBMaxCalls,
             handlers <- ebHandlers, calls <- ebCalls
SG == INSTANCE Singleton
        WITH Recipients <- NRRecipients, MaxSends <- NRMaxSends,
             config <- sgConfig, loads <- sgLoads, sent <- sgSent, fakeCalls <- sgFakeCalls
NR == INSTANCE NotificationRepo
        WITH Ids <- NRIds, Recipients <- NRRecipients, MaxSends <- NRMaxSends,
             data <- nrData, order <- nrOrder, sends <- nrSends, reply <- nrReply
HX == INSTANCE Hexagonal
        WITH Ids <- NRIds, Recipients <- HXRecipients, MaxSends <- HXMaxSends,
             emails <- hxEmails, memData <- hxMemData, fakeCalls <- hxFakeCalls,
             fakeSaved <- hxFakeSaved, sends <- hxSends, reply <- hxReply
HC == INSTANCE HandlerChain
        WITH Tos <- HCTos, AtAddresses <- HCAtAddresses, Bodies <- HCBodies,
             None <- HCNone, MaxRuns <- HCMaxRuns,
             delivered <- hcDelivered, result <- hcResult, runs <- hcRuns
SP == INSTANCE SenderPatterns
        WITH Tos <- SPTos, Msgs <- SPMsgs, Kinds <- SPKinds, FromNum <- SPFromNum,
             MaxCalls <- SPMaxCalls, log <- spLog, fakeCalls <- spFakeCalls, n <- spN
ST == INSTANCE Strategy
        WITH Channels <- STChannels, MaxSends <- STMaxSends,
             strategy <- stStrategy, counter <- stCounter, routed <- stRouted, sends <- stSends
BD == INSTANCE Builder
        WITH Timeouts <- BDTimeouts, Retries <- BDRetries, MaxSteps <- BDMaxSteps,
             builder <- bdBuilder, service <- bdService, printed <- bdPrinted, steps <- bdSteps

\* main() of parkinglot.py: create_spots(small=2, medium=3, large=1) with
\* HourlyPricing and NearestAvailable, the five vehicles parked in turn,
\* the occupancy, TRUCK-02 refused, three unparks and the occupancy again.
PDTypeOf == [p \in {"MOTO-001", "CAR-001", "CAR-002", "TRUCK-01", "MOTO-002", "TRUCK-02"} |->
                CASE p \in {"MOTO-001", "MOTO-002"} -> 0
                  [] p \in {"TRUCK-01", "TRUCK-02"} -> 2
                  [] OTHER -> 1]
PDCalls ==
    << <<"park", "MOTO-001">>, <<"park", "CAR-001">>, <<"park", "CAR-002">>,
       <<"park", "TRUCK-01">>, <<"park", "MOTO-002">>, <<"occupancy", "">>,
       <<"park", "TRUCK-02">>,
       <<"unpark", "CAR-001">>, <<"unpark", "MOTO-001">>, <<"unpark", "TRUCK-01">>,
       <<"occupancy", "">> >>
PD == INSTANCE ParkingLot
        WITH Small <- 2, Medium <- 3, Large <- 1,
             Plates <- DOMAIN PDTypeOf, TypeOf <- PDTypeOf, Pricing <- "hourly",
             FlatRate <- PKFlatRate, HourTicks <- PKHourTicks,
             MaxTime <- PKMaxTime, MaxTickets <- Len(PDCalls),
             occupied <- pdOccupied, parkedIn <- pdParkedIn,
             tickets <- pdTickets, now <- pdNow, reply <- pdReply

\* main's next call, its RuntimeError caught and printed; the clock runs
\* between calls. After the last one main returns.
PDCall ==
    /\ pdStep <= Len(PDCalls)
    /\ LET c == PDCalls[pdStep]
       IN CASE c[1] = "park"   -> PD!Park(c[2])
            [] c[1] = "unpark" -> PD!Unpark(c[2])
            [] OTHER           -> PD!GetOccupancy
    /\ pdStep' = pdStep + 1
PDNext ==
    \/ PDCall
    \/ PD!Tick /\ UNCHANGED pdStep
    \/ pdStep > Len(PDCalls) /\ UNCHANGED pdVars

\* Section 3 of main() in 06_reliability_patterns_mini: one thread calls
\* CircuitBreaker(threshold=3, cooldown_sec=1.0) on FlakyService(5) eight
\* times with time.sleep(0.2) after each, sleeps 1.2 s more and calls once
\* again. Time is in ticks of 0.1 s; a sleep lasts at least its ticks and
\* may overrun, the clock running on while main runs; bmLate records that
\* some tick fell outside the sleeps' own.
BM == INSTANCE CircuitBreaker
        WITH Callers <- {"main"}, Threshold <- 3, Cooldown <- 10, MaxCalls <- 9,
             state <- bmState, failures <- bmFailures,
             sinceFailure <- bmSinceFailure, pc <- bmPc, calls <- bmCalls,
             ret <- bmRet

\* After call i: the loop's sleep(0.2), and after the eighth the 1.2 s of
\* "waiting for cooldown"; the call after the cooldown ends main.
BMAfterCall ==
    IF bmI = 9 THEN bmMpc' = "done" /\ bmSleep' = 0
    ELSE bmMpc' = "sleep" /\ bmSleep' = IF bmI = 8 THEN 14 ELSE 2

\* cb.call(svc2.call) up to fn: rejected while OPEN within the cooldown,
\* otherwise svc2.call runs.
BMCall ==
    /\ bmMpc = "call"
    /\ \/ BM!Reject("main") /\ BMAfterCall
       \/ (BM!Probe("main") \/ BM!Admit("main")) /\ bmMpc' = "fn" /\ UNCHANGED bmSleep
    /\ UNCHANGED <<bmI, bmCount, bmLate>>

\* FlakyService.call: call_count += 1, raising while call_count <= 5; the
\* breaker records the outcome.
BMFn ==
    /\ bmMpc = "fn"
    /\ bmCount' = bmCount + 1
    /\ IF bmCount' <= 5 THEN BM!RecordFailure("main") ELSE BM!RecordSuccess("main")
    /\ BMAfterCall
    /\ UNCHANGED <<bmI, bmLate>>

BMWake ==
    /\ bmMpc = "sleep" /\ bmSleep = 0
    /\ bmMpc' = "call" /\ bmI' = bmI + 1
    /\ UNCHANGED <<bmState, bmFailures, bmSinceFailure, bmPc, bmCalls, bmRet, bmSleep, bmCount,
                   bmLate>>

BMTick ==
    /\ bmMpc # "done"
    /\ BM!Tick
    /\ bmSleep' = IF bmSleep > 0 THEN bmSleep - 1 ELSE 0
    /\ bmLate' = (bmLate \/ bmSleep = 0)
    /\ UNCHANGED <<bmMpc, bmI, bmCount>>

BMNext ==
    \/ BMCall \/ BMFn \/ BMWake \/ BMTick
    \/ bmMpc = "done" /\ UNCHANGED bmVars

SE == INSTANCE StopEvent
        WITH Children <- SEChildren, Steps <- SESteps, Late <- SELate,
             stop <- seStop, cpc <- seCpc, step <- seStep, outcome <- seOutcome,
             late <- seLate, mainPc <- seMainPc, part <- sePart, now <- seNow,
             timers <- seTimers, jstep <- seJstep, jout <- seJout
CP == INSTANCE ConcurrencyPerf
        WITH TaskCounts <- CPTaskCounts, Workers <- CPWorkers, Items <- CPItems,
             MaxSize <- CPMaxSize, Consumers <- CPConsumers,
             mpc <- cpMpc, tasks <- cpTasks, uStarted <- cpUStarted, uDone <- cpUDone,
             uJoined <- cpUJoined, pTaken <- cpPTaken, pRunning <- cpPRunning,
             pDone <- cpPDone, pCollected <- cpPCollected, q <- cpQ,
             unfinished <- cpUnfinished, nextItem <- cpNextItem, produced <- cpProduced,
             consumed <- cpConsumed, ppc <- cpPpc, cpc <- cpCpc, ctmp <- cpCtmp,
             joined <- cpJoined

Progs == {"cb", "bm", "sh", "sd", "pk", "pd", "ds", "eb", "sg", "nr", "hx", "hc", "sp", "st", "bd", "se", "cp"}

\* A step of one service while the others stay as they are.
InCB(A) == prog = "cb" /\ A /\ UNCHANGED <<prog, bmVars, shVars, sdVars, pkVars, pdVars, dsVars,
        ebVars, sgVars, nrVars, hxVars, hcVars, spVars, stVars, bdVars, seVars, cpVars>>
InBM(A) == prog = "bm" /\ A /\ UNCHANGED <<prog, cbVars, shVars, sdVars, pkVars, pdVars, dsVars,
        ebVars, sgVars, nrVars, hxVars, hcVars, spVars, stVars, bdVars, seVars, cpVars>>
InSH(A) == prog = "sh" /\ A /\ UNCHANGED <<prog, cbVars, bmVars, sdVars, pkVars, pdVars, dsVars,
        ebVars, sgVars, nrVars, hxVars, hcVars, spVars, stVars, bdVars, seVars, cpVars>>
InSD(A) == prog = "sd" /\ A /\ UNCHANGED <<prog, cbVars, bmVars, shVars, pkVars, pdVars, dsVars,
        ebVars, sgVars, nrVars, hxVars, hcVars, spVars, stVars, bdVars, seVars, cpVars>>
InPK(A) == prog = "pk" /\ A /\ UNCHANGED <<prog, cbVars, bmVars, shVars, sdVars, pdVars, dsVars,
        ebVars, sgVars, nrVars, hxVars, hcVars, spVars, stVars, bdVars, seVars, cpVars>>
InPD(A) == prog = "pd" /\ A /\ UNCHANGED <<prog, cbVars, bmVars, shVars, sdVars, pkVars, dsVars,
        ebVars, sgVars, nrVars, hxVars, hcVars, spVars, stVars, bdVars, seVars, cpVars>>
InDS(A) == prog = "ds" /\ A /\ UNCHANGED <<prog, cbVars, bmVars, shVars, sdVars, pkVars, pdVars,
        ebVars, sgVars, nrVars, hxVars, hcVars, spVars, stVars, bdVars, seVars, cpVars>>
InEB(A) == prog = "eb" /\ A /\ UNCHANGED <<prog, cbVars, bmVars, shVars, sdVars, pkVars, pdVars,
        dsVars, sgVars, nrVars, hxVars, hcVars, spVars, stVars, bdVars, seVars, cpVars>>
InSG(A) == prog = "sg" /\ A /\ UNCHANGED <<prog, cbVars, bmVars, shVars, sdVars, pkVars, pdVars,
        dsVars, ebVars, nrVars, hxVars, hcVars, spVars, stVars, bdVars, seVars, cpVars>>
InNR(A) == prog = "nr" /\ A /\ UNCHANGED <<prog, cbVars, bmVars, shVars, sdVars, pkVars, pdVars,
        dsVars, ebVars, sgVars, hxVars, hcVars, spVars, stVars, bdVars, seVars, cpVars>>
InHX(A) == prog = "hx" /\ A /\ UNCHANGED <<prog, cbVars, bmVars, shVars, sdVars, pkVars, pdVars,
        dsVars, ebVars, sgVars, nrVars, hcVars, spVars, stVars, bdVars, seVars, cpVars>>
InHC(A) == prog = "hc" /\ A /\ UNCHANGED <<prog, cbVars, bmVars, shVars, sdVars, pkVars, pdVars,
        dsVars, ebVars, sgVars, nrVars, hxVars, spVars, stVars, bdVars, seVars, cpVars>>
InSP(A) == prog = "sp" /\ A /\ UNCHANGED <<prog, cbVars, bmVars, shVars, sdVars, pkVars, pdVars,
        dsVars, ebVars, sgVars, nrVars, hxVars, hcVars, stVars, bdVars, seVars, cpVars>>
InST(A) == prog = "st" /\ A /\ UNCHANGED <<prog, cbVars, bmVars, shVars, sdVars, pkVars, pdVars,
        dsVars, ebVars, sgVars, nrVars, hxVars, hcVars, spVars, bdVars, seVars, cpVars>>
InBD(A) == prog = "bd" /\ A /\ UNCHANGED <<prog, cbVars, bmVars, shVars, sdVars, pkVars, pdVars,
        dsVars, ebVars, sgVars, nrVars, hxVars, hcVars, spVars, stVars, seVars, cpVars>>
InSE(A) == prog = "se" /\ A /\ UNCHANGED <<prog, cbVars, bmVars, shVars, sdVars, pkVars, pdVars,
        dsVars, ebVars, sgVars, nrVars, hxVars, hcVars, spVars, stVars, bdVars, cpVars>>
InCP(A) == prog = "cp" /\ A /\ UNCHANGED <<prog, cbVars, bmVars, shVars, sdVars, pkVars, pdVars,
        dsVars, ebVars, sgVars, nrVars, hxVars, hcVars, spVars, stVars, bdVars, seVars>>

Init ==
    /\ prog \in Progs
    /\ CB!Init /\ BM!Init /\ bmMpc = "call" /\ bmI = 1 /\ bmSleep = 0 /\ bmCount = 0
       /\ bmLate = FALSE
    /\ SH!Init /\ SD!Init /\ sdPc = "sleep" /\ sdI = 1 /\ sdCodes = <<>> /\ sdBound = FALSE
    /\ PK!Init /\ PD!Init /\ pdStep = 1
    /\ DS!Init /\ EB!Init /\ SG!Init /\ NR!Init /\ HX!Init /\ HC!Init
    /\ SP!Init /\ ST!Init /\ BD!Init /\ SE!Init /\ CP!Init

Next ==
    \/ InCB(CB!Next) \/ InBM(BMNext) \/ InSH(SH!Next) \/ InSD(SDNext)
    \/ InPK(PK!Next) \/ InPD(PDNext)
    \/ InDS(DS!Next) \/ InEB(EB!Next) \/ InSG(SG!Next) \/ InNR(NR!Next)
    \/ InHX(HX!Next) \/ InHC(HC!Next)
    \/ InSP(SP!Next) \/ InST(ST!Next) \/ InBD(BD!Next) \/ InSE(SE!Next) \/ InCP(CP!Next)

Spec == Init /\ [][Next]_allVars

\* The two breaker threads run the same code, and so are interchangeable;
\* so are two cars, which the lot tells apart only by their tickets.
CBSymmetry == Permutations(CBCallers) \cup Permutations(PKCars)

\* The type invariant of each service.
TypeOK ==
    /\ prog \in Progs
    /\ CB!TypeOK /\ BM!TypeOK /\ bmMpc \in {"call", "fn", "sleep", "done"}
    /\ bmI \in 1..9 /\ bmSleep \in 0..14 /\ bmCount \in 0..9 /\ bmLate \in BOOLEAN
    /\ SH!TypeOK /\ SD!TypeOK /\ sdPc \in {"sleep", "post", "get", "missing", "done", "dead"}
    /\ sdI \in 1..3 /\ Len(sdCodes) <= 3 /\ sdBound \in BOOLEAN
    /\ PK!TypeOK /\ PD!TypeOK /\ pdStep \in 1..Len(PDCalls) + 1
    /\ DS!TypeOK /\ EB!TypeOK /\ SG!TypeOK /\ NR!TypeOK /\ HX!TypeOK /\ HC!TypeOK
    /\ SP!TypeOK /\ ST!TypeOK /\ BD!TypeOK /\ SE!TypeOK /\ CP!TypeOK

\* Circuit breaker: the breaker is CLOSED exactly when fewer than
\* `threshold` failures are counted, whatever the callers interleave.
StateMatchesFailures ==
    /\ prog = "cb" => CB!StateMatchesFailures
    /\ prog = "bm" => BM!StateMatchesFailures

\* Reliability demo: the breaker that the third failure opens rejects
\* every call of its cooldown. On time, calls 4 to 8 come 0.2 s apart and
\* the eighth exactly 1.0 s after that failure, which the strict test
\* `time.time() - last_failure_time > cooldown` still rejects; and the
\* call after the 1.2 s wait is let through however late the sleeps ran,
\* a late probe's failure having restarted the cooldown.
DemoRespectsCooldown ==
    prog = "bm" =>
        /\ ~bmLate /\ bmI \in 4..8 /\ bmMpc = "sleep" => bmRet["main"] = "open"
        /\ bmMpc = "done" => bmRet["main"] # "open"

\* URL shortener: a code from the checked generation path never replaces
\* another url.
CheckedCodesUnique ==
    /\ prog = "sh" => SH!CheckedCodesUnique
    /\ prog = "sd" => SD!CheckedCodesUnique

\* Parking lot: NearestAvailable.allocate picks the nearest fitting spot.
AllocateIsNearestFit ==
    /\ prog = "pk" => PK!AllocateIsNearestFit
    /\ prog = "pd" => PD!AllocateIsNearestFit

\* Parking lot: spots and active tickets agree after any park/unpark run.
SpotsMatchTickets ==
    /\ prog = "pk" => PK!SpotsMatchTickets
    /\ prog = "pd" => PD!SpotsMatchTickets

\* Parking lot: HourlyPricing charges every started hour and no more.
FeeCoversStay ==
    /\ prog = "pk" => PK!FeeCoversStay
    /\ prog = "pd" => PD!FeeCoversStay

\* Parking lot: ParkingLot.park never issues a second active ticket for a
\* plate that is already parked.
OneActiveTicketPerPlate == prog = "pk" => PK!OneActiveTicketPerPlate

\* Decorators: RateLimitSender spaces its sends by at least `delay`.
SendsSpacedByDelay == prog = "ds" => DS!SendsSpacedByDelay

\* Cancellation: job1 and job2 are cancelled within a step of their
\* deadline whatever the loop's lateness, and no child thread prints more
\* than one step after stop.set().
AtMostOneStepAfterStop == prog = "se" => SE!AtMostOneStepAfterStop
=============================================================================
