------------------------------ MODULE Pipeline ------------------------------
(***************************************************************************)
(* The asyncio pipelines of 06_concurrency/12_fanout_fanin_pipeline/      *)
(* main.py. One event loop runs every task, so a task runs alone from one *)
(* suspension point to the next; the steps below are those stretches:     *)
(*   - the simple pipeline generate -> square_worker -> filter_even ->     *)
(*     drain, awaited one stage after the other with no other task, is   *)
(*     one deterministic step;                                           *)
(*   - the fan-out: generate(Lo, Hi), then Workers square_worker tasks on *)
(*     the same queue, gathered, then SENTINEL into merged_q and drain.  *)
(* generate puts into an unbounded queue, which never suspends, so it    *)
(* finishes before the workers start.                                     *)
(***************************************************************************)
EXTENDS Naturals, Sequences, SequencesExt

CONSTANTS Workers, Lo, Hi

SENTINEL == 0   \* None; the generated numbers start at Lo >= 1

VARIABLES
    nums,      \* nums_q2
    merged,    \* merged_q
    mainPc,    \* where main() is
    wpc,       \* wpc[w]: where square_worker w is
    val,       \* val[w]: the number worker w is squaring
    simple,    \* what the simple pipeline printed
    drained    \* what drain(merged_q) returned so far

vars == <<nums, merged, mainPc, wpc, val, simple, drained>>

\* generate(lo, hi): the numbers lo..hi, then SENTINEL.
Generate(lo, hi) == [i \in 1..(hi - lo + 1) |-> lo + i - 1] \o <<SENTINEL>>

\* A lone square_worker up to the SENTINEL, then the SENTINEL main() puts.
SquareStage(s) ==
    LET upTo == SelectInSeq(s, LAMBDA v : v = SENTINEL) - 1
    IN [i \in 1..upTo |-> s[i] * s[i]] \o <<SENTINEL>>

\* filter_even: the even values, then SENTINEL.
FilterEven(s) ==
    LET upTo == SelectInSeq(s, LAMBDA v : v = SENTINEL) - 1
    IN SelectSeq(SubSeq(s, 1, upTo), LAMBDA v : v % 2 = 0) \o <<SENTINEL>>

\* drain: everything before the SENTINEL.
Drain(s) == SubSeq(s, 1, SelectInSeq(s, LAMBDA v : v = SENTINEL) - 1)

Init ==
    /\ nums = <<>>
    /\ merged = <<>>
    /\ mainPc = "simple"
    /\ wpc = [w \in Workers |-> "idle"]
    /\ val = [w \in Workers |-> 0]
    /\ simple = <<>>
    /\ drained = <<>>

\* === Simple pipeline ===: generate(1, 10), square, filter, drain.
SimplePipeline ==
    /\ mainPc = "simple"
    /\ simple' = Drain(FilterEven(SquareStage(Generate(Lo, Hi))))
    /\ mainPc' = "fanout"
    /\ UNCHANGED <<nums, merged, wpc, val, drained>>

\* generate(Lo, Hi) and create_task for each worker.
StartFanOut ==
    /\ mainPc = "fanout"
    /\ nums' = Generate(Lo, Hi)
    /\ wpc' = [w \in Workers |-> "get"]
    /\ mainPc' = "gather"
    /\ UNCHANGED <<merged, val, simple, drained>>

\* Mutant: the SENTINEL is not re-posted for the other workers.
WorkerGetNoRepost(w) ==
    /\ wpc[w] = "get"
    /\ nums # <<>>
    /\ IF Head(nums) = SENTINEL
       THEN /\ nums' = Tail(nums)
            /\ wpc' = [wpc EXCEPT ![w] = "exited"]
            /\ UNCHANGED val
       ELSE /\ nums' = Tail(nums)
            /\ val' = [val EXCEPT ![w] = Head(nums)]
            /\ wpc' = [wpc EXCEPT ![w] = "sleep"]
    /\ UNCHANGED <<merged, mainPc, simple, drained>>

\* square_worker: v = await in_q.get() (suspends while in_q is empty); on
\* SENTINEL put it back and break, else await asyncio.sleep(0.02).
WorkerGet(w) ==
    /\ wpc[w] = "get"
    /\ nums # <<>>
    /\ IF Head(nums) = SENTINEL
       THEN /\ nums' = Append(Tail(nums), SENTINEL)
            /\ wpc' = [wpc EXCEPT ![w] = "exited"]
            /\ UNCHANGED val
       ELSE /\ nums' = Tail(nums)
            /\ val' = [val EXCEPT ![w] = Head(nums)]
            /\ wpc' = [wpc EXCEPT ![w] = "sleep"]
    /\ UNCHANGED <<merged, mainPc, simple, drained>>

\* Mutant: the value forwarded unsquared.
WorkerPutUnsquared(w) ==
    /\ wpc[w] = "sleep"
    /\ merged' = Append(merged, val[w])
    /\ wpc' = [wpc EXCEPT ![w] = "get"]
    /\ UNCHANGED <<nums, mainPc, val, simple, drained>>

\* After the sleep: await out_q.put(v * v), back to the get.
WorkerPut(w) ==
    /\ wpc[w] = "sleep"
    /\ merged' = Append(merged, val[w] * val[w])
    /\ wpc' = [wpc EXCEPT ![w] = "get"]
    /\ UNCHANGED <<nums, mainPc, val, simple, drained>>

\* Mutant: the SENTINEL put into merged_q without awaiting gather.
GatherSkipped ==
    /\ mainPc = "gather"
    /\ merged' = Append(merged, SENTINEL)
    /\ mainPc' = "drain"
    /\ UNCHANGED <<nums, wpc, val, simple, drained>>

\* await asyncio.gather(*workers); await merged_q.put(SENTINEL)
Gather ==
    /\ mainPc = "gather"
    /\ \A w \in Workers : wpc[w] = "exited"
    /\ merged' = Append(merged, SENTINEL)
    /\ mainPc' = "drain"
    /\ UNCHANGED <<nums, wpc, val, simple, drained>>

\* drain(merged_q): one get per step until the SENTINEL.
DrainStep ==
    /\ mainPc = "drain"
    /\ merged # <<>>
    /\ merged' = Tail(merged)
    /\ IF Head(merged) = SENTINEL
       THEN mainPc' = "done" /\ UNCHANGED drained
       ELSE drained' = Append(drained, Head(merged)) /\ UNCHANGED mainPc
    /\ UNCHANGED <<nums, wpc, val, simple>>

Terminated ==
    /\ mainPc = "done"
    /\ UNCHANGED vars

Next ==
    \/ SimplePipeline \/ StartFanOut \/ Gather \/ DrainStep
    \/ \E w \in Workers : WorkerGet(w) \/ WorkerPut(w)
    \/ Terminated

\* The event loop resumes every task whose await can complete.
Fairness ==
    /\ WF_vars(SimplePipeline) /\ WF_vars(StartFanOut)
    /\ WF_vars(Gather) /\ WF_vars(DrainStep)
    /\ \A w \in Workers : WF_vars(WorkerGet(w)) /\ WF_vars(WorkerPut(w))

Spec == Init /\ [][Next]_vars /\ Fairness

\* Properties

Numbers == Lo..Hi

TypeOK ==
    /\ nums \in Seq(Numbers \cup {SENTINEL})
    /\ merged \in Seq({x * x : x \in Numbers} \cup {SENTINEL})
    /\ mainPc \in {"simple", "fanout", "gather", "drain", "done"}
    /\ wpc \in [Workers -> {"idle", "get", "sleep", "exited"}]

\* When main() is done, the simple pipeline printed the even squares in
\* ascending order, and the fan-in drained the square of every generated
\* number exactly once (in any order): no value is lost behind the
\* SENTINEL and none is squared twice.
PipelinesDeliverAll ==
    mainPc = "done" =>
        /\ simple = SelectSeq([i \in 1..(Hi - Lo + 1) |-> (Lo + i - 1) * (Lo + i - 1)],
                              LAMBDA v : v % 2 = 0)
        /\ Len(drained) = Hi - Lo + 1
        /\ ToSet(drained) = {x * x : x \in Numbers}

\* Every square_worker leaves its loop (each one sees the re-posted
\* SENTINEL), gather returns and the drain ends.
FanOutTerminates ==
    <>(mainPc = "done")
=============================================================================
