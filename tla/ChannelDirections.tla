-------------------------- MODULE ChannelDirections --------------------------
(***************************************************************************)
(* 06_concurrency/04_channel_directions/main.py. Example 1: a thread runs *)
(* produce(ch, 5) while main runs consume(ch), then joins it. Example 2:  *)
(* produce(raw, 4) and transform(raw, doubled) run in two threads while   *)
(* main consumes doubled, then joins both. Example 3: generate_nums(1, 5) *)
(* starts _fill and main reads until the SENTINEL; _fill is not joined.   *)
(* Every queue.Queue is unbounded, so a put never blocks, and the SENTINEL *)
(* ends each reader: transform passes it on before it stops.             *)
(***************************************************************************)
EXTENDS Naturals, Sequences

CONSTANTS
    Sentinel  \* SENTINEL = None

VARIABLES
    ex,    \* the example main is in, 4 when main has returned
    mpc,   \* main: "consume", "join1", "join2"
    raw,   \* example 2's raw queue
    out,   \* the queue main reads: ch, doubled or nums
    ppc,   \* items the example's producer (produce or _fill) has put
    tpc,   \* transform: "run" or "done"
    got    \* the values main has printed, in order

vars == <<ex, mpc, raw, out, ppc, tpc, got>>

\* What each example's producer puts: produce(q, 5), produce(raw, 4) and
\* _fill over range(1, 6), each followed by the SENTINEL.
Items(e) ==
    LET vals == CASE e = 1 -> [i \in 1..5 |-> i * 10]
                  [] e = 2 -> [i \in 1..4 |-> i * 10]
                  [] OTHER -> [i \in 1..5 |-> i]
    IN Append(vals, Sentinel)

\* What main prints over the three examples.
Expected == <<10, 20, 30, 40, 50>> \o <<20, 40, 60, 80>> \o <<1, 2, 3, 4, 5>>

Init ==
    /\ ex = 1
    /\ mpc = "consume"
    /\ raw = <<>>
    /\ out = <<>>
    /\ ppc = 0
    /\ tpc = "run"
    /\ got = <<>>

\* produce / _fill: the next put, into raw in example 2.
Produce ==
    /\ ex \in 1..3
    /\ ppc < Len(Items(ex))
    /\ IF ex = 2
       THEN /\ raw' = Append(raw, Items(ex)[ppc + 1]) /\ UNCHANGED out
       ELSE /\ out' = Append(out, Items(ex)[ppc + 1]) /\ UNCHANGED raw
    /\ ppc' = ppc + 1
    /\ UNCHANGED <<ex, mpc, tpc, got>>

\* Mutant: transform stopping on the SENTINEL without passing it on.
TransformDropsSentinel ==
    /\ ex = 2 /\ tpc = "run" /\ raw # <<>>
    /\ raw' = Tail(raw)
    /\ IF Head(raw) = Sentinel
       THEN /\ tpc' = "done" /\ UNCHANGED out
       ELSE /\ out' = Append(out, Head(raw) * 2) /\ UNCHANGED tpc
    /\ UNCHANGED <<ex, mpc, ppc, got>>

\* transform: one get from raw; the SENTINEL is put on doubled and ends
\* the thread, a value is put doubled.
Transform ==
    /\ ex = 2 /\ tpc = "run" /\ raw # <<>>
    /\ raw' = Tail(raw)
    /\ IF Head(raw) = Sentinel
       THEN /\ out' = Append(out, Sentinel) /\ tpc' = "done"
       ELSE /\ out' = Append(out, Head(raw) * 2) /\ UNCHANGED tpc
    /\ UNCHANGED <<ex, mpc, ppc, got>>

\* The example after ex, with fresh queues and threads.
Advance ==
    /\ ex' = ex + 1
    /\ mpc' = "consume"
    /\ ppc' = 0
    /\ tpc' = "run"

\* main's read loop (consume, or example 3's loop): one blocking get; the
\* SENTINEL ends it, to the joins, or out of main in example 3.
Consume ==
    /\ ex \in 1..3 /\ mpc = "consume" /\ out # <<>>
    /\ out' = Tail(out)
    /\ IF Head(out) # Sentinel
       THEN /\ got' = Append(got, Head(out))
            /\ UNCHANGED <<ex, mpc, ppc, tpc>>
       ELSE /\ UNCHANGED got
            /\ IF ex = 3 THEN Advance ELSE /\ mpc' = "join1" /\ UNCHANGED <<ex, ppc, tpc>>
    /\ UNCHANGED raw

\* t.join() / t1.join(): the producer has put its SENTINEL.
JoinProducer ==
    /\ mpc = "join1"
    /\ ppc = Len(Items(ex))
    /\ IF ex = 2 THEN /\ mpc' = "join2" /\ UNCHANGED <<ex, ppc, tpc>> ELSE Advance
    /\ UNCHANGED <<raw, out, got>>

\* t2.join(): transform has returned.
JoinTransform ==
    /\ mpc = "join2"
    /\ tpc = "done"
    /\ Advance
    /\ UNCHANGED <<raw, out, got>>

\* main has returned (and _fill with it).
Terminated ==
    /\ ex = 4
    /\ UNCHANGED vars

Next ==
    \/ Produce \/ Transform \/ Consume \/ JoinProducer \/ JoinTransform
    \/ Terminated

\* Each thread that can run is eventually scheduled.
Fairness ==
    /\ WF_vars(Produce) /\ WF_vars(Transform) /\ WF_vars(Consume)
    /\ WF_vars(JoinProducer) /\ WF_vars(JoinTransform)

Spec == Init /\ [][Next]_vars /\ Fairness

\* Properties

TypeOK ==
    /\ ex \in 1..4
    /\ mpc \in {"consume", "join1", "join2"}
    /\ ppc \in 0..6
    /\ tpc \in {"run", "done"}
    /\ Len(got) <= Len(Expected)

\* main returns having printed every value of the three examples, each
\* doubled once in example 2 and all in the order produced: the SENTINEL
\* reaches every reader, through transform too, so no loop and no join
\* waits forever.
AllExamplesDeliver == <>(ex = 4 /\ got = Expected)
=============================================================================
