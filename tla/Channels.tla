------------------------------ MODULE Channels ------------------------------
(***************************************************************************)
(* 06_concurrency/02_channels_basics/main.py. Each example gives main a  *)
(* queue.Queue and, in examples 1, 2 and 4, a thread that puts into it:  *)
(* example 1 one message, example 2 the producer's Count numbers and the *)
(* SENTINEL, example 4 compute's a + b. main gets: once in examples 1   *)
(* and 4, until the SENTINEL in example 2. Example 3 has no thread: a put *)
(* and two get_nowait calls, the second meeting queue.Empty.             *)
(***************************************************************************)
EXTENDS Naturals, Sequences

CONSTANTS
    Msg,       \* "hello from thread"
    Count,     \* range(1, 6)
    Sentinel,  \* SENTINEL = None
    Empty      \* the queue.Empty of example 3's second get_nowait

VARIABLES
    ex,    \* the example main is in, 5 when main has returned
    q,     \* the example's queue
    put,   \* how many items the example's thread has put
    got    \* what main has got, in order, over all examples

vars == <<ex, q, put, got>>

\* What the thread of example e puts, in order.
Items(e) ==
    CASE e = 1 -> <<Msg>>
      [] e = 2 -> [i \in 1..Count + 1 |-> IF i <= Count THEN i ELSE Sentinel]
      [] e = 4 -> <<10 + 20>>
      [] OTHER -> <<>>

Init ==
    /\ ex = 1
    /\ q = <<>>
    /\ put = 0
    /\ got = <<>>

\* The thread's next q.put / nums.put.
Put ==
    /\ put < Len(Items(ex))
    /\ q' = Append(q, Items(ex)[put + 1])
    /\ put' = put + 1
    /\ UNCHANGED <<ex, got>>

\* main's blocking get: in example 2 the loop goes on until the SENTINEL;
\* in examples 1 and 4 one get ends the example.
Get ==
    /\ ex \in {1, 2, 4}
    /\ q # <<>>
    /\ got' = Append(got, Head(q))
    /\ q' = Tail(q)
    /\ IF ex = 2 /\ Head(q) # Sentinel
       THEN UNCHANGED <<ex, put>>
       ELSE /\ ex' = ex + 1
            /\ put' = 0

\* Example 3 in one step: q2.put(42), get_nowait() gets 42, the second
\* get_nowait() raises queue.Empty.
Example3 ==
    /\ ex = 3
    /\ got' = got \o <<42, Empty>>
    /\ ex' = 4
    /\ UNCHANGED <<q, put>>

\* main has returned.
Terminated ==
    /\ ex = 5
    /\ UNCHANGED vars

Next == Put \/ Get \/ Example3 \/ Terminated

Spec == Init /\ [][Next]_vars

\* Properties

\* The type invariant, with the queue's FIFO promise: the queue holds
\* exactly the thread's items main has not got yet.
TypeOK ==
    /\ ex \in 1..5
    /\ put \in 0..Count + 1
    /\ Len(got) <= Count + 5
    /\ ex \in {1, 2, 4} => q = SubSeq(Items(ex), put - Len(q) + 1, put)
=============================================================================
