---------------------------- MODULE HandlerChain ----------------------------
(***************************************************************************)
(* 10_design_patterns_in_go/10_pipeline_and_handlers_chain/main.py.       *)
(* Pipeline.run calls each handler on the message in order and returns    *)
(* the first error, short-circuiting, or None. ValidateHandler's three    *)
(* tests, EnrichHandler setting the timestamp and metadata, LogHandler    *)
(* and SendHandler (which delivers, with "?" for a missing timestamp).    *)
(* main runs the pipeline on any message with `to` and `body` from small  *)
(* sets; "" is the empty string and AtAddresses the `to`s containing "@". *)
(***************************************************************************)
EXTENDS Naturals, Sequences

CONSTANTS
    Tos,          \* Message.to values
    AtAddresses,  \* the ones containing "@"
    Bodies,       \* Message.body values
    None,         \* Python's None
    MaxRuns       \* bound on the pipeline runs

Messages == [to : Tos, body : Bodies, enriched : BOOLEAN]

\* The handlers of main's Pipeline, in order.
Chain == <<"validate", "enrich", "log", "send">>

VARIABLES
    delivered,  \* [to, stamped] of every message SendHandler delivered
    result,     \* what the last run returned
    runs        \* runs so far

vars == <<delivered, result, runs>>

\* ValidateHandler.handle: the first failing test's error, or None.
ValidateError(m) ==
    CASE m.to = ""              -> "validation: 'to' is required"
      [] m.body = ""            -> "validation: 'body' is required"
      [] m.to \notin AtAddresses -> "validation: 'to' must be an email"
      [] OTHER                  -> None

\* handle(msg) of handler h: [err, msg, out], out what SendHandler delivered.
Handle(h, m) ==
    CASE h = "validate" -> [err |-> ValidateError(m), msg |-> m, out |-> <<>>]
      [] h = "enrich"   -> [err |-> None, msg |-> [m EXCEPT !.enriched = TRUE], out |-> <<>>]
      [] h = "send"     -> [err |-> None, msg |-> m, out |-> <<[to |-> m.to, stamped |-> m.enriched]>>]
      [] OTHER          -> [err |-> None, msg |-> m, out |-> <<>>]

\* Pipeline.run from handler i on: each handler in turn, returning the
\* first error; the deliveries made on the way.
RECURSIVE RunFrom(_, _)
RunFrom(i, m) ==
    IF i > Len(Chain) THEN [err |-> None, out |-> <<>>]
    ELSE LET r == Handle(Chain[i], m)
         IN IF r.err # None THEN [err |-> r.err, out |-> r.out]
            ELSE LET rest == RunFrom(i + 1, r.msg)
                 IN [err |-> rest.err, out |-> r.out \o rest.out]

Run(m) == RunFrom(1, m)

Init ==
    /\ delivered = <<>>
    /\ result = None
    /\ runs = 0

\* main: err = pipeline.run(Message(to, body)).
RunPipeline(to, body) ==
    /\ runs < MaxRuns
    /\ LET r == Run([to |-> to, body |-> body, enriched |-> FALSE])
       IN /\ result' = r.err
          /\ delivered' = delivered \o r.out
    /\ runs' = runs + 1

\* main has made its last run.
Done ==
    /\ runs = MaxRuns
    /\ UNCHANGED vars

Next == Done \/ \E to \in Tos, body \in Bodies : RunPipeline(to, body)

Spec == Init /\ [][Next]_vars

\* Properties

\* What the chain should do, stated without the loop: a message that
\* passes validation is delivered once, enriched; any other is not
\* delivered and gets validation's error.
Reference(m) ==
    IF ValidateError(m) = None
    THEN [err |-> None, out |-> <<[to |-> m.to, stamped |-> TRUE]>>]
    ELSE [err |-> ValidateError(m), out |-> <<>>]

\* The type invariant, with Run checked against the reference on every
\* message, and every delivery enriched and to an e-mail address.
TypeOK ==
    /\ runs \in 0..MaxRuns
    /\ \A m \in Messages : ~m.enriched => Run(m) = Reference(m)
    /\ \A k \in 1..Len(delivered) : delivered[k].stamped /\ delivered[k].to \in AtAddresses
=============================================================================
