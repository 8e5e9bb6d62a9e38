------------------------------ MODULE Builder ------------------------------
(***************************************************************************)
(* 10_design_patterns_in_go/09_builder_vs_functional_options/main.py. A  *)
(* NotificationService is built either with keyword arguments over the   *)
(* defaults timeout=5.0, retries=1, verbose=False, or by a ServiceBuilder *)
(* whose timeout(t), retries(n) and verbose() setters each overwrite one  *)
(* field and whose build() passes all three on. notify prints the        *)
(* settings first when verbose. The client builds services either way,    *)
(* with values from small sets, and notifies through the last one.        *)
(***************************************************************************)
EXTENDS Naturals, Sequences

CONSTANTS
    Timeouts,  \* timeout values a caller passes
    Retries,   \* retries values a caller passes
    MaxSteps   \* bound on the client's calls

\* NotificationService(sender, timeout=..., retries=..., verbose=...).
Service(t, r, v) == [timeout |-> t, retries |-> r, verbose |-> v]

Defaults == Service(50, 1, FALSE)   \* timeout in tenths of a second

\* The builder setter calls: [m, arg]; verbose() takes no argument, so
\* its arg is a placeholder.
Setters == {[m |-> "timeout", arg |-> t] : t \in Timeouts}
           \cup {[m |-> "retries", arg |-> r] : r \in Retries}
           \cup {[m |-> "verbose", arg |-> 0]}

\* One setter on the builder's fields.
Apply(b, c) ==
    CASE c.m = "timeout" -> [b EXCEPT !.timeout = c.arg]
      [] c.m = "retries" -> [b EXCEPT !.retries = c.arg]
      [] OTHER           -> [b EXCEPT !.verbose = TRUE]

VARIABLES
    builder,  \* the open ServiceBuilder's fields, or Defaults when none
    service,  \* the last service built
    printed,  \* what the last notify printed: "settings" first when verbose
    steps

vars == <<builder, service, printed, steps>>

Init ==
    /\ builder = Defaults
    /\ service = Defaults
    /\ printed = <<>>
    /\ steps = 0

\* NotificationService(sender, **kwargs) with any of the three given.
Construct(t, r, v) ==
    /\ steps < MaxSteps
    /\ service' = Service(t, r, v)
    /\ steps' = steps + 1
    /\ UNCHANGED <<builder, printed>>

\* ServiceBuilder(sender) and one of its setters, chained.
Set(c) ==
    /\ steps < MaxSteps
    /\ builder' = Apply(builder, c)
    /\ steps' = steps + 1
    /\ UNCHANGED <<service, printed>>

\* build(): the service from the builder's fields; the next chain starts
\* from a new ServiceBuilder.
Build ==
    /\ steps < MaxSteps
    /\ service' = builder
    /\ builder' = Defaults
    /\ steps' = steps + 1
    /\ UNCHANGED printed

\* notify: the verbose line, then the send line.
Notify ==
    /\ steps < MaxSteps
    /\ printed' = IF service.verbose THEN <<"settings", "send">> ELSE <<"send">>
    /\ steps' = steps + 1
    /\ UNCHANGED <<builder, service>>

\* The client has made its last call.
Done ==
    /\ steps = MaxSteps
    /\ UNCHANGED vars

Next ==
    \/ Build \/ Notify \/ Done
    \/ \E c \in Setters : Set(c)
    \/ \E t \in Timeouts \cup {50}, r \in Retries \cup {1}, v \in BOOLEAN : Construct(t, r, v)

Spec == Init /\ [][Next]_vars

\* Properties

\* The type invariant, with the lesson's claim that the two ways agree:
\* the builder's fields are always those of some keyword construction,
\* each the last value its setter was given or the default.
TypeOK ==
    /\ steps \in 0..MaxSteps
    /\ builder \in {Service(t, r, v) : t \in Timeouts \cup {50}, r \in Retries \cup {1}, v \in BOOLEAN}
    /\ service \in {Service(t, r, v) : t \in Timeouts \cup {50}, r \in Retries \cup {1}, v \in BOOLEAN}
=============================================================================
