--------------------------- MODULE SenderPatterns ---------------------------
(***************************************************************************)
(* The sender wiring of three lessons of 10_design_patterns_in_go, driven *)
(* by any sequence of notify calls:                                        *)
(*   01_constructor_and_di: NotificationService(sender, logger).notify    *)
(*     logs, then calls sender.send (Email, SMS, or a FakeSender that     *)
(*     records the call);                                                 *)
(*   02_factory: new_sender(kind) looks kind up in _SENDER_REGISTRY,      *)
(*     raising ValueError for an unknown one, and main sends with it;     *)
(*   04_adapter: TwilioAdapter.send calls create_message(to, message,     *)
(*     from_num) and SendGridAdapter.send post_mail(to, "Notification",   *)
(*     message).                                                          *)
(* Each call records the API calls it makes as records; the messages are  *)
(* model values.                                                          *)
(***************************************************************************)
EXTENDS Naturals, Sequences

CONSTANTS
    Tos,       \* recipients
    Msgs,      \* messages
    Kinds,     \* config strings given to new_sender, known or not
    FromNum,   \* the TwilioAdapter's from_num
    MaxCalls   \* bound on the notify calls

\* _SENDER_REGISTRY's keys.
Registry == {"email", "sms", "slack"}

\* The senders of 01 and the adapters of 04.
DISenders == {"email", "sms", "fake"}
Adapters == {"twilio", "sendgrid"}

VARIABLES
    log,       \* the API calls made, in order
    fakeCalls, \* FakeSender.calls
    n          \* notify calls so far

vars == <<log, fakeCalls, n>>

Init ==
    /\ log = <<>>
    /\ fakeCalls = <<>>
    /\ n = 0

\* 01: logger.log, then sender.send; FakeSender appends instead.
DINotify(s, to, m) ==
    /\ n < MaxCalls
    /\ log' = Append(log, [api |-> "log", to |-> to]) \o
               (IF s = "fake" THEN <<>> ELSE <<[api |-> s, to |-> to, body |-> m]>>)
    /\ fakeCalls' = IF s = "fake" THEN Append(fakeCalls, <<to, m>>) ELSE fakeCalls
    /\ n' = n + 1

\* 02: new_sender(kind), then send; an unknown kind is the ValueError
\* that main prints before it continues.
FactorySend(kind, to, m) ==
    /\ n < MaxCalls
    /\ log' = IF kind \in Registry
              THEN Append(log, [api |-> kind, to |-> to, body |-> m])
              ELSE Append(log, [api |-> "factory error", to |-> to])
    /\ n' = n + 1
    /\ UNCHANGED fakeCalls

\* 04: NotificationService.notify through an adapter to the client API.
AdapterNotify(a, to, m) ==
    /\ n < MaxCalls
    /\ log' = Append(log,
                IF a = "twilio"
                THEN [api |-> "create_message", phone_number |-> to, body |-> m, from_num |-> FromNum]
                ELSE [api |-> "post_mail", recipient |-> to, subject |-> "Notification", html_body |-> m])
    /\ n' = n + 1
    /\ UNCHANGED fakeCalls

\* main has made its last call.
Done ==
    /\ n = MaxCalls
    /\ UNCHANGED vars

Next ==
    \/ Done
    \/ \E to \in Tos, m \in Msgs :
          \/ \E s \in DISenders : DINotify(s, to, m)
          \/ \E k \in Kinds : FactorySend(k, to, m)
          \/ \E a \in Adapters : AdapterNotify(a, to, m)

Spec == Init /\ [][Next]_vars

\* Properties

\* The type invariant, with the adapters' translation: every client call
\* carries the service's recipient and message in the client's own
\* parameters, and only registered kinds reach a sender.
TypeOK ==
    /\ n \in 0..MaxCalls
    /\ \A k \in 1..Len(log) :
          /\ log[k].api = "create_message" => log[k].phone_number \in Tos /\ log[k].from_num = FromNum
          /\ log[k].api = "post_mail" => log[k].recipient \in Tos /\ log[k].html_body \in Msgs
          /\ log[k].api \in {"log", "factory error", "create_message", "post_mail"} \cup Registry \cup DISenders
=============================================================================
