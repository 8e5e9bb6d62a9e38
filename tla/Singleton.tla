----------------------------- MODULE Singleton -----------------------------
(***************************************************************************)
(* 10_design_patterns_in_go/08_singleton_and_why_avoid/main.py.           *)
(* get_config() builds the module-level _config dict on its first call    *)
(* and returns the same one after; SingletonService.send_notification     *)
(* reads it. NotificationService.notify delegates to the sender it was    *)
(* built with: an EmailSender that prints, or a FakeSender that records   *)
(* "to:message" in calls. Any sequence of the three sends is allowed, to  *)
(* recipients from a small set; one process, no threads.                 *)
(***************************************************************************)
EXTENDS Naturals, Sequences

CONSTANTS
    Recipients,  \* the `to` of a send
    MaxSends     \* bound on the sends

VARIABLES
    config,     \* _config: "none" or "loaded"
    loads,      \* how often get_config built _config
    sent,       \* what the two printing senders sent: [via, to]
    fakeCalls   \* FakeSender.calls

vars == <<config, loads, sent, fakeCalls>>

Sends == Len(sent) + Len(fakeCalls)

Init ==
    /\ config = "none"
    /\ loads = 0
    /\ sent = <<>>
    /\ fakeCalls = <<>>

\* get_config(): `if _config is None` build it; the service then sends
\* via its host and port.
SendNotification(to) ==
    /\ Sends < MaxSends
    /\ config' = "loaded"
    /\ loads' = IF config = "none" THEN loads + 1 ELSE loads
    /\ sent' = Append(sent, [via |-> "singleton", to |-> to])
    /\ UNCHANGED fakeCalls

\* NotificationService(EmailSender(...)).notify: sender.send prints.
Notify(to) ==
    /\ Sends < MaxSends
    /\ sent' = Append(sent, [via |-> "di", to |-> to])
    /\ UNCHANGED <<config, loads, fakeCalls>>

\* NotificationService(FakeSender()).notify: calls.append.
FakeNotify(to) ==
    /\ Sends < MaxSends
    /\ fakeCalls' = Append(fakeCalls, to)
    /\ UNCHANGED <<config, loads, sent>>

\* main has made its last send.
Done ==
    /\ Sends = MaxSends
    /\ UNCHANGED vars

Next ==
    \/ \E to \in Recipients : SendNotification(to) \/ Notify(to) \/ FakeNotify(to)
    \/ Done

Spec == Init /\ [][Next]_vars

\* Properties

\* The type invariant, with get_config's promise: the config is built at
\* most once, on the first singleton send, and only the singleton path
\* builds it.
TypeOK ==
    /\ config \in {"none", "loaded"}
    /\ Sends <= MaxSends
    /\ loads = IF config = "loaded" THEN 1 ELSE 0
    /\ (config = "loaded") = (\E k \in 1..Len(sent) : sent[k].via = "singleton")
=============================================================================
