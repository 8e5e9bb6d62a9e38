------------------------------ MODULE EventBus ------------------------------
(***************************************************************************)
(* 10_design_patterns_in_go/07_observer_events/main.py. EventBus keeps,   *)
(* per event name, the list of its handlers in subscription order;        *)
(* publish calls every handler of the event's name, in that order, and    *)
(* none for a name nobody subscribed to. NotificationService.send and     *)
(* .fail publish "notification.sent" and "notification.failed". The bus  *)
(* is driven by any sequence of subscribe, send and fail calls; a handler *)
(* is a model value and its call is recorded with the event it got.      *)
(***************************************************************************)
EXTENDS Naturals, Sequences

CONSTANTS
    Handlers,  \* the subscribed callables (the logger, the analytics, the alert)
    MaxSubs,   \* bound on the handlers of one event name
    MaxCalls   \* bound on the handler calls recorded

Events == {"notification.sent", "notification.failed"}

VARIABLES
    handlers,  \* EventBus.handlers: event name -> handlers in order
    calls      \* the handler calls publish has made, in order

vars == <<handlers, calls>>

Init ==
    /\ handlers = [e \in Events |-> <<>>]
    /\ calls = <<>>

\* subscribe: handlers.setdefault(event_name, []).append(handler).
Subscribe(e, h) ==
    /\ Len(handlers[e]) < MaxSubs
    /\ handlers' = [handlers EXCEPT ![e] = Append(@, h)]
    /\ UNCHANGED calls

\* publish: each handler of the name, in subscription order.
Publish(e) ==
    /\ Len(calls) + Len(handlers[e]) <= MaxCalls
    /\ calls' = calls \o [i \in 1..Len(handlers[e]) |-> [handler |-> handlers[e][i], event |-> e]]
    /\ UNCHANGED handlers

\* NotificationService.send and .fail: print, then publish.
Send == Publish("notification.sent")
Fail == Publish("notification.failed")

Calls == Send \/ Fail \/ \E e \in Events, h \in Handlers : Subscribe(e, h)

\* The client has made its last call: no call fits the bounds.
Done ==
    /\ ~ENABLED Calls
    /\ UNCHANGED vars

Next == Calls \/ Done

Spec == Init /\ [][Next]_vars

\* Properties

\* The type invariant, with the bus's promise: a handler is only called
\* for an event name it was subscribed to.
TypeOK ==
    /\ handlers \in [Events -> Seq(Handlers)]
    /\ Len(calls) <= MaxCalls
    /\ \A k \in 1..Len(calls) :
          \E i \in 1..Len(handlers[calls[k].event]) : handlers[calls[k].event][i] = calls[k].handler
=============================================================================
