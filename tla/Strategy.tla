------------------------------ MODULE Strategy ------------------------------
(***************************************************************************)
(* 10_design_patterns_in_go/03_strategy/main.py. NotificationService.send *)
(* asks its strategy to route the message over the channel list:          *)
(* PriorityRouting takes the first channel, RoundRobinRouting takes       *)
(* channels[counter % len] and increments its counter, ContentBasedRouting *)
(* takes "email" for a message longer than 50 characters, else "sms"; an *)
(* empty list routes to "". set_strategy installs a new strategy object,   *)
(* so a new RoundRobinRouting starts at 0. Messages are Short or Long.    *)
(***************************************************************************)
EXTENDS Naturals, Sequences

CONSTANTS
    Channels,  \* the service's channel list, a sequence
    MaxSends   \* bound on the sends

Strategies == {"priority", "roundrobin", "content"}

VARIABLES
    strategy,  \* the installed strategy
    counter,   \* RoundRobinRouting.counter of the installed object
    routed,    \* the channels of the sends since the last set_strategy
    sends      \* sends so far

vars == <<strategy, counter, routed, sends>>

\* route(message, channels) of each strategy.
Route(s, long) ==
    CASE Channels = <<>> /\ s # "content" -> ""
      [] s = "priority"                  -> Channels[1]
      [] s = "roundrobin"                -> Channels[(counter % Len(Channels)) + 1]
      [] OTHER                           -> IF long THEN "email" ELSE "sms"

Init ==
    /\ strategy = "priority"
    /\ counter = 0
    /\ routed = <<>>
    /\ sends = 0

\* send: channel = strategy.route(message, channels), then the print.
Send(long) ==
    /\ sends < MaxSends
    /\ routed' = Append(routed, Route(strategy, long))
    /\ counter' = IF strategy = "roundrobin" /\ Channels # <<>> THEN counter + 1 ELSE counter
    /\ sends' = sends + 1
    /\ UNCHANGED strategy

\* set_strategy with a newly built strategy object.
SetStrategy(s) ==
    /\ strategy' = s
    /\ counter' = 0
    /\ routed' = <<>>
    /\ UNCHANGED sends

\* main has made its last send.
Done ==
    /\ sends = MaxSends
    /\ UNCHANGED vars

Next == Done \/ \E long \in BOOLEAN : Send(long) \/ \E s \in Strategies : SetStrategy(s)

Spec == Init /\ [][Next]_vars

\* Properties

\* The type invariant, with round-robin's promise: since it was
\* installed it has used the channels in list order, cycling.
TypeOK ==
    /\ strategy \in Strategies
    /\ sends \in 0..MaxSends
    /\ strategy = "roundrobin" /\ Channels # <<>> =>
          \A k \in 1..Len(routed) : routed[k] = Channels[((k - 1) % Len(Channels)) + 1]
=============================================================================
