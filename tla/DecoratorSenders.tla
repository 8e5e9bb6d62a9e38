-------------------------- MODULE DecoratorSenders --------------------------
(***************************************************************************)
(* 10_design_patterns_in_go/06_decorator_middleware/main.py. Part 1:     *)
(* LoggingSender(RetrySender(EmailSender(), max_retries)).send once;      *)
(* EmailSender.send counts its calls in fail_count and raises while it is *)
(* at most 2; RetrySender tries up to max_retries times and then raises;  *)
(* LoggingSender re-raises, main catches. Part 2: RateLimitSender(        *)
(* LoggingSender(SimpleSender()), delay) sends Sends messages; it sleeps  *)
(* out what is left of `delay` since last_sent (0.0 before the first     *)
(* send), stamps last_sent = time.monotonic() and delegates. Time is     *)
(* counted in ticks; time.sleep may oversleep by up to Oversleep ticks,  *)
(* and the caller may take up to MaxGap ticks between sends.             *)
(***************************************************************************)
EXTENDS Naturals, Sequences

CONSTANTS
    MaxRetries,  \* max_retries of RetrySender
    Delay,       \* delay of RateLimitSender, in ticks
    Sends,       \* range(3)
    Start,       \* time.monotonic() when part 2 starts, > 0
    Oversleep,   \* how much later than asked time.sleep may return
    MaxGap       \* bound on the caller's ticks between sends

VARIABLES
    part,        \* 1, 2, or 3 when main has returned
    failCount,   \* EmailSender.fail_count
    attempt,     \* RetrySender's loop variable
    outcome,     \* part 1's result: "none", "sent", "failed"
    clock,       \* time.monotonic()
    lastSent,    \* RateLimitSender.last_sent
    sentAt,      \* the times SimpleSender.send was called, in order
    gap          \* ticks the caller has taken since the last send

vars == <<part, failCount, attempt, outcome, clock, lastSent, sentAt, gap>>

Init ==
    /\ part = 1
    /\ failCount = 0
    /\ attempt = 1
    /\ outcome = "none"
    /\ clock = Start
    /\ lastSent = 0
    /\ sentAt = <<>>
    /\ gap = 0

\* One RetrySender attempt through EmailSender.send: fail_count += 1, the
\* RuntimeError while it is <= 2; a success returns; the last failure
\* raises "all retries failed", which LoggingSender logs and re-raises.
RetryAttempt ==
    /\ part = 1
    /\ failCount' = failCount + 1
    /\ IF failCount + 1 > 2
       THEN /\ outcome' = "sent" /\ part' = 2 /\ UNCHANGED attempt
       ELSE IF attempt = MaxRetries
            THEN /\ outcome' = "failed" /\ part' = 2 /\ UNCHANGED attempt
            ELSE /\ attempt' = attempt + 1 /\ UNCHANGED <<outcome, part>>
    /\ UNCHANGED <<clock, lastSent, sentAt, gap>>

\* What RateLimitSender.send waits: the rest of delay since last_sent,
\* none before the first send.
Wait(now) == IF lastSent > 0 /\ now - lastSent < Delay THEN Delay - (now - lastSent) ELSE 0

\* Mutant: last_sent stamped with the `now` read before the sleep.
RateLimitSendStampBeforeSleep(e) ==
    /\ part = 2
    /\ LET t == clock + Wait(clock) + (IF Wait(clock) > 0 THEN e ELSE 0)
       IN /\ clock' = t
          /\ lastSent' = clock
          /\ sentAt' = Append(sentAt, t)
    /\ gap' = 0
    /\ part' = IF Len(sentAt) + 1 = Sends THEN 3 ELSE 2
    /\ UNCHANGED <<failCount, attempt, outcome>>

\* RateLimitSender.send: now, the throttling sleep (returning e ticks
\* late), last_sent = time.monotonic(), then LoggingSender and
\* SimpleSender send.
RateLimitSend(e) ==
    /\ part = 2
    /\ LET t == clock + Wait(clock) + (IF Wait(clock) > 0 THEN e ELSE 0)
       IN /\ clock' = t
          /\ lastSent' = t
          /\ sentAt' = Append(sentAt, t)
    /\ gap' = 0
    /\ part' = IF Len(sentAt) + 1 = Sends THEN 3 ELSE 2
    /\ UNCHANGED <<failCount, attempt, outcome>>

\* The caller takes a tick between two sends.
CallerTick ==
    /\ part = 2
    /\ gap < MaxGap
    /\ clock' = clock + 1
    /\ gap' = gap + 1
    /\ UNCHANGED <<part, failCount, attempt, outcome, lastSent, sentAt>>

\* main has returned.
Terminated ==
    /\ part = 3
    /\ UNCHANGED vars

Next ==
    \/ RetryAttempt \/ CallerTick \/ Terminated
    \/ \E e \in 0..Oversleep : RateLimitSend(e)

Spec == Init /\ [][Next]_vars

\* Properties

TypeOK ==
    /\ part \in 1..3
    /\ attempt \in 1..MaxRetries
    /\ outcome \in {"none", "sent", "failed"}
    /\ Len(sentAt) <= Sends
    /\ part > 1 => outcome = IF MaxRetries >= 3 THEN "sent" ELSE "failed"

\* RateLimitSender's promise: any two consecutive messages reach the
\* wrapped sender at least `delay` apart, whatever the caller's pace and
\* however late time.sleep returns; last_sent is the time of the send,
\* read after the sleep.
SendsSpacedByDelay ==
    \A k \in 1..Len(sentAt) - 1 : sentAt[k + 1] - sentAt[k] >= Delay
=============================================================================
