------------------------------ MODULE Hexagonal ------------------------------
(***************************************************************************)
(* 10_design_patterns_in_go/11_hexagonal_ports_adapters_mini/main.py. The *)
(* core NotificationService.send rejects an empty `to` with ValueError,    *)
(* then calls sender.send and repo.save, in that order. main wires it     *)
(* twice: to EmailAdapter and MemoryRepoAdapter (a dict by id), and to    *)
(* FakeSender (a list of calls) and FakeRepo (a list of notifications,    *)
(* find_by_id returning the first with the id). Each wiring is driven by  *)
(* any sequence of send and find_by_id calls.                             *)
(***************************************************************************)
EXTENDS Naturals, Sequences, SequencesExt

CONSTANTS
    Ids,         \* notification ids
    Recipients,  \* `to` values; "" is the empty one
    MaxSends     \* bound on the sends of each wiring

Wirings == {"production", "test"}

VARIABLES
    emails,     \* what EmailAdapter printed: [to]
    memData,    \* MemoryRepoAdapter._data: id -> [id, to]
    fakeCalls,  \* FakeSender.calls
    fakeSaved,  \* FakeRepo.saved
    sends,      \* sends per wiring, the rejected ones included
    reply       \* the last call's result, as a record

vars == <<emails, memData, fakeCalls, fakeSaved, sends, reply>>

Init ==
    /\ emails = <<>>
    /\ memData = [id \in {} |-> [id |-> id, to |-> id]]
    /\ fakeCalls = <<>>
    /\ fakeSaved = <<>>
    /\ sends = [w \in Wirings |-> 0]
    /\ reply = [none |-> TRUE]

\* NotificationService.send on wiring w.
Send(w, id, to) ==
    /\ sends[w] < MaxSends
    /\ sends' = [sends EXCEPT ![w] = @ + 1]
    /\ LET n == [id |-> id, to |-> to]
       IN IF to = ""
          THEN /\ reply' = [error |-> "recipient required"]
               /\ UNCHANGED <<emails, memData, fakeCalls, fakeSaved>>
          ELSE /\ reply' = [none |-> TRUE]
               /\ IF w = "production"
                  THEN /\ emails' = Append(emails, to)
                       /\ memData' = [x \in DOMAIN memData \cup {id} |->
                                         IF x = id THEN n ELSE memData[x]]
                       /\ UNCHANGED <<fakeCalls, fakeSaved>>
                  ELSE /\ fakeCalls' = Append(fakeCalls, to)
                       /\ fakeSaved' = Append(fakeSaved, n)
                       /\ UNCHANGED <<emails, memData>>

\* The first notification FakeRepo saved under id, 0 if none.
FirstSaved(id) == SelectInSeq(fakeSaved, LAMBDA n : n.id = id)

\* find_by_id of the wiring's repo: the notification, or the KeyError.
FindById(w, id) ==
    /\ reply' =
         IF w = "production"
         THEN IF id \in DOMAIN memData THEN [found |-> memData[id]] ELSE [error |-> "not found"]
         ELSE IF FirstSaved(id) # 0 THEN [found |-> fakeSaved[FirstSaved(id)]]
              ELSE [error |-> "not found"]
    /\ UNCHANGED <<emails, memData, fakeCalls, fakeSaved, sends>>

Next ==
    \E w \in Wirings, id \in Ids :
       FindById(w, id) \/ \E to \in Recipients : Send(w, id, to)

Spec == Init /\ [][Next]_vars

\* Properties

\* The type invariant, with the core's order of calls: whatever the
\* wiring, every notification saved was sent first, and one sender call
\* was made per accepted send.
TypeOK ==
    /\ sends \in [Wirings -> 0..MaxSends]
    /\ Len(fakeCalls) = Len(fakeSaved)
    /\ \A k \in 1..Len(fakeSaved) : fakeSaved[k].to = fakeCalls[k] /\ fakeCalls[k] # ""
    /\ \A id \in DOMAIN memData : memData[id].to # ""
=============================================================================
