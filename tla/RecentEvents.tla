---------------------------- MODULE RecentEvents ----------------------------
(***************************************************************************)
(* What the backend's event store promises ("holds the last N parsed       *)
(* events", backend/internal/eventstore/store.go): it is the sequence of   *)
(* the last Capacity events pushed, oldest first, and its counters are the *)
(* numbers of those events.                                                *)
(***************************************************************************)
EXTENDS Naturals, Sequences, FiniteSets

CONSTANTS Events,     \* what a line of events.jsonl parses to
          Capacity    \* the store's capacity

VARIABLES recent,     \* the events kept, oldest first
          totals      \* the counters reported with them

\* How many entries of a sequence of events lie in a set of events.
Count(s, G) == Cardinality({i \in 1..Len(s) : s[i] \in G})

Allowed  == {ev \in Events : ev.policy = "ALLOW"}
Denied   == {ev \in Events : ev.policy = "DENY"}
JudgedML == {ev \in Events : ev.ml}

\* The counters of an event sequence.
TotalsOf(s) == [total |-> Len(s), allow |-> Count(s, Allowed),
                deny |-> Count(s, Denied), ml |-> Count(s, JudgedML)]

Init == recent = <<>> /\ totals = TotalsOf(recent)

\* A new event is added at the end; the oldest gives way if there is no room.
Push(ev) ==
  /\ recent' = IF Len(recent) < Capacity THEN Append(recent, ev)
                                         ELSE Append(Tail(recent), ev)
  /\ totals' = TotalsOf(recent')

Next == \E ev \in Events : Push(ev)

Spec == Init /\ [][Next]_<<recent, totals>>
=============================================================================
