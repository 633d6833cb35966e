----------------------------- MODULE EventStore -----------------------------
(***************************************************************************)
(* The backend's event store (backend/internal/eventstore/store.go): a     *)
(* ring buffer of the last events with running totals.  Every method holds *)
(* the store's lock, so each is one step; the readers change nothing and   *)
(* are operators.  That the ring and its counters are the last Capacity    *)
(* events is the refinement of RecentEvents at the end.                    *)
(***************************************************************************)
EXTENDS Integers, Sequences, FiniteSets

CONSTANTS
  Events,      \* parsed events: records with id, type, policy and ml
  Capacity,    \* number of slots of the ring
  Nil          \* a slot that was never filled

\* ev.policy is whatever the line says; ev.ml tells whether it has an ml_prob.
ASSUME StoreAssumption ==
  /\ Capacity \in Nat \ {0}
  /\ \A ev \in Events : ev.ml \in BOOLEAN
  /\ Nil \notin Events

VARIABLES ring, head, count, totalAllow, totalDeny, totalML

vars == <<ring, head, count, totalAllow, totalDeny, totalML>>

Slots == 0..(Capacity - 1)

\* The slot a position wraps around to.
Slot(a) == a % Capacity

TypeOK ==
  /\ ring \in [Slots -> Events \cup {Nil}]
  /\ head \in Slots
  /\ count \in 0..Capacity
  /\ totalAllow \in Int /\ totalDeny \in Int /\ totalML \in Int

Init ==
  /\ ring = [i \in Slots |-> Nil]
  /\ head = 0 /\ count = 0
  /\ totalAllow = 0 /\ totalDeny = 0 /\ totalML = 0

\* What an event contributes to a counter (addTotals, subtractTotals).
Unit(condition) == IF condition THEN 1 ELSE 0

\* Slip: the evicted event stays in the totals.
PushNoSubtract(ev) ==
  LET h == IF count = Capacity THEN Slot(head + 1) ELSE head
      c == IF count = Capacity THEN count ELSE count + 1
  IN  /\ head' = h /\ count' = c
      /\ ring' = [ring EXCEPT ![Slot(h + c - 1)] = ev]
      /\ totalAllow' = totalAllow + Unit(ev.policy = "ALLOW")
      /\ totalDeny'  = totalDeny + Unit(ev.policy = "DENY")
      /\ totalML'    = totalML + Unit(ev.ml)

\* Slip: head is advanced without wrapping around.
PushNoWrap(ev) ==
  /\ head'  = IF count = Capacity THEN head + 1 ELSE head
  /\ count' = IF count = Capacity THEN count ELSE count + 1
  /\ ring'  = [ring EXCEPT ![Slot(head' + count' - 1)] = ev]
  /\ UNCHANGED <<totalAllow, totalDeny, totalML>>

\* Push: a full ring gives up its oldest slot and takes it out of the
\* totals, then the new event is put behind the newest.
Push(ev) ==
  LET full    == count = Capacity
      old     == ring[head]
      evicted == full /\ old # Nil
      h       == IF full THEN Slot(head + 1) ELSE head
      c       == IF full THEN count ELSE count + 1
  IN  /\ head' = h /\ count' = c
      /\ ring' = [ring EXCEPT ![Slot(h + c - 1)] = ev]
      /\ totalAllow' = totalAllow - Unit(evicted /\ old.policy = "ALLOW")
                                  + Unit(ev.policy = "ALLOW")
      /\ totalDeny'  = totalDeny  - Unit(evicted /\ old.policy = "DENY")
                                  + Unit(ev.policy = "DENY")
      /\ totalML'    = totalML    - Unit(evicted /\ old.ml) + Unit(ev.ml)

Next == \E ev \in Events : Push(ev)

Spec == Init /\ [][Next]_vars

-----------------------------------------------------------------------------
(* Readers.                                                                 *)

\* The events of the ring, oldest first.
Recent == [i \in 1..count |-> ring[Slot(head + i - 1)]]

\* Totals
Totals == [total |-> count, allow |-> totalAllow, deny |-> totalDeny, ml |-> totalML]

-----------------------------------------------------------------------------
(* Properties.                                                              *)

Abs == INSTANCE RecentEvents WITH recent <- Recent, totals <- Totals

\* The ring with its head, count and running totals is the sequence of the
\* last Capacity events with its counters: nothing newer is evicted before
\* something older, no evicted event is still counted (lines 111-154).
ImplementsRecent == Abs!Spec

\* The slots of the ring are filled from 0 on, and head moves only when all
\* are (what makes the wrap-around in Push right).
RingInv ==
  /\ TypeOK
  /\ count < Capacity => head = 0
  /\ \A i \in Slots : ring[i] # Nil <=> i < count
  /\ Totals = Abs!TotalsOf(Recent)
=============================================================================
