-------------------------- MODULE EventStoreProofs --------------------------
(***************************************************************************)
(* Proofs that the ring buffer implements the sequence of recent events,   *)
(* for every capacity and every set of events.                             *)
(***************************************************************************)
EXTENDS EventStore, FiniteSetTheorems, FunctionTheorems, SequenceTheorems, TLAPS

-----------------------------------------------------------------------------
(* Counting the entries of a sequence that lie in a set.                    *)

\* The instance of RecentEvents brings its own copy of Cardinality.
LEMMA SameCardinality == \A S : Abs!Cardinality(S) = Cardinality(S)
  BY DEF Abs!Cardinality, Cardinality

\* Counting is the cardinality of the set of matching positions.
LEMMA CountDef ==
  \A s, G : Abs!Count(s, G) = Cardinality({i \in 1..Len(s) : s[i] \in G})
  BY SameCardinality DEF Abs!Count

\* The matching positions are finitely many, and so a natural number.
LEMMA CountNat ==
  ASSUME NEW s \in Seq(Events), NEW G
  PROVE  /\ IsFiniteSet({i \in 1..Len(s) : s[i] \in G})
         /\ Abs!Count(s, G) \in Nat
<1>1. IsFiniteSet(1..Len(s))
  BY FS_Interval
<1>2. IsFiniteSet({i \in 1..Len(s) : s[i] \in G})
  BY <1>1, FS_Subset
<1>3. QED
  BY <1>2, FS_CardinalityType, CountDef

\* An event put at the end is counted if it matches.
LEMMA CountAppend ==
  ASSUME NEW s \in Seq(Events), NEW ev \in Events, NEW G
  PROVE  Abs!Count(Append(s, ev), G) = Abs!Count(s, G) + Unit(ev \in G)
<1> DEFINE A == {i \in 1..Len(s) : s[i] \in G}
           B == {i \in 1..Len(Append(s, ev)) : Append(s, ev)[i] \in G}
<1>1. IsFiniteSet(A) /\ Cardinality(A) \in Nat
  BY CountNat, CountDef
<1>2. CASE ev \in G
  <2>1. B = A \cup {Len(s) + 1} /\ Len(s) + 1 \notin A
    BY <1>2
  <2>2. Cardinality(B) = Cardinality(A) + 1
    BY <1>1, <2>1, FS_AddElement
  <2>3. QED BY <1>2, <2>2, CountDef DEF Unit
<1>3. CASE ev \notin G
  <2>1. B = A
    BY <1>3
  <2>2. Abs!Count(Append(s, ev), G) = Cardinality(B) /\ Abs!Count(s, G) = Cardinality(A)
    BY CountDef
  <2>3. Unit(ev \in G) = 0
    BY <1>3 DEF Unit
  <2> HIDE DEF A, B
  <2>4. QED BY <1>1, <2>1, <2>2, <2>3
<1>4. QED BY <1>2, <1>3

\* The oldest event, taken off, is no longer counted if it matched.
LEMMA CountTail ==
  ASSUME NEW s \in Seq(Events), s # <<>>, NEW G
  PROVE  Abs!Count(Tail(s), G) = Abs!Count(s, G) - Unit(s[1] \in G)
<1> DEFINE A == {i \in 1..Len(s) : s[i] \in G}
           B == {i \in 1..Len(Tail(s)) : Tail(s)[i] \in G}
           C == A \ {1}
<1>1. IsFiniteSet(A) /\ Cardinality(A) \in Nat
  BY CountNat, CountDef
<1>2. IsFiniteSet(C) /\ Cardinality(C) = Cardinality(A) - Unit(s[1] \in G)
  <2>1. 1 \in A <=> s[1] \in G
    OBVIOUS
  <2> HIDE DEF A
  <2>2. IsFiniteSet(C) /\ Cardinality(C) = IF 1 \in A THEN Cardinality(A) - 1
                                                     ELSE Cardinality(A)
    BY <1>1, FS_RemoveElement
  <2>3. QED BY <1>1, <2>1, <2>2 DEF Unit
<1>3. Cardinality(B) = Cardinality(C)
  <2> DEFINE f == [i \in B |-> i + 1]
  <2>1. f \in Bijection(B, C)
    <3>1. \A i \in B : i + 1 \in C
      OBVIOUS
    <3>2. \A j \in C : j - 1 \in B
      OBVIOUS
    <3>3. f \in [B -> C]
      BY <3>1
    <3>4. \A i, j \in B : f[i] = f[j] => i = j
      OBVIOUS
    <3>5. \A j \in C : \E i \in B : f[i] = j
      <4> TAKE j \in C
      <4>1. j - 1 \in B /\ f[j - 1] = j
        BY <3>2
      <4>2. QED BY <4>1
    <3>6. QED
      BY <3>3, <3>4, <3>5, Fun_IsBij
  <2>2. B \subseteq 1..Len(Tail(s)) /\ IsFiniteSet(B)
    <3>1. Tail(s) \in Seq(Events)
      OBVIOUS
    <3>2. QED BY <3>1, CountNat
  <2>3. QED
    BY <2>1, <2>2, FS_Bijection DEF ExistsBijection
<1>4. QED BY <1>2, <1>3, CountDef

-----------------------------------------------------------------------------
(* The ring.                                                                *)

\* Wrapping around: below twice the capacity, % subtracts at most one
\* capacity.
LEMMA SlotDef ==
  \A a \in 0..(2 * Capacity - 1) : Slot(a) = IF a < Capacity THEN a ELSE a - Capacity
<1> SUFFICES ASSUME NEW a \in 0..(2 * Capacity - 1)
             PROVE  a % Capacity = IF a < Capacity THEN a ELSE a - Capacity
  BY DEF Slot
<1> QED BY StoreAssumption, SMTT(30)

\* The shape of the ring, without its counters.
Shape ==
  /\ TypeOK
  /\ count < Capacity => head = 0
  /\ \A i \in Slots : ring[i] # Nil <=> i < count

\* What the readers see is a sequence of count events.
LEMMA RecentType ==
  ASSUME Shape
  PROVE  Recent \in Seq(Events) /\ Len(Recent) = count
<1>1. ASSUME NEW i \in 1..count PROVE ring[Slot(head + i - 1)] \in Events
  <2>1. /\ head \in 0..(Capacity - 1) /\ count \in 0..Capacity /\ Capacity \in Nat \ {0}
        /\ count < Capacity => head = 0
    BY StoreAssumption DEF Shape, TypeOK, Slots
  <2>2. head + i - 1 \in 0..(2 * Capacity - 1)
    BY <2>1
  <2>3. Slot(head + i - 1) \in 0..(Capacity - 1) /\ Slot(head + i - 1) < count
    BY <2>1, <2>2, SlotDef
  <2>4. QED
    BY <2>3 DEF Shape, TypeOK, Slots
<1>2. count \in Nat
  BY StoreAssumption DEF Shape, TypeOK
<1>3. QED
  BY <1>1, <1>2 DEF Recent

\* A push while there is room: the event goes to the first free slot.
LEMMA PushFree ==
  ASSUME Shape, NEW ev \in Events, Push(ev), count < Capacity
  PROVE  /\ head' = 0 /\ count' = count + 1 /\ ring' = [ring EXCEPT ![count] = ev]
         /\ Recent' = Append(Recent, ev)
<1>1. head = 0 /\ count \in 0..(Capacity - 1) /\ Capacity \in Nat \ {0}
  BY StoreAssumption DEF Shape, TypeOK
<1>2. \A a \in 0..(Capacity - 1) : Slot(a) = a
  BY <1>1, SlotDef
<1>3. head' = 0 /\ count' = count + 1
  BY <1>1 DEF Push
<1>4. ring' = [ring EXCEPT ![count] = ev]
  <2>1. ring' = [ring EXCEPT ![Slot(head' + count' - 1)] = ev]
    BY DEF Push
  <2>2. head' + count' - 1 = count
    BY <1>1, <1>3
  <2>3. Slot(head' + count' - 1) = count
    BY <1>1, <1>2, <2>2
  <2>4. QED BY <2>1, <2>3
<1>5. Recent = [i \in 1..count |-> ring[i - 1]]
  <2>1. \A i \in 1..count : Slot(head + i - 1) = i - 1
    BY <1>1, <1>2
  <2>2. QED BY <2>1 DEF Recent
<1>6. Recent' = [i \in 1..(count + 1) |-> ring'[i - 1]]
  <2>1. \A i \in 1..(count + 1) : Slot(head' + i - 1) = i - 1
    BY <1>1, <1>2, <1>3
  <2>2. QED BY <1>3, <2>1 DEF Recent
<1>7. /\ ring'[count] = ev
      /\ \A i \in 1..count : ring'[i - 1] = ring[i - 1]
  BY <1>1, <1>4 DEF Shape, TypeOK, Slots
<1>8. Recent' = Append(Recent, ev)
  <2>1. Recent \in Seq(Events) /\ Len(Recent) = count
    BY RecentType
  <2>2. Append(Recent, ev) =
          [i \in 1..(count + 1) |-> IF i \in 1..count THEN Recent[i] ELSE ev]
    <3>1. Append(Recent, ev) \in Seq(Events) /\ Len(Append(Recent, ev)) = count + 1
      BY <2>1
    <3>2. Append(Recent, ev) \in [1..(count + 1) -> Events]
      BY <3>1, LenProperties
    <3>3. \A i \in 1..(count + 1) :
            Append(Recent, ev)[i] = IF i \in 1..count THEN Recent[i] ELSE ev
      BY <1>1, <2>1
    <3>4. QED BY <3>2, <3>3
  <2>3. \A i \in 1..(count + 1) :
          ring'[i - 1] = IF i \in 1..count THEN Recent[i] ELSE ev
    BY <1>1, <1>5, <1>7
  <2>4. QED BY <1>6, <2>2, <2>3
<1>9. QED BY <1>3, <1>4, <1>8

\* A push into a full ring: the oldest event's slot is overwritten.
LEMMA PushFull ==
  ASSUME Shape, NEW ev \in Events, Push(ev), count = Capacity
  PROVE  /\ head' \in Slots /\ count' = count /\ ring' = [ring EXCEPT ![head] = ev]
         /\ Recent' = Append(Tail(Recent), ev)
         /\ Recent[1] = ring[head]
<1>1. head \in 0..(Capacity - 1) /\ Capacity \in Nat \ {0}
  BY StoreAssumption DEF Shape, TypeOK, Slots
<1>2. count' = count /\ head' = IF head + 1 < Capacity THEN head + 1 ELSE 0
  <2>1. head + 1 \in 0..(2 * Capacity - 1)
    BY <1>1
  <2>2. count' = count /\ head' = Slot(head + 1)
    BY DEF Push
  <2>3. QED BY <1>1, <2>1, <2>2, SlotDef
<1>3. Slot(head' + Capacity - 1) = head
  <2>1. head' + Capacity - 1 \in 0..(2 * Capacity - 1)
    BY <1>1, <1>2
  <2>2. QED BY <1>1, <1>2, <2>1, SlotDef
<1>4. ring' = [ring EXCEPT ![head] = ev]
  <2>1. ring' = [ring EXCEPT ![Slot(head' + Capacity - 1)] = ev]
    BY <1>2 DEF Push
  <2>2. QED BY <1>3, <2>1
<1>5. Recent \in Seq(Events) /\ Len(Recent) = Capacity
  BY RecentType
<1>6. Recent = [i \in 1..Capacity |-> ring[Slot(head + i - 1)]]
  BY DEF Recent
<1>7. Recent' = [i \in 1..Capacity |-> ring'[Slot(head' + i - 1)]]
  BY <1>2 DEF Recent
<1>8. \A i \in 1..(Capacity - 1) : ring'[Slot(head' + i - 1)] = Recent[i + 1]
  <2> TAKE i \in 1..(Capacity - 1)
  <2>1. /\ head' + i - 1 \in 0..(2 * Capacity - 1)
        /\ head + (i + 1) - 1 \in 0..(2 * Capacity - 1)
        /\ i + 1 \in 1..Capacity
    BY <1>1, <1>2
  <2>2. /\ Slot(head' + i - 1) = Slot(head + (i + 1) - 1)
        /\ Slot(head' + i - 1) \in 0..(Capacity - 1)
        /\ Slot(head' + i - 1) # head
    BY <1>1, <1>2, <2>1, SlotDef
  <2>3. ring'[Slot(head' + i - 1)] = ring[Slot(head' + i - 1)]
    BY <1>4, <2>2 DEF Shape, TypeOK, Slots
  <2>4. Recent[i + 1] = ring[Slot(head + (i + 1) - 1)]
    BY <1>6, <2>1
  <2>5. QED BY <2>2, <2>3, <2>4
<1>9. ring'[Slot(head' + Capacity - 1)] = ev
  BY <1>1, <1>3, <1>4 DEF Shape, TypeOK, Slots
<1>10. Recent' = Append(Tail(Recent), ev)
  <2>1. Append(Tail(Recent), ev) =
          [i \in 1..Capacity |-> IF i \in 1..(Capacity - 1) THEN Recent[i + 1] ELSE ev]
    <3>1. /\ Tail(Recent) \in Seq(Events) /\ Len(Tail(Recent)) = Capacity - 1
          /\ \A i \in 1..(Capacity - 1) : Tail(Recent)[i] = Recent[i + 1]
      BY <1>1, <1>5
    <3>2. /\ Append(Tail(Recent), ev) \in Seq(Events)
          /\ Len(Append(Tail(Recent), ev)) = Capacity
      BY <1>1, <3>1
    <3>3. Append(Tail(Recent), ev) \in [1..Capacity -> Events]
      BY <3>2, LenProperties
    <3>4. \A i \in 1..Capacity : Append(Tail(Recent), ev)[i] =
            IF i \in 1..(Capacity - 1) THEN Recent[i + 1] ELSE ev
      BY <1>1, <3>1
    <3>5. QED BY <3>3, <3>4
  <2>2. \A i \in 1..Capacity :
          ring'[Slot(head' + i - 1)] = IF i \in 1..(Capacity - 1) THEN Recent[i + 1] ELSE ev
    <3> TAKE i \in 1..Capacity
    <3>1. CASE i \in 1..(Capacity - 1)
      BY <1>8, <3>1
    <3>2. CASE i = Capacity
      BY <1>1, <1>9, <3>2
    <3>3. QED BY <1>1, <3>1, <3>2
  <2>3. QED BY <1>7, <2>1, <2>2
<1>11. Recent[1] = ring[head]
  <2>1. Slot(head + 1 - 1) = head
    <3>1. head + 1 - 1 \in 0..(2 * Capacity - 1)
      BY <1>1
    <3>2. QED BY <1>1, <3>1, SlotDef
  <2>2. QED BY <1>1, <1>6, <2>1
<1>12. QED BY <1>1, <1>2, <1>4, <1>10, <1>11 DEF Slots

\* Push keeps the ring well formed.
LEMMA ShapeStep ==
  ASSUME Shape, NEW ev \in Events, Push(ev)
  PROVE  Shape'
<1>1. totalAllow' \in Int /\ totalDeny' \in Int /\ totalML' \in Int
  BY DEF Shape, TypeOK, Push, Unit
<1>2. Capacity \in Nat \ {0} /\ count \in 0..Capacity /\ Nil # ev
  BY StoreAssumption DEF Shape, TypeOK
<1>3. CASE count < Capacity
  BY <1>1, <1>2, <1>3, PushFree DEF Shape, TypeOK, Slots
<1>4. CASE count = Capacity
  <2>1. head' \in Slots /\ count' = Capacity /\ ring' = [ring EXCEPT ![head] = ev]
    BY <1>4, PushFull
  <2>2. head \in Slots /\ \A i \in Slots : i < Capacity /\ i < count
    BY <1>2, <1>4 DEF Shape, TypeOK, Slots
  <2>3. ring' \in [Slots -> Events \cup {Nil}]
    BY <2>1 DEF Shape, TypeOK
  <2>4. \A i \in Slots : ring'[i] # Nil
    BY <1>2, <2>1, <2>2 DEF Shape, TypeOK
  <2>5. QED BY <1>1, <1>2, <2>1, <2>2, <2>3, <2>4 DEF Shape, TypeOK
<1>5. QED BY <1>2, <1>3, <1>4
-----------------------------------------------------------------------------
(* The counters.                                                            *)

\* A counter that loses the evicted event and gains the new one counts the
\* events of the new sequence.
LEMMA CountStep ==
  ASSUME Shape, NEW ev \in Events, Push(ev), NEW G
  PROVE  Abs!Count(Recent', G) =
           Abs!Count(Recent, G) - Unit(count = Capacity /\ ring[head] \in G)
                                + Unit(ev \in G)
<1>1. Recent \in Seq(Events) /\ Len(Recent) = count /\ Abs!Count(Recent, G) \in Nat
  BY RecentType, CountNat
<1>2. Capacity \in Nat \ {0} /\ count \in 0..Capacity
  BY StoreAssumption DEF Shape, TypeOK
<1>3. CASE count < Capacity
  <2>1. Recent' = Append(Recent, ev)
    BY <1>3, PushFree
  <2>2. Abs!Count(Recent', G) = Abs!Count(Recent, G) + Unit(ev \in G)
    BY <1>1, <2>1, CountAppend
  <2>3. Unit(count = Capacity /\ ring[head] \in G) = 0
    BY <1>2, <1>3 DEF Unit
  <2>4. Unit(ev \in G) \in Nat
    BY DEF Unit
  <2>5. QED BY <1>1, <2>2, <2>3, <2>4
<1>4. CASE count = Capacity
  <2>1. Recent' = Append(Tail(Recent), ev) /\ Recent[1] = ring[head]
    BY <1>4, PushFull
  <2>2. Recent # <<>> /\ Tail(Recent) \in Seq(Events)
    BY <1>1, <1>2, <1>4
  <2>3. Abs!Count(Tail(Recent), G) = Abs!Count(Recent, G) - Unit(Recent[1] \in G)
    BY <1>1, <2>2, CountTail
  <2>4. Abs!Count(Recent', G) = Abs!Count(Tail(Recent), G) + Unit(ev \in G)
    BY <2>1, <2>2, CountAppend
  <2>5. Unit(count = Capacity /\ ring[head] \in G) = Unit(Recent[1] \in G)
    BY <1>4, <2>1 DEF Unit
  <2>6. QED BY <2>3, <2>4, <2>5
<1>5. QED BY <1>2, <1>3, <1>4

\* After a push the running totals are those of the new sequence.
LEMMA TotalsStep ==
  ASSUME RingInv, NEW ev \in Events, Push(ev)
  PROVE  Totals' = Abs!TotalsOf(Recent')
<1>1. Shape /\ Shape'
  BY ShapeStep DEF RingInv, Shape
<1>2. Len(Recent') = count'
  <2>1. (Recent \in Seq(Events) /\ Len(Recent) = count)'
    BY <1>1, RecentType, PTL
  <2>2. QED BY <2>1
<1>3. /\ totalAllow = Abs!Count(Recent, Abs!Allowed)
      /\ totalDeny  = Abs!Count(Recent, Abs!Denied)
      /\ totalML    = Abs!Count(Recent, Abs!JudgedML)
  BY DEF RingInv, Totals, Abs!TotalsOf
<1>4. /\ ev.policy = "ALLOW" <=> ev \in Abs!Allowed
      /\ ev.policy = "DENY"  <=> ev \in Abs!Denied
      /\ ev.ml <=> ev \in Abs!JudgedML
  BY DEF Abs!Allowed, Abs!Denied, Abs!JudgedML
<1> DEFINE full    == count = Capacity
           evicted == full /\ ring[head] # Nil
<1>5. full => ring[head] \in Events
  BY <1>1, StoreAssumption DEF Shape, TypeOK, Slots
<1>6. /\ evicted /\ ring[head].policy = "ALLOW" <=> full /\ ring[head] \in Abs!Allowed
      /\ evicted /\ ring[head].policy = "DENY"  <=> full /\ ring[head] \in Abs!Denied
      /\ evicted /\ ring[head].ml <=> full /\ ring[head] \in Abs!JudgedML
  BY <1>5, StoreAssumption DEF Abs!Allowed, Abs!Denied, Abs!JudgedML
<1>7. /\ totalAllow' = totalAllow - Unit(full /\ ring[head] \in Abs!Allowed)
                                  + Unit(ev \in Abs!Allowed)
      /\ totalDeny'  = totalDeny - Unit(full /\ ring[head] \in Abs!Denied)
                                 + Unit(ev \in Abs!Denied)
      /\ totalML'    = totalML - Unit(full /\ ring[head] \in Abs!JudgedML)
                               + Unit(ev \in Abs!JudgedML)
  BY <1>4, <1>6 DEF Push, Unit
<1>8. /\ totalAllow' = Abs!Count(Recent', Abs!Allowed)
      /\ totalDeny'  = Abs!Count(Recent', Abs!Denied)
      /\ totalML'    = Abs!Count(Recent', Abs!JudgedML)
  BY <1>1, <1>3, <1>7, CountStep
<1>9. QED BY <1>2, <1>8 DEF Totals, Abs!TotalsOf

-----------------------------------------------------------------------------
(* The store.                                                               *)

\* New makes an empty ring with zero totals.
LEMMA RingInit == Init => RingInv /\ Recent = <<>>
<1> SUFFICES ASSUME Init PROVE RingInv /\ Recent = <<>>
  OBVIOUS
<1>1. Shape
  BY StoreAssumption DEF Init, Shape, TypeOK, Slots
<1>2. Recent = <<>>
  BY <1>1, RecentType DEF Init
<1>3. \A G : Abs!Count(<<>>, G) = 0
  <2> TAKE G
  <2>1. {i \in 1..Len(<<>>) : <<>>[i] \in G} = {}
    OBVIOUS
  <2>2. QED BY <2>1, CountDef, FS_EmptySet
<1>4. Totals = Abs!TotalsOf(Recent)
  BY <1>2, <1>3 DEF Init, Totals, Abs!TotalsOf
<1>5. QED BY <1>1, <1>2, <1>4 DEF RingInv, Shape

\* Every step of the store preserves the invariant.
LEMMA RingStep == RingInv /\ [Next]_vars => RingInv'
<1> SUFFICES ASSUME RingInv, [Next]_vars PROVE RingInv'
  OBVIOUS
<1>1. ASSUME NEW ev \in Events, Push(ev) PROVE RingInv'
  <2>1. Shape'
    BY <1>1, ShapeStep DEF RingInv, Shape
  <2>2. Totals' = Abs!TotalsOf(Recent')
    BY <1>1, TotalsStep
  <2>3. QED BY <2>1, <2>2 DEF RingInv, Shape, Totals, Recent, Abs!TotalsOf
<1>2. CASE UNCHANGED vars
  BY <1>2 DEF vars, RingInv, TypeOK, Totals, Recent, Abs!TotalsOf
<1>3. QED BY <1>1, <1>2 DEF Next

\* The ring is always well formed: its slots are filled from 0 on, head moves
\* only once it is full, and the running totals are those of its events.
THEOREM RingInvariance == Spec => []RingInv
<1>1. Init => RingInv
  BY RingInit
<1>2. QED BY <1>1, RingStep, PTL DEF Spec

\* Every variable keeps its type; count and head never leave the ring.
THEOREM StoreTypeCorrect == Spec => []TypeOK
<1>1. RingInv => TypeOK
  BY DEF RingInv
<1>2. QED BY <1>1, RingInvariance, PTL

\* The ring buffer implements the sequence of the last Capacity events with
\* its counters (New, Push, addTotals and subtractTotals of the store).
THEOREM StoreRefines == Spec => ImplementsRecent
<1>1. Init => Abs!Init
  BY RingInit DEF Abs!Init, RingInv
<1>2. ASSUME RingInv, [Next]_vars PROVE [Abs!Next]_<<Recent, Totals>>
  <2>1. ASSUME NEW ev \in Events, Push(ev) PROVE Abs!Push(ev)
    <3>1. Shape /\ Len(Recent) = count /\ count \in 0..Capacity /\ Capacity \in Nat
      BY <1>2, RecentType, StoreAssumption DEF RingInv, Shape, TypeOK
    <3>2. Recent' = IF Len(Recent) < Capacity THEN Append(Recent, ev)
                                              ELSE Append(Tail(Recent), ev)
      BY <2>1, <3>1, PushFree, PushFull
    <3>3. Totals' = Abs!TotalsOf(Recent')
      BY <1>2, <2>1, TotalsStep
    <3>4. QED BY <3>2, <3>3 DEF Abs!Push
  <2>2. CASE UNCHANGED vars
    BY <2>2 DEF vars, Recent, Totals
  <2>3. QED BY <1>2, <2>1, <2>2 DEF Next, Abs!Next
<1>3. QED BY <1>1, <1>2, RingInvariance, PTL DEF Spec, ImplementsRecent, Abs!Spec
=============================================================================
