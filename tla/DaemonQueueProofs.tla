------------------------- MODULE DaemonQueueProofs -------------------------
(***************************************************************************)
(* Proofs that the safety properties of DaemonQueue hold for any number of *)
(* events, any socket buffer and any number of versions of the policy.     *)
(***************************************************************************)
EXTENDS DaemonQueue, SequenceTheorems, TLAPS

-----------------------------------------------------------------------------
(* Sequences.                                                               *)

\* The element behind a sequence that is below it keeps it increasing.
LEMMA IncreasingAppend ==
  ASSUME NEW s \in Seq(Nat), NEW e \in Nat,
         Increasing(s), \A x \in ToSet(s) : x < e
  PROVE  /\ Increasing(Append(s, e))
         /\ ToSet(Append(s, e)) = ToSet(s) \cup {e}
<1>1. /\ Append(s, e) \in Seq(Nat) /\ Len(s) \in Nat
      /\ DOMAIN s = 1..Len(s) /\ DOMAIN Append(s, e) = 1..(Len(s) + 1)
      /\ \A i \in 1..Len(s) : Append(s, e)[i] = s[i]
      /\ Append(s, e)[Len(s) + 1] = e
  BY AppendProperties, LenProperties
<1>2. \A i \in 1..Len(s) : s[i] < e
  BY <1>1 DEF ToSet
<1>3. Increasing(Append(s, e))
  BY <1>1, <1>2 DEF Increasing
<1>4. ToSet(Append(s, e)) = ToSet(s) \cup {e}
  BY <1>1 DEF ToSet
<1>5. QED BY <1>3, <1>4

\* An element that is taken out of an increasing sequence is gone.
LEMMA IncreasingWithout ==
  ASSUME NEW p \in Seq(Nat), NEW e \in Nat, NEW s \in Seq(Nat),
         Increasing(p \o <<e>> \o s)
  PROVE  /\ Increasing(p \o <<>> \o s)
         /\ ToSet(p \o <<>> \o s) = ToSet(p \o <<e>> \o s) \ {e}
<1> DEFINE old == p \o <<e>> \o s
           new == p \o s
<1>1. /\ Len(p) \in Nat /\ Len(s) \in Nat
      /\ DOMAIN p = 1..Len(p) /\ DOMAIN s = 1..Len(s)
  BY LenProperties
<1>2. /\ <<e>> \in Seq(Nat) /\ p \o <<e>> \in Seq(Nat) /\ old \in Seq(Nat) /\ new \in Seq(Nat)
      /\ Len(p \o <<e>>) = Len(p) + 1
      /\ DOMAIN old = 1..(Len(p) + 1 + Len(s)) /\ DOMAIN new = 1..(Len(p) + Len(s))
  BY <1>1, ConcatProperties, LenProperties
<1>3. /\ \A i \in 1..Len(p) : old[i] = p[i] /\ new[i] = p[i]
      /\ old[Len(p) + 1] = e
      /\ \A i \in 1..Len(s) : old[Len(p) + 1 + i] = s[i] /\ new[Len(p) + i] = s[i]
  <2>1. \A i \in 1..(Len(p) + 1) : (p \o <<e>>)[i] = IF i <= Len(p) THEN p[i] ELSE e
    BY <1>1, <1>2, ConcatProperties
  <2>2. \A i \in DOMAIN old :
          old[i] = IF i <= Len(p) + 1 THEN (p \o <<e>>)[i] ELSE s[i - (Len(p) + 1)]
    BY <1>1, <1>2, ConcatProperties
  <2>3. \A i \in DOMAIN new : new[i] = IF i <= Len(p) THEN p[i] ELSE s[i - Len(p)]
    BY <1>1, <1>2, ConcatProperties
  <2>4. QED BY <1>1, <1>2, <2>1, <2>2, <2>3
<1>4. p \o <<>> \o s = new
  BY ConcatEmptySeq
<1>5. \A i, j \in 1..(Len(p) + 1 + Len(s)) : i < j => old[i] < old[j]
  BY <1>2 DEF Increasing
<1> DEFINE at(i) == IF i <= Len(p) THEN i ELSE i + 1
<1>6. \A i \in 1..(Len(p) + Len(s)) :
        at(i) \in 1..(Len(p) + 1 + Len(s)) /\ at(i) # Len(p) + 1 /\ old[at(i)] = new[i]
  <2> SUFFICES ASSUME NEW i \in 1..(Len(p) + Len(s))
               PROVE  at(i) \in 1..(Len(p) + 1 + Len(s)) /\ at(i) # Len(p) + 1 /\ old[at(i)] = new[i]
    OBVIOUS
  <2> HIDE DEF old, new
  <2>1. CASE i <= Len(p)
    BY <1>1, <1>3, <2>1
  <2>2. CASE i > Len(p)
    <3>1. PICK j \in 1..Len(s) : i = Len(p) + j
      <4>1. i - Len(p) \in 1..Len(s) /\ i = Len(p) + (i - Len(p))
        BY <1>1, <2>2
      <4>2. QED BY <4>1
    <3>2. at(i) = Len(p) + 1 + j
      BY <1>1, <3>1
    <3>3. QED BY <1>1, <1>3, <3>1, <3>2
  <2>3. QED BY <1>1, <2>1, <2>2
<1>7. \A i \in 1..(Len(p) + 1 + Len(s)) :
        i # Len(p) + 1 => \E j \in 1..(Len(p) + Len(s)) : i = at(j)
  <2> SUFFICES ASSUME NEW i \in 1..(Len(p) + 1 + Len(s)), i # Len(p) + 1
               PROVE  \E j \in 1..(Len(p) + Len(s)) : i = at(j)
    OBVIOUS
  <2>1. CASE i <= Len(p)
    BY <1>1, <2>1
  <2>2. CASE i > Len(p) + 1
    <3>1. i - 1 \in 1..(Len(p) + Len(s)) /\ i = at(i - 1)
      BY <1>1, <2>2
    <3>2. QED BY <3>1
  <2>3. QED BY <1>1, <2>1, <2>2
<1>8. \A i, j \in 1..(Len(p) + Len(s)) : i < j => new[i] < new[j]
  <2>1. \A i, j \in 1..(Len(p) + Len(s)) : i < j => at(i) < at(j)
    BY <1>1
  <2> HIDE DEF old, new, at
  <2> QED BY <1>5, <1>6, <2>1
<1>9. \A i \in 1..(Len(p) + 1 + Len(s)) : i # Len(p) + 1 => old[i] # e
  <2>1. \A i \in 1..(Len(p) + 1 + Len(s)) : old[i] \in Nat /\ i \in Nat
    BY <1>1, <1>2
  <2> HIDE DEF old
  <2> QED BY <1>1, <1>3, <1>5, <2>1
<1>10. ToSet(new) = ToSet(old) \ {e}
  <2>1. ToSet(new) = {new[i] : i \in 1..(Len(p) + Len(s))}
    BY <1>2 DEF ToSet
  <2>2. ToSet(old) = {old[i] : i \in 1..(Len(p) + 1 + Len(s))}
    BY <1>2 DEF ToSet
  <2> HIDE DEF old, new, at
  <2>3. \A i \in 1..(Len(p) + Len(s)) : new[i] \in ToSet(old) \ {e}
    BY <1>6, <1>9, <2>2
  <2>4. \A i \in 1..(Len(p) + 1 + Len(s)) : old[i] # e => old[i] \in ToSet(new)
    <3> SUFFICES ASSUME NEW i \in 1..(Len(p) + 1 + Len(s)), old[i] # e
                 PROVE  old[i] \in ToSet(new)
      OBVIOUS
    <3>1. PICK j \in 1..(Len(p) + Len(s)) : i = at(j)
      BY <1>3, <1>7
    <3>2. old[i] = new[j]
      BY <1>6, <3>1
    <3>3. QED BY <2>1, <3>2
  <2>5. ToSet(new) \subseteq ToSet(old) \ {e}
    BY <2>1, <2>3
  <2>6. ToSet(old) \ {e} \subseteq ToSet(new)
    BY <2>2, <2>4
  <2>7. QED BY <2>5, <2>6
<1>11. QED BY <1>2, <1>4, <1>8, <1>10 DEF Increasing

\* What moves from the front of t to the end of s, one at a time, stays in line.
LEMMA MoveThroughHand ==
  ASSUME NEW S, NEW s \in Seq(S), NEW t \in Seq(S), t # <<>>
  PROVE  (s \o <<>>) \o t = (s \o <<Head(t)>>) \o Tail(t)
<1>1. Head(t) \in S /\ Tail(t) \in Seq(S) /\ <<Head(t)>> \in Seq(S)
  BY HeadTailProperties
<1>2. t = <<Head(t)>> \o Tail(t)
  OBVIOUS
<1>3. s \o <<>> = s
  BY ConcatEmptySeq
<1>4. (s \o <<Head(t)>>) \o Tail(t) = s \o (<<Head(t)>> \o Tail(t))
  BY <1>1, ConcatAssociative
<1>5. QED BY <1>2, <1>3, <1>4

\* What a hand puts behind t was in line behind it.
LEMMA MoveBehind ==
  ASSUME NEW S, NEW s \in Seq(S), NEW t \in Seq(S), NEW e \in S
  PROVE  (s \o Append(t, e)) \o <<>> = (s \o t) \o <<e>>
<1>1. Append(t, e) = t \o <<e>> /\ <<e>> \in Seq(S) /\ Append(t, e) \in Seq(S)
  BY AppendIsConcat, AppendProperties
<1>2. s \o Append(t, e) \in Seq(S)
  BY <1>1, ConcatProperties
<1>3. s \o Append(t, e) = (s \o t) \o <<e>>
  BY <1>1, ConcatAssociative
<1>4. QED BY <1>2, <1>3, ConcatEmptySeq

-----------------------------------------------------------------------------
(* The invariant.                                                           *)

\* The variables that make up the line are sequences of events.
LEMMA LineTypes ==
  ASSUME VarsOK
  PROVE  /\ Answered \in Seq(Events) /\ Events \subseteq Nat
         /\ queue \in Seq(Events) /\ socket \in Seq(Events)
         /\ InHand(ev) \in Seq(Events) /\ InHand(got) \in Seq(Events)
         /\ Line \in Seq(Nat)
<1>1. Events \subseteq Nat
  BY QueueAssumption DEF Events
<1>2. Answered \in Seq(Events)
  <2>1. /\ Len(answers) \in Nat /\ DOMAIN answers = 1..Len(answers)
        /\ \A i \in 1..Len(answers) : answers[i].ev \in Events
    <3>1. answers \in Seq(Verdicts)
      BY DEF VarsOK
    <3>2. /\ Len(answers) \in Nat /\ DOMAIN answers = 1..Len(answers)
          /\ \A i \in 1..Len(answers) : answers[i] \in Verdicts
      BY <3>1, LenProperties, ElementOfSeq
    <3>3. QED BY <3>2 DEF Verdicts
  <2>2. Answered \in [1..Len(answers) -> Events]
    BY <2>1 DEF Answered
  <2>3. QED BY <2>1, <2>2, SeqDef
<1>3. InHand(ev) \in Seq(Events) /\ InHand(got) \in Seq(Events)
  BY DEF VarsOK, InHand
<1>4. queue \in Seq(Events) /\ socket \in Seq(Events)
  BY DEF VarsOK
<1>5. Line \in Seq(Events)
  <2>1. Answered \o InHand(ev) \in Seq(Events)
    BY <1>2, <1>3, ConcatProperties
  <2>2. Answered \o InHand(ev) \o queue \in Seq(Events)
    BY <1>4, <2>1, ConcatProperties
  <2>3. Answered \o InHand(ev) \o queue \o InHand(got) \in Seq(Events)
    BY <1>3, <2>2, ConcatProperties
  <2>4. QED BY <1>4, <2>3, ConcatProperties DEF Line
<1>6. Line \in Seq(Nat)
  BY <1>1, <1>5, SeqMonotonic
<1>7. QED BY <1>1, <1>2, <1>3, <1>4, <1>6

\* Before the first event.
LEMMA InitInv == Init => IInv
<1> SUFFICES ASSUME Init PROVE IInv
  OBVIOUS
<1>1. VarsOK
  <2>1. /\ socket \in Seq(Events) /\ Len(socket) <= SocketSize /\ queue \in Seq(Events)
        /\ answers \in Seq(Verdicts)
    BY QueueAssumption, EmptySeq DEF Init
  <2>2. sent \in 0..MaxEvents /\ {disk, policy, signalled, owed} \subseteq Versions
    BY QueueAssumption DEF Init, Versions
  <2>3. /\ main \in MainPCs /\ worker \in WorkerPCs
        /\ got \in Events \cup {NoEvent} /\ ev \in Events \cup {NoEvent}
        /\ lost \in SUBSET Events /\ afterFree \in SUBSET Events
    BY DEF Init, MainPCs, WorkerPCs
  <2>4. overrun \in BOOLEAN /\ open \in BOOLEAN /\ running \in BOOLEAN
        /\ reload \in BOOLEAN /\ loadOk \in BOOLEAN
    BY Zenon DEF Init
  <2>5. QED BY <2>1, <2>2, <2>3, <2>4 DEF VarsOK
<1>2. FifoNoLoss
  <2>1. Answered = <<>> /\ InHand(ev) = <<>> /\ InHand(got) = <<>>
    BY DEF Init, Answered, InHand
  <2>2. Line = <<>>
    BY <2>1, EmptySeq, ConcatEmptySeq DEF Init, Line
  <2>3. QED BY <2>2 DEF Init, FifoNoLoss, Increasing, ToSet
<1>3. ControlInv /\ LostInv /\ NoLostWakeup /\ ShutdownInv /\ OneAnswerAfterFree /\ FreshInv
  BY DEF Init, ControlInv, LostInv, NoLostWakeup, ShutdownInv, OneAnswerAfterFree, FreshInv, Holding
<1>4. PolicyIsFresh
  BY DEF Init, PolicyIsFresh
<1>5. QED BY <1>1, <1>2, <1>3, <1>4 DEF IInv

\* Every step keeps the variables in their types.
LEMMA TypeStep == VarsOK /\ ControlInv /\ [Next]_vars => VarsOK'
<1> SUFFICES ASSUME VarsOK, ControlInv, [Next]_vars PROVE VarsOK'
  OBVIOUS
<1> USE QueueAssumption DEF VarsOK, MainPCs, WorkerPCs, Versions,
        kernelVars, mainVars, workerVars, signalVars
<1>1. CASE Deliver
  <2>1. sent + 1 \in Events /\ sent + 1 \in 0..MaxEvents /\ sent' = sent + 1
    BY <1>1 DEF Deliver, Events
  <2>2. CASE Len(socket) < SocketSize
    <3>1. socket' = Append(socket, sent + 1) /\ overrun' = overrun /\ lost' = lost
      BY <1>1, <2>2 DEF Deliver
    <3>2. socket' \in Seq(Events) /\ Len(socket') = Len(socket) + 1 /\ Len(socket) \in Nat
      BY <2>1, <3>1, AppendProperties, LenProperties
    <3>3. QED BY <1>1, <2>1, <2>2, <3>1, <3>2 DEF Deliver
  <2>3. CASE ~(Len(socket) < SocketSize)
    <3>1. socket' = socket /\ overrun' = TRUE /\ lost' = lost \cup {sent + 1}
      BY <1>1, <2>3 DEF Deliver
    <3>2. overrun' \in BOOLEAN /\ lost' \in SUBSET Events
      BY <2>1, <3>1
    <3>3. QED BY <1>1, <2>1, <3>1, <3>2 DEF Deliver
  <2>4. QED BY <2>2, <2>3
<1>2. CASE Sigint \/ WritePolicy \/ Sigusr1
  <2>1. {disk', signalled'} \subseteq Versions
    BY <1>2 DEF Sigint, WritePolicy, Sigusr1
  <2>2. running' \in BOOLEAN /\ reload' \in BOOLEAN
    <3>1. running \in BOOLEAN /\ reload \in BOOLEAN
      OBVIOUS
    <3>2. /\ running' = running \/ running' = FALSE
          /\ reload' = reload \/ reload' = TRUE
      BY <1>2 DEF Sigint, WritePolicy, Sigusr1
    <3>3. QED BY <3>1, <3>2, Zenon
  <2>3. UNCHANGED <<kernelVars, mainVars, queue, workerVars, lost>>
    BY <1>2 DEF Sigint, WritePolicy, Sigusr1
  <2>4. QED BY <2>1, <2>2, <2>3
<1>3. CASE MainTest \/ RecvError \/ CopyNoMemory \/ FreeSocket \/ Join
  BY <1>3 DEF MainTest, RecvError, CopyNoMemory, FreeSocket, Join
<1>4. CASE RecvEvent
  <2>1. /\ Head(socket) \in Events /\ Tail(socket) \in Seq(Events)
        /\ Len(Tail(socket)) <= SocketSize
    BY <1>4, HeadTailProperties DEF RecvEvent
  <2>2. QED BY <1>4, <2>1 DEF RecvEvent
<1>5. CASE Push
  <2>1. got \in Events
    BY <1>5 DEF Push, ControlInv
  <2>2. queue' \in Seq(Events)
    BY <1>5, <2>1, AppendProperties DEF Push
  <2>3. QED BY <1>5, <2>2 DEF Push, WakeWorker
<1>6. CASE PushNoMemory
  <2>1. got \in Events
    BY <1>6 DEF PushNoMemory, ControlInv
  <2>2. QED BY <1>6, <2>1 DEF PushNoMemory
<1>7. CASE Broadcast
  BY <1>7 DEF Broadcast, WakeWorker
<1>8. CASE WorkerTest \/ PopWait \/ SpuriousWakeup \/ TestReload \/ LoadPolicy
  BY <1>8 DEF WorkerTest, PopWait, SpuriousWakeup, WakeWorker, TestReload, LoadPolicy
<1>9. CASE PopTake
  <2>1. Head(queue) \in Events /\ Tail(queue) \in Seq(Events)
    BY <1>9, HeadTailProperties DEF PopTake
  <2>2. QED BY <1>9, <2>1 DEF PopTake
<1>10. CASE Answer
  <2>1. ev \in Events
    BY <1>10 DEF Answer, ControlInv, Holding
  <2>2. [ev |-> ev, policy |-> policy, owed |-> owed, ok |-> loadOk]
          \in Verdicts
    BY <2>1 DEF Verdicts
  <2>3. answers' \in Seq(Verdicts)
    BY <1>10, <2>2, AppendProperties DEF Answer
  <2>4. QED BY <1>10, <2>1, <2>3 DEF Answer
<1>11. CASE AtRest \/ UNCHANGED vars
  BY <1>11 DEF AtRest, vars
<1>12. QED
  BY <1>1, <1>2, <1>3, <1>4, <1>5, <1>6, <1>7, <1>8, <1>9, <1>10, <1>11
  DEF Next, Main, Worker

\* A thread that has an event in hand is on its way with it.
LEMMA ControlStep == VarsOK /\ ControlInv /\ [Next]_vars => ControlInv'
<1> SUFFICES ASSUME VarsOK, ControlInv, [Next]_vars PROVE ControlInv'
  OBVIOUS
<1> USE DEF ControlInv, Holding, kernelVars, mainVars, workerVars, signalVars
<1>1. CASE Deliver \/ Sigint \/ WritePolicy \/ Sigusr1
  BY <1>1 DEF Deliver, Sigint, WritePolicy, Sigusr1
<1>2. CASE RecvEvent
  <2>1. Head(socket) \in Events /\ Head(socket) # NoEvent
    BY <1>2, HeadTailProperties, QueueAssumption DEF RecvEvent, VarsOK, Events, NoEvent
  <2>2. QED BY <1>2, <2>1 DEF RecvEvent
<1>3. CASE MainTest \/ RecvError \/ PushNoMemory \/ CopyNoMemory \/ FreeSocket \/ Join
  BY <1>3 DEF MainTest, RecvError, PushNoMemory, CopyNoMemory, FreeSocket, Join
<1>4. CASE Push \/ Broadcast \/ SpuriousWakeup
  BY <1>4 DEF Push, Broadcast, SpuriousWakeup, WakeWorker
<1>5. CASE WorkerTest \/ PopWait \/ TestReload \/ LoadPolicy \/ Answer
  BY <1>5 DEF WorkerTest, PopWait, TestReload, LoadPolicy, Answer
<1>6. CASE PopTake
  <2>1. Head(queue) \in Events /\ Head(queue) # NoEvent
    BY <1>6, HeadTailProperties, QueueAssumption DEF PopTake, VarsOK, Events, NoEvent
  <2>2. QED BY <1>6, <2>1 DEF PopTake
<1>7. CASE AtRest \/ UNCHANGED vars
  BY <1>7 DEF AtRest, vars
<1>8. QED
  BY <1>1, <1>2, <1>3, <1>4, <1>5, <1>6, <1>7 DEF Next, Main, Worker

\* Who takes the next element of the line, or puts one behind, keeps the line.
LEMMA LineMoves ==
  ASSUME VarsOK, ControlInv, RecvEvent \/ Push \/ PopTake \/ Answer
  PROVE  Line' = Line
<1> DEFINE front == Answered \o InHand(ev) \o queue
<1>1. /\ Answered \in Seq(Events) /\ queue \in Seq(Events) /\ socket \in Seq(Events)
      /\ InHand(ev) \in Seq(Events) /\ InHand(got) \in Seq(Events)
  BY LineTypes
<1>2. /\ Answered \o InHand(ev) \in Seq(Events) /\ front \in Seq(Events)
  BY <1>1, ConcatProperties
<1>3. CASE RecvEvent
  <2>1. /\ InHand(got) = <<>> /\ socket # <<>>
        /\ InHand(got)' = <<Head(socket)>> /\ socket' = Tail(socket)
    <3>1. got = NoEvent /\ got' = Head(socket) /\ socket # <<>> /\ socket' = Tail(socket)
      BY <1>3 DEF RecvEvent, ControlInv
    <3>2. Head(socket) \in Events
      BY <1>1, <3>1, HeadTailProperties
    <3>3. Head(socket) # NoEvent
      BY <3>2, QueueAssumption DEF Events, NoEvent
    <3>4. QED BY <3>1, <3>3 DEF InHand
  <2>2. front' = front
    BY <1>3 DEF RecvEvent, Answered, InHand, workerVars
  <2>3. (front \o <<>>) \o socket = (front \o <<Head(socket)>>) \o Tail(socket)
    BY <1>1, <1>2, <2>1, MoveThroughHand
  <2>4. QED BY <2>1, <2>2, <2>3 DEF Line
<1>4. CASE Push
  <2>1. got \in Events /\ InHand(got) = <<got>> /\ InHand(got)' = <<>>
    BY <1>4 DEF Push, ControlInv, InHand, VarsOK
  <2>2. queue' = Append(queue, got) /\ socket' = socket /\ (Answered \o InHand(ev))' = Answered \o InHand(ev)
    BY <1>4 DEF Push, Answered, InHand, kernelVars
  <2>3. ((Answered \o InHand(ev)) \o Append(queue, got)) \o <<>> = front \o <<got>>
    BY <1>1, <1>2, <2>1, MoveBehind
  <2>4. QED BY <2>1, <2>2, <2>3 DEF Line
<1>5. CASE PopTake
  <2>1. /\ InHand(ev) = <<>> /\ queue # <<>>
        /\ InHand(ev)' = <<Head(queue)>> /\ queue' = Tail(queue)
    <3>1. ev = NoEvent /\ ev' = Head(queue) /\ queue # <<>> /\ queue' = Tail(queue)
      BY <1>5 DEF PopTake, ControlInv, Holding
    <3>2. Head(queue) \in Events
      BY <1>1, <3>1, HeadTailProperties
    <3>3. Head(queue) # NoEvent
      BY <3>2, QueueAssumption DEF Events, NoEvent
    <3>4. QED BY <3>1, <3>3 DEF InHand
  <2>2. Answered' = Answered /\ InHand(got)' = InHand(got) /\ socket' = socket
    BY <1>5 DEF PopTake, Answered, InHand, kernelVars, mainVars
  <2>3. (Answered \o <<>>) \o queue = (Answered \o <<Head(queue)>>) \o Tail(queue)
    BY <1>1, <2>1, MoveThroughHand
  <2>4. QED BY <2>1, <2>2, <2>3 DEF Line
<1>6. CASE Answer
  <2>1. ev \in Events /\ InHand(ev) = <<ev>> /\ InHand(ev)' = <<>>
    BY <1>6 DEF Answer, ControlInv, Holding, InHand, VarsOK
  <2>2. queue' = queue /\ InHand(got)' = InHand(got) /\ socket' = socket
    BY <1>6 DEF Answer, InHand, kernelVars, mainVars
  <2>3. Answered' = Append(Answered, ev)
    <3> DEFINE v == [ev |-> ev, policy |-> policy, owed |-> owed, ok |-> loadOk]
    <3>1. answers \in Seq(Verdicts) /\ v \in Verdicts /\ v.ev = ev
      BY <2>1 DEF VarsOK, Verdicts
    <3>2. answers' = Append(answers, v)
      BY <1>6 DEF Answer
    <3>3. /\ Len(answers) \in Nat /\ DOMAIN answers = 1..Len(answers)
          /\ DOMAIN answers' = 1..(Len(answers) + 1)
          /\ \A i \in 1..Len(answers) : answers'[i] = answers[i]
          /\ answers'[Len(answers) + 1] = v
      BY <3>1, <3>2, AppendProperties, LenProperties
    <3>4. DOMAIN Answered = 1..Len(answers)
      BY <3>3 DEF Answered
    <3>5. Len(Answered) = Len(answers)
      BY <1>1, <3>3, <3>4, LenProperties
    <3>6. Append(Answered, ev) = [i \in 1..(Len(answers) + 1) |->
                                    IF i <= Len(answers) THEN answers[i].ev ELSE ev]
      BY <1>1, <2>1, <3>3, <3>5 DEF Answered
    <3>7. Answered' = [i \in 1..(Len(answers) + 1) |->
                         IF i <= Len(answers) THEN answers[i].ev ELSE ev]
      BY <3>1, <3>3 DEF Answered
    <3>8. QED BY <3>6, <3>7
  <2>4. (Append(Answered, ev)) \o <<>> = Answered \o <<ev>>
    BY <1>1, <2>1, AppendIsConcat, AppendProperties, ConcatEmptySeq
  <2>5. QED BY <2>1, <2>2, <2>3, <2>4 DEF Line
<1>7. QED BY <1>3, <1>4, <1>5, <1>6

\* The line stays what was multicast, in order, without what was lost.
LEMMA LineStep ==
  VarsOK /\ ControlInv /\ LostInv /\ FifoNoLoss /\ [Next]_vars => LostInv' /\ FifoNoLoss'
<1> SUFFICES ASSUME VarsOK, ControlInv, LostInv, FifoNoLoss, [Next]_vars
             PROVE  LostInv' /\ FifoNoLoss'
  OBVIOUS
<1>1. /\ Line \in Seq(Nat) /\ sent \in Nat /\ Increasing(Line)
      /\ ToSet(Line) = (1..sent) \ lost /\ lost \subseteq 1..sent
  BY LineTypes DEF FifoNoLoss, LostInv, VarsOK
<1>2. ASSUME Line' = Line, sent' = sent, lost' = lost PROVE LostInv' /\ FifoNoLoss'
  BY <1>2 DEF FifoNoLoss, LostInv
<1>3. CASE RecvEvent \/ Push \/ PopTake \/ Answer
  <2>1. sent' = sent /\ lost' = lost
    BY <1>3 DEF RecvEvent, Push, PopTake, Answer, kernelVars
  <2>2. QED BY <1>2, <1>3, <2>1, LineMoves
<1>4. CASE Deliver
  <2>1. Answered' = Answered /\ InHand(ev)' = InHand(ev) /\ queue' = queue /\ InHand(got)' = InHand(got)
    BY <1>4 DEF Deliver, Answered, InHand, workerVars, mainVars
  <2>2. sent' = sent + 1 /\ sent + 1 \in Nat /\ sent + 1 \in Events
    BY <1>1, <1>4, QueueAssumption DEF Deliver, Events
  <2>3. CASE Len(socket) < SocketSize
    <3>1. socket' = Append(socket, sent + 1) /\ lost' = lost
      BY <1>4, <2>3 DEF Deliver
    <3>2. Line' = Append(Line, sent + 1)
      <4> DEFINE front == Answered \o InHand(ev) \o queue \o InHand(got)
      <4>1. front \in Seq(Events) /\ socket \in Seq(Events)
        BY LineTypes, ConcatProperties
      <4>2. front \o Append(socket, sent + 1) = Append(front \o socket, sent + 1)
        <5>1. <<sent + 1>> \in Seq(Events) /\ front \o socket \in Seq(Events)
          BY <2>2, <4>1, ConcatProperties
        <5>2. Append(socket, sent + 1) = socket \o <<sent + 1>>
          BY <2>2, <4>1, AppendIsConcat
        <5>3. Append(front \o socket, sent + 1) = (front \o socket) \o <<sent + 1>>
          BY <2>2, <5>1, AppendIsConcat
        <5>4. <<sent + 1>> \in Seq(Events)
          BY <5>1
        <5> HIDE DEF front
        <5>5. (front \o socket) \o <<sent + 1>> = front \o (socket \o <<sent + 1>>)
          BY <4>1, <5>4, ConcatAssociative
        <5>6. QED BY <5>2, <5>3, <5>5
      <4>3. QED BY <2>1, <3>1, <4>2 DEF Line
    <3>3. \A x \in ToSet(Line) : x < sent + 1
      BY <1>1
    <3>4. Increasing(Line') /\ ToSet(Line') = ((1..sent) \ lost) \cup {sent + 1}
      BY <1>1, <2>2, <3>2, <3>3, IncreasingAppend
    <3>5. ((1..sent) \ lost) \cup {sent + 1} = (1..(sent + 1)) \ lost
      BY <1>1
    <3>6. QED BY <1>1, <2>2, <3>1, <3>4, <3>5 DEF FifoNoLoss, LostInv
  <2>4. CASE ~(Len(socket) < SocketSize)
    <3>1. socket' = socket /\ lost' = lost \cup {sent + 1}
      BY <1>4, <2>4 DEF Deliver
    <3>2. Line' = Line
      BY <2>1, <3>1 DEF Line
    <3>3. (1..sent) \ lost = (1..(sent + 1)) \ (lost \cup {sent + 1})
      BY <1>1
    <3>4. QED BY <1>1, <2>2, <3>1, <3>2, <3>3 DEF FifoNoLoss, LostInv
  <2>5. QED BY <2>3, <2>4
<1>5. CASE PushNoMemory
  <2> DEFINE front == Answered \o InHand(ev) \o queue
  <2>1. /\ got \in Events /\ got \in Nat /\ InHand(got) = <<got>> /\ InHand(got)' = <<>>
    BY <1>5, LineTypes DEF PushNoMemory, ControlInv, InHand, VarsOK
  <2>2. front' = front /\ socket' = socket /\ sent' = sent /\ lost' = lost \cup {got}
    BY <1>5 DEF PushNoMemory, Answered, InHand, workerVars, kernelVars
  <2>3. front \in Seq(Nat) /\ socket \in Seq(Nat)
    <3>1. front \in Seq(Events) /\ socket \in Seq(Events) /\ Events \subseteq Nat
      BY LineTypes, ConcatProperties
    <3>2. QED BY <3>1, SeqMonotonic
  <2>4. Line = front \o <<got>> \o socket /\ Line' = front \o <<>> \o socket
    BY <2>1, <2>2 DEF Line
  <2>5. Increasing(Line') /\ ToSet(Line') = ToSet(Line) \ {got}
    <3> HIDE DEF front
    <3> QED BY <1>1, <2>1, <2>3, <2>4, IncreasingWithout
  <2>6. got \in ToSet(Line)
    <3>1. /\ Len(front \o <<got>>) = Len(front) + 1 /\ front \o <<got>> \in Seq(Nat)
          /\ (front \o <<got>>)[Len(front) + 1] = got /\ Len(front) \in Nat
      <4> HIDE DEF front
      <4>1. <<got>> \in Seq(Nat) /\ Len(<<got>>) = 1 /\ <<got>>[1] = got
        BY <2>1
      <4>2. QED BY <2>3, <4>1, ConcatProperties, LenProperties
    <3>2. Len(front) + 1 \in DOMAIN Line /\ Line[Len(front) + 1] = got
      <4> HIDE DEF front
      <4> QED BY <1>1, <2>3, <2>4, <3>1, ConcatProperties, LenProperties
    <3>3. QED BY <3>2 DEF ToSet
  <2>7. QED BY <1>1, <2>2, <2>5, <2>6 DEF FifoNoLoss, LostInv
<1>6. ASSUME UNCHANGED <<answers, ev, queue, got, socket>> PROVE Line' = Line
  BY <1>6 DEF Line, Answered, InHand
<1>7. CASE \/ Sigint \/ WritePolicy \/ Sigusr1 \/ MainTest \/ RecvError
           \/ CopyNoMemory \/ FreeSocket \/ Broadcast \/ Join
  BY <1>2, <1>6, <1>7
  DEF Sigint, WritePolicy, Sigusr1, MainTest, RecvError, CopyNoMemory, FreeSocket, Broadcast, Join,
      kernelVars, mainVars, workerVars, signalVars
<1>8. CASE \/ WorkerTest \/ PopWait \/ SpuriousWakeup \/ TestReload \/ LoadPolicy
           \/ AtRest \/ UNCHANGED vars
  BY <1>2, <1>6, <1>8
  DEF WorkerTest, PopWait, SpuriousWakeup, TestReload, LoadPolicy, AtRest, vars,
      kernelVars, mainVars, workerVars, signalVars
<1>9. QED
  BY <1>3, <1>4, <1>5, <1>7, <1>8 DEF Next, Main, Worker

\* A push wakes the worker; what does not push cannot fill the queue.
LEMMA WakeupStep == NoLostWakeup /\ [Next]_vars => NoLostWakeup'
<1> SUFFICES ASSUME NoLostWakeup, [Next]_vars PROVE NoLostWakeup'
  OBVIOUS
<1> USE DEF NoLostWakeup, WakeWorker, kernelVars, mainVars, workerVars, signalVars
<1>1. CASE Deliver \/ Sigint \/ WritePolicy \/ Sigusr1
  BY <1>1 DEF Deliver, Sigint, WritePolicy, Sigusr1
<1>2. CASE Main
  BY <1>2 DEF Main, MainTest, RecvEvent, RecvError, Push, PushNoMemory, CopyNoMemory, FreeSocket,
              Broadcast, Join
<1>3. CASE Worker \/ SpuriousWakeup
  BY <1>3 DEF Worker, WorkerTest, PopTake, PopWait, TestReload, LoadPolicy, Answer,
              SpuriousWakeup
<1>4. CASE AtRest \/ UNCHANGED vars
  BY <1>4 DEF AtRest, vars
<1>5. QED BY <1>1, <1>2, <1>3, <1>4 DEF Next

\* After the daemon was told to stop the worker answers at most once more.
LEMMA ShutdownStep ==
  VarsOK /\ ControlInv /\ ShutdownInv /\ OneAnswerAfterFree /\ [Next]_vars
    => ShutdownInv' /\ OneAnswerAfterFree'
<1> SUFFICES ASSUME VarsOK, ControlInv, ShutdownInv, OneAnswerAfterFree, [Next]_vars
             PROVE  ShutdownInv' /\ OneAnswerAfterFree'
  OBVIOUS
<1> USE DEF ShutdownInv, OneAnswerAfterFree, kernelVars, mainVars, workerVars, signalVars
<1>1. CASE Deliver \/ Sigint \/ WritePolicy \/ Sigusr1
  BY <1>1 DEF Deliver, Sigint, WritePolicy, Sigusr1
<1>2. CASE MainTest \/ RecvEvent \/ RecvError \/ PushNoMemory \/ CopyNoMemory \/ FreeSocket \/ Join
  BY <1>2 DEF MainTest, RecvEvent, RecvError, PushNoMemory, CopyNoMemory, FreeSocket, Join
<1>3. CASE Push \/ Broadcast \/ SpuriousWakeup
  BY <1>3 DEF Push, Broadcast, SpuriousWakeup, WakeWorker
<1>4. CASE WorkerTest \/ PopTake \/ PopWait \/ TestReload \/ LoadPolicy
  BY <1>4 DEF WorkerTest, PopTake, PopWait, TestReload, LoadPolicy
<1>5. CASE Answer
  <2>1. afterFree = {}
    BY <1>5 DEF Answer
  <2>2. afterFree' = IF open THEN {} ELSE {ev}
    BY <1>5, <2>1 DEF Answer
  <2>3. QED BY <1>5, <2>2 DEF Answer
<1>6. CASE AtRest \/ UNCHANGED vars
  BY <1>6 DEF AtRest, vars
<1>7. QED
  BY <1>1, <1>2, <1>3, <1>4, <1>5, <1>6 DEF Next, Main, Worker

\* A flag that is cleared before the files are read loses no SIGUSR1.
LEMMA FreshStep ==
  VarsOK /\ FreshInv /\ PolicyIsFresh /\ [Next]_vars => FreshInv' /\ PolicyIsFresh'
<1> SUFFICES ASSUME VarsOK, FreshInv, PolicyIsFresh, [Next]_vars
             PROVE  FreshInv' /\ PolicyIsFresh'
  OBVIOUS
<1> USE DEF kernelVars, mainVars, workerVars, signalVars
<1>1. disk \in Nat /\ policy \in Nat /\ signalled \in Nat /\ owed \in Nat
  BY QueueAssumption DEF VarsOK, Versions
<1>2. ASSUME answers' = answers PROVE PolicyIsFresh'
  BY <1>2 DEF PolicyIsFresh
<1>3. CASE Sigint \/ WritePolicy \/ Sigusr1
  BY <1>1, <1>2, <1>3 DEF Sigint, WritePolicy, Sigusr1, FreshInv
<1>4. CASE Deliver \/ Main \/ SpuriousWakeup
  <2>1. /\ UNCHANGED <<reload, disk, policy, signalled, owed, loadOk, answers>>
        /\ worker' = worker \/ (worker = "waiting" /\ worker' = "pop")
    BY <1>4 DEF Deliver, Main, MainTest, RecvEvent, RecvError, Push, PushNoMemory,
                CopyNoMemory, FreeSocket, Broadcast, Join, SpuriousWakeup, WakeWorker
  <2>2. QED BY <1>2, <2>1 DEF FreshInv
<1>5. CASE WorkerTest \/ PopTake \/ PopWait
  BY <1>1, <1>2, <1>5 DEF WorkerTest, PopTake, PopWait, FreshInv
<1>6. CASE TestReload
  BY <1>1, <1>2, <1>6 DEF TestReload, FreshInv
<1>7. CASE LoadPolicy
  BY <1>1, <1>2, <1>7 DEF LoadPolicy, FreshInv
<1>8. CASE Answer
  <2>1. FreshInv'
    BY <1>8 DEF Answer, FreshInv
  <2> DEFINE v == [ev |-> ev, policy |-> policy, owed |-> owed, ok |-> loadOk]
  <2>2. v.ok => v.policy >= v.owed
    BY <1>8 DEF Answer, FreshInv
  <2>3. answers' = Append(answers, v) /\ answers \in Seq(Verdicts)
    BY <1>8 DEF Answer, VarsOK
  <2>4. /\ Len(answers) \in Nat /\ DOMAIN answers = 1..Len(answers)
        /\ DOMAIN answers' = 1..(Len(answers) + 1)
        /\ \A i \in 1..Len(answers) : answers'[i] = answers[i]
        /\ answers'[Len(answers) + 1] = v
    <3> HIDE DEF v
    <3> QED BY <2>3
  <2>5. PolicyIsFresh'
    <3> HIDE DEF v
    <3>1. \A i \in 1..(Len(answers) + 1) : answers'[i].ok => answers'[i].policy >= answers'[i].owed
      <4> SUFFICES ASSUME NEW i \in 1..(Len(answers) + 1)
                   PROVE  answers'[i].ok => answers'[i].policy >= answers'[i].owed
        OBVIOUS
      <4>1. CASE i = Len(answers) + 1
        BY <2>2, <2>4, <4>1
      <4>2. CASE i \in 1..Len(answers)
        BY <2>4, <4>2 DEF PolicyIsFresh
      <4>3. QED BY <2>4, <4>1, <4>2
    <3>2. QED BY <2>4, <3>1 DEF PolicyIsFresh
  <2>6. QED BY <2>1, <2>5
<1>9. CASE AtRest \/ UNCHANGED vars
  BY <1>2, <1>9 DEF AtRest, vars, FreshInv
<1>10. QED
  BY <1>3, <1>4, <1>5, <1>6, <1>7, <1>8, <1>9 DEF Next, Worker

-----------------------------------------------------------------------------
\* IInv holds in every state of the daemon.
THEOREM QueueInvariance == Spec => []IInv
<1>1. Init => IInv
  BY InitInv
<1>2. IInv /\ [Next]_vars => IInv'
  BY TypeStep, ControlStep, LineStep, WakeupStep, ShutdownStep, FreshStep DEF IInv
<1>3. QED BY <1>1, <1>2, PTL DEF Spec

\* The variables keep their types, the socket's buffer its size, and a thread
\* that goes on with an event has one.
THEOREM QueueTypeCorrect == Spec => []TypeOK
<1>1. IInv => TypeOK BY DEF IInv, TypeOK
<1>2. QED BY <1>1, QueueInvariance, PTL

\* Answers, queue and socket in line are the events that were multicast, in
\* their order, each once, without those that were reported lost.
THEOREM QueueInOrder == Spec => []FifoNoLoss
<1>1. IInv => FifoNoLoss BY DEF IInv
<1>2. QED BY <1>1, QueueInvariance, PTL

\* The worker never sleeps in front of a queue with an event in it.
THEOREM WakeupKept == Spec => []NoLostWakeup
<1>1. IInv => NoLostWakeup BY DEF IInv
<1>2. QED BY <1>1, QueueInvariance, PTL

\* An event is judged by the files of the last SIGUSR1 before it was taken, or
\* newer ones.
THEOREM PolicyFresh == Spec => []PolicyIsFresh
<1>1. IInv => PolicyIsFresh BY DEF IInv
<1>2. QED BY <1>1, QueueInvariance, PTL

\* At most one verdict goes to a socket that was freed.
THEOREM OneAfterFree == Spec => []OneAnswerAfterFree
<1>1. IInv => OneAnswerAfterFree BY DEF IInv
<1>2. QED BY <1>1, QueueInvariance, PTL
=============================================================================
