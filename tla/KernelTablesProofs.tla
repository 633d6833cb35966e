------------------------ MODULE KernelTablesProofs ------------------------
(***************************************************************************)
(* Proofs about the two tables of the kernel module that outlive a call:   *)
(* the events that wait for a verdict and the keys whose packets are       *)
(* dropped.  The invariants of PendingVerdicts hold for every set of       *)
(* events, every number of verdicts per event, and a deadline of any       *)
(* length (EarlyExpiry or not); the drop list is a ban of TTL jiffies per  *)
(* key, for any set of threads, addresses and ports and any TTL.           *)
(***************************************************************************)
EXTENDS PendingVerdicts, DropList, FiniteSetTheorems, TLAPS

-----------------------------------------------------------------------------
(* The events that wait for a verdict.                                      *)

\* The handler's record is HandlerIdle or holds the event and the verdict.
LEMMA HandlerShape ==
  ASSUME VarsOK
  PROVE  /\ handler.pc # "idle" => handler \in HandlerBusy
         /\ handler = HandlerIdle <=> handler.pc = "idle"
  BY DEF VarsOK, HandlerBusy, HandlerIdle

\* The module starts without records, handlers or history.
LEMMA InitInv == Init => IInv
  BY PendingAssumption
  DEF Init, IInv, VarsOK, NoLeak, AllowIsAuthentic, GenuineIsSigned, RecordInv,
      Fresh, Handled, HandlerIdle, SenderStates, MemStates, TimerStates, Decisions

\* Every step keeps the variables in their types.
LEMMA TypeStep == VarsOK /\ [Next]_vars => VarsOK'
<1> SUFFICES ASSUME VarsOK, [Next]_vars PROVE VarsOK'
  OBVIOUS
<1> USE PendingAssumption, HandlerShape
    DEF VarsOK, SenderStates, MemStates, TimerStates, Decisions
<1>1. ASSUME NEW id \in Ids, SendUnrecorded(id) \/ Multicast(id) PROVE VarsOK'
  BY <1>1 DEF SendUnrecorded, Multicast
<1>2. ASSUME NEW id \in Ids, Store(id) PROVE VarsOK'
  <2>1. CASE StoreNoMemory(id) BY <2>1 DEF StoreNoMemory
  <2>2. CASE StoreArm(id)      BY <2>2 DEF StoreArm
  <2>3. CASE StoreInsert(id)   BY <2>3 DEF StoreInsert, Touch
  <2>4. CASE StoreFail(id)     BY <2>4 DEF StoreFail, Touch, Free, ShutdownSync
  <2>5. QED BY <1>2, <2>1, <2>2, <2>3, <2>4 DEF Store
<1>3. ASSUME NEW id \in Ids, TimerFire(id) PROVE VarsOK'
  BY <1>3 DEF TimerFire
<1>4. ASSUME NEW id \in Ids, Timeout(id) PROVE VarsOK'
  <2>1. CASE TimerXchg(id)   BY <2>1 DEF TimerXchg, Touch
  <2>2. CASE TimerErase(id)  BY <2>2 DEF TimerErase, Touch
  <2>3. CASE TimerGiveUp(id) BY <2>3 DEF TimerGiveUp, Touch, Free
  <2>4. QED BY <1>4, <2>1, <2>2, <2>3 DEF Timeout
<1>5. ASSUME NEW id \in Ids, NEW v \in VerdictMsgs,
             VerdictUnknown(id, v) \/ VerdictTake(id, v)
      PROVE VarsOK'
  BY <1>5 DEF VerdictUnknown, VerdictTake, Submit, VerdictMsgs, HandlerBusy
<1>6. CASE Handle
  <2>1. CASE VerdictStopTimer
    BY <2>1 DEF VerdictStopTimer, Touch, ShutdownSync, HandlerBusy
  <2>2. CASE VerdictWin
    BY <2>2 DEF VerdictWin, Touch, HandlerBusy
  <2>3. CASE VerdictLose
    BY <2>3 DEF VerdictLose, Touch, Free, HandlerBusy
  <2>4. CASE VerdictApply
    BY <2>4 DEF VerdictApply, Touch, Free, HandlerBusy, VerdictMsgs
  <2>5. QED BY <1>6, <2>1, <2>2, <2>3, <2>4 DEF Handle
<1>7. CASE UNCHANGED vars
  BY <1>7 DEF vars
<1>8. QED BY <1>1, <1>2, <1>3, <1>4, <1>5, <1>6, <1>7 DEF Next, Quiescent

\* Every step keeps the relation between a record, its timer, its entry in
\* the xarray, the handler and the history of the event.
LEMMA RecordStep ==
  ASSUME IInv, [Next]_vars, NEW i \in Ids
  PROVE  RecordInv(i)'
<1> DEFINE R == RecordInv(i)
<1>a. VarsOK /\ R
  BY DEF IInv
<1> USE <1>a, HandlerShape, PendingAssumption
    DEF RecordInv, Fresh, LiveRecord, FreedRecord, Handled, VarsOK
<1>1. ASSUME NEW id \in Ids, SendUnrecorded(id) \/ Multicast(id) PROVE R'
  BY <1>1 DEF SendUnrecorded, Multicast
<1>2. ASSUME NEW id \in Ids, Store(id) PROVE R'
  <2>1. CASE StoreNoMemory(id) BY <2>1 DEF StoreNoMemory
  <2>2. CASE StoreArm(id)      BY <2>2 DEF StoreArm
  <2>3. CASE StoreInsert(id)   BY <2>3 DEF StoreInsert, Touch, MemStates, TimerStates
  <2>4. CASE StoreFail(id)
    BY <2>4 DEF StoreFail, Touch, Free, ShutdownSync, CallbackRuns, MemStates, TimerStates
  <2>5. QED BY <1>2, <2>1, <2>2, <2>3, <2>4 DEF Store
<1>3. ASSUME NEW id \in Ids, TimerFire(id) PROVE R'
  BY <1>3 DEF TimerFire, MemStates
<1>4. ASSUME NEW id \in Ids, Timeout(id) PROVE R'
  <2>1. CASE TimerXchg(id)   BY <2>1 DEF TimerXchg, Touch, Done, MemStates
  <2>2. CASE TimerErase(id)  BY <2>2 DEF TimerErase, Touch, MemStates
  <2>3. CASE TimerGiveUp(id) BY <2>3 DEF TimerGiveUp, Touch, Free, MemStates
  <2>4. QED BY <1>4, <2>1, <2>2, <2>3 DEF Timeout
<1>5. ASSUME NEW id \in Ids, NEW v \in VerdictMsgs,
             VerdictUnknown(id, v) \/ VerdictTake(id, v)
      PROVE R'
  BY <1>5 DEF VerdictUnknown, VerdictTake, Submit, HandlerIdle, MemStates
<1>6. CASE Handle
  <2>1. CASE VerdictStopTimer
    BY <2>1 DEF VerdictStopTimer, Touch, ShutdownSync, CallbackRuns, HandlerBusy,
                HandlerIdle, MemStates
  <2>2. CASE VerdictWin
    BY <2>2 DEF VerdictWin, Touch, HandlerBusy, HandlerIdle, MemStates
  <2>3. CASE VerdictLose
    BY <2>3 DEF VerdictLose, Touch, Free, Done, HandlerBusy, HandlerIdle, MemStates
  <2>4. CASE VerdictApply
    <3>1. CASE handler.id = i
      <4>1. PICK verified \in {FALSE, handler.v.genuine} :
              outcome'[i] = outcome[i] \cup {IF verified THEN handler.v.verdict ELSE "DENY"}
        BY <2>4, <3>1 DEF VerdictApply
      <4>2. mem'[i] = "freed" /\ frees'[i] = frees[i] + 1 /\ handler' = HandlerIdle
        BY <2>4, <3>1 DEF VerdictApply, Free
      <4>3. handler # HandlerIdle /\ sender[i] = "finished" /\ i \notin pending
        BY <2>4, <3>1 DEF VerdictApply, HandlerIdle, MemStates, SenderStates
      <4>4. UNCHANGED <<sender, pending, timer, overlap>>
        BY <2>4 DEF VerdictApply
      <4>5. badTouch' = IF mem[i] = "live" THEN badTouch ELSE badTouch \cup {i}
        BY <2>4, <3>1 DEF VerdictApply, Touch
      <4>6. CASE i \in overlap
        BY <4>2, <4>3, <4>4, <4>6
      <4>7. CASE i \notin overlap
        <5>1. LiveRecord(i) /\ mem[i] = "live" /\ timer[i] = "shutdown"
          BY <2>4, <3>1, <4>3, <4>7 DEF VerdictApply, MemStates
        <5>2. \A d, e \in outcome'[i] : d = e
          BY <4>1, <5>1
        <5>3. QED
          BY <4>2, <4>3, <4>4, <4>5, <4>7, <5>1, <5>2
      <4>8. QED BY <4>6, <4>7
    <3>2. CASE handler.id # i
      BY <2>4, <3>2 DEF VerdictApply, Touch, Free, HandlerBusy, HandlerIdle, MemStates
    <3>3. QED BY <3>1, <3>2
  <2>5. QED BY <1>6, <2>1, <2>2, <2>3, <2>4 DEF Handle
<1>7. CASE UNCHANGED vars
  BY <1>7 DEF vars
<1>8. QED BY <1>1, <1>2, <1>3, <1>4, <1>5, <1>6, <1>7 DEF Next, Quiescent

\* Every step leaves somebody in charge of each live record.
LEMMA OwnerStep == IInv /\ [Next]_vars => NoLeak'
<1> SUFFICES ASSUME IInv, [Next]_vars, NEW i \in Ids, (mem[i] = "live")'
             PROVE  Owned(i)'
  BY DEF NoLeak
<1>a. VarsOK /\ RecordInv(i) /\ (mem[i] = "live" => Owned(i))
  BY DEF IInv, NoLeak
<1> USE <1>a, HandlerShape DEF Owned, Handled, VarsOK
<1>1. ASSUME NEW id \in Ids, SendUnrecorded(id) \/ Multicast(id) PROVE Owned(i)'
  BY <1>1 DEF SendUnrecorded, Multicast
<1>2. ASSUME NEW id \in Ids, Store(id) PROVE Owned(i)'
  BY <1>2 DEF Store, StoreNoMemory, StoreArm, StoreInsert, StoreFail, Free, ShutdownSync
<1>3. ASSUME NEW id \in Ids, TimerFire(id) PROVE Owned(i)'
  BY <1>3 DEF TimerFire
<1>4. ASSUME NEW id \in Ids, Timeout(id) PROVE Owned(i)'
  BY <1>4 DEF Timeout, TimerXchg, TimerErase, TimerGiveUp, Free
<1>5. ASSUME NEW id \in Ids, NEW v \in VerdictMsgs,
             VerdictUnknown(id, v) \/ VerdictTake(id, v)
      PROVE Owned(i)'
  BY <1>5 DEF VerdictUnknown, VerdictTake, Submit, HandlerIdle
<1>6. CASE Handle
  <2>1. CASE VerdictStopTimer
    BY <2>1 DEF VerdictStopTimer, ShutdownSync, CallbackRuns, HandlerBusy, HandlerIdle
  <2>2. CASE VerdictWin
    BY <2>2 DEF VerdictWin, HandlerBusy, HandlerIdle
  <2>3. CASE VerdictLose
    BY <2>3 DEF VerdictLose, Free, HandlerBusy, HandlerIdle
  <2>4. CASE VerdictApply
    BY <2>4 DEF VerdictApply, Free, HandlerBusy, HandlerIdle
  <2>5. QED BY <1>6, <2>1, <2>2, <2>3, <2>4 DEF Handle
<1>7. CASE UNCHANGED vars
  BY <1>7 DEF vars
<1>8. QED BY <1>1, <1>2, <1>3, <1>4, <1>5, <1>6, <1>7 DEF Next, Quiescent

\* A verdict is signed when the handler still holds it, and an ALLOW is
\* recorded only for a verdict that was.
LEMMA AuthenticStep == IInv /\ [Next]_vars => (AllowIsAuthentic /\ GenuineIsSigned)'
<1> SUFFICES ASSUME IInv, [Next]_vars
             PROVE  (AllowIsAuthentic /\ GenuineIsSigned)'
  OBVIOUS
<1>a. VarsOK /\ AllowIsAuthentic /\ GenuineIsSigned
  BY DEF IInv
<1> USE <1>a, HandlerShape DEF VarsOK, AllowIsAuthentic, GenuineIsSigned
<1>1. ASSUME NEW id \in Ids,
             SendUnrecorded(id) \/ Multicast(id) \/ Store(id) \/ TimerFire(id)
      PROVE (AllowIsAuthentic /\ GenuineIsSigned)'
  BY <1>1 DEF SendUnrecorded, Multicast, Store, StoreNoMemory, StoreArm, StoreInsert,
              StoreFail, TimerFire
<1>2. ASSUME NEW id \in Ids, Timeout(id)
      PROVE (AllowIsAuthentic /\ GenuineIsSigned)'
  BY <1>2 DEF Timeout, TimerXchg, TimerErase, TimerGiveUp
<1>3. ASSUME NEW id \in Ids, NEW v \in VerdictMsgs,
             VerdictUnknown(id, v) \/ VerdictTake(id, v)
      PROVE (AllowIsAuthentic /\ GenuineIsSigned)'
  <2>1. CASE VerdictUnknown(id, v) BY <2>1 DEF VerdictUnknown, Submit
  <2>2. CASE VerdictTake(id, v)
    <3>1. authentic \subseteq authentic' /\ outcome' = outcome
      BY <2>2 DEF VerdictTake, Submit
    <3>2. handler'.v = v /\ handler'.id = id
      BY <2>2 DEF VerdictTake
    <3>3. v.genuine => <<id, v.verdict>> \in authentic'
      BY <2>2 DEF VerdictTake, Submit
    <3>4. QED BY <3>1, <3>2, <3>3
  <2>3. QED BY <1>3, <2>1, <2>2
<1>4. CASE VerdictStopTimer
  BY <1>4 DEF VerdictStopTimer, HandlerBusy, HandlerIdle
<1>5. CASE VerdictWin
  BY <1>5 DEF VerdictWin, HandlerBusy, HandlerIdle
<1>6. CASE VerdictLose
  BY <1>6 DEF VerdictLose
<1>7. CASE VerdictApply
  <2>1. handler # HandlerIdle /\ handler' = HandlerIdle /\ authentic' = authentic
    BY <1>7 DEF VerdictApply, HandlerIdle
  <2>2. PICK verified \in {FALSE, handler.v.genuine} :
          outcome' = [outcome EXCEPT ![handler.id] =
                        @ \cup {IF verified THEN handler.v.verdict ELSE "DENY"}]
    BY <1>7 DEF VerdictApply
  <2>3. ASSUME NEW j \in Ids, "ALLOW" \in outcome'[j], "ALLOW" \notin outcome[j]
        PROVE  j = handler.id /\ verified /\ handler.v.verdict = "ALLOW"
    BY <2>2, <2>3
  <2>4. \A j \in Ids : "ALLOW" \in outcome'[j] => <<j, "ALLOW">> \in authentic'
    BY <2>1, <2>2, <2>3
  <2>5. QED BY <2>1, <2>4
<1>8. CASE UNCHANGED vars
  BY <1>8 DEF vars
<1>9. QED BY <1>1, <1>2, <1>3, <1>4, <1>5, <1>6, <1>7, <1>8 DEF Next, Handle, Quiescent

\* The strengthening the safety properties rest on is always true.
THEOREM Invariance == Spec => []IInv
<1>1. Init => IInv
  BY InitInv
<1>2. IInv /\ [Next]_vars => IInv'
  BY TypeStep, RecordStep, OwnerStep, AuthenticStep DEF IInv
<1>3. QED
  BY <1>1, <1>2, PTL DEF Spec

\* The variables keep their types and a timer that can fire has a record that is
\* live, whatever probes, timers and listeners do.
THEOREM TypeCorrect == Spec => []TypeOK
<1>1. ASSUME IInv, NEW id \in Ids
      PROVE  /\ timer[id] = "armed" => mem[id] = "live"
             /\ mem[id] = "none" =>
                  timer[id] = "none" /\ id \notin pending /\ ~Handled(id) /\ sender[id] # "armed"
  BY <1>1 DEF IInv, VarsOK, MemStates, RecordInv, Fresh, FreedRecord
<1>2. IInv => TypeOK
  BY <1>1 DEF IInv, TypeOK
<1>3. QED
  BY <1>2, Invariance, PTL

\* No record of an event is ever lost track of.
THEOREM NoRecordLeaks == Spec => []NoLeak
  BY Invariance, PTL DEF IInv

\* Use after free and double free happen in the two windows that overlap
\* records, and nowhere else.
THEOREM RacesAreConfined == Spec => []RaceConfined
<1>1. ASSUME IInv, NEW id \in Ids \ overlap
      PROVE  id \notin badTouch /\ frees[id] <= 1
  <2>1. RecordInv(id) /\ mem[id] \in MemStates
    BY <1>1 DEF IInv, VarsOK
  <2>2. frees[id] \in {0, 1}
    BY <1>1, <2>1 DEF MemStates, RecordInv, Fresh, LiveRecord, FreedRecord
  <2>3. QED BY <1>1, <2>1, <2>2 DEF RecordInv
<1>2. IInv => RaceConfined
  BY <1>1 DEF RaceConfined
<1>3. QED
  BY <1>2, Invariance, PTL

\* Outside those windows an event is decided at most once.
THEOREM OneDecision == Spec => []DecidedOnce
<1>1. ASSUME IInv, NEW id \in Ids \ overlap
      PROVE  \A d, e \in outcome[id] : d = e
  <2>1. RecordInv(id) /\ mem[id] \in MemStates
    BY <1>1 DEF IInv, VarsOK
  <2>2. CASE mem[id] = "none"  BY <2>1, <2>2 DEF RecordInv, Fresh
  <2>3. CASE mem[id] = "live"  BY <2>1, <2>3, <1>1 DEF RecordInv, LiveRecord
  <2>4. CASE mem[id] = "freed" BY <2>1, <2>4, <1>1 DEF RecordInv, FreedRecord
  <2>5. QED BY <2>1, <2>2, <2>3, <2>4 DEF MemStates
<1>2. IInv => DecidedOnce
  BY <1>1 DEF DecidedOnce
<1>3. QED
  BY <1>2, Invariance, PTL

\* No ALLOW without the daemon's signature on it, races or not.
THEOREM Authenticity == Spec => []AllowIsAuthentic
  BY Invariance, PTL DEF IInv

-----------------------------------------------------------------------------
(* The drop list.                                                           *)

\* A key record is a key.
LEMMA KeyType ==
  ASSUME NEW pid \in Pids, NEW ip \in Ips, NEW port \in Ports, NEW proto \in Protos
  PROVE  [pid |-> pid, ip |-> ip, port |-> port, proto |-> proto] \in Keys
  BY DEF Keys

\* Purging keeps the list's type, and takes off what has expired only.
LEMMA PurgedType ==
  ASSUME DropTypeOK
  PROVE  /\ Purged \in [Keys -> Nat \cup {NotListed}]
         /\ \A k \in Keys : Purged[k] > now <=> expires[k] > now
         /\ \A k \in Keys : expires[k] > now => Purged[k] = expires[k]
         /\ \A k \in Keys : ShouldBlock(k) <=> Left[k] > 0
<1>1. now \in Nat /\ expires \in [Keys -> Nat \cup {NotListed}]
  BY DEF DropTypeOK
<1>2. Purged \in [Keys -> Nat \cup {NotListed}]
  BY <1>1 DEF Purged
<1>3. \A k \in Keys : Purged[k] > now <=> expires[k] > now
  BY <1>1 DEF Purged, NotListed
<1>4. \A k \in Keys : expires[k] > now => Purged[k] = expires[k]
  BY <1>1 DEF Purged, NotListed
<1>5. \A k \in Keys : ShouldBlock(k) <=> Left[k] > 0
  BY <1>1 DEF Purged, NotListed, ShouldBlock, Left
<1>6. QED BY <1>2, <1>3, <1>4, <1>5

\* qks_drop_add bans its key, or is without effect for want of memory.
LEMMA DropAddEffect ==
  ASSUME DropTypeOK, NEW k \in Keys, DropAdd(k), now' = now
  PROVE  /\ expires' \in [Keys -> Nat \cup {NotListed}]
         /\ Left' = [Left EXCEPT ![k] = TTL] \/ Left' = Left
<1>1. /\ now \in Nat /\ TTL \in Nat \ {0}
      /\ expires \in [Keys -> Nat \cup {NotListed}]
      /\ Purged \in [Keys -> Nat \cup {NotListed}]
      /\ \A j \in Keys : Purged[j] > now <=> expires[j] > now
      /\ \A j \in Keys : expires[j] > now => Purged[j] = expires[j]
  BY PurgedType, DropAssumption DEF DropTypeOK
<1>2. CASE expires' = [Purged EXCEPT ![k] = now + TTL]
  <2>1. expires' \in [Keys -> Nat \cup {NotListed}]
    BY <1>1, <1>2
  <2>2. Left' = [Left EXCEPT ![k] = TTL]
    <3>1. \A j \in Keys : expires'[j] = IF j = k THEN now + TTL ELSE Purged[j]
      BY <1>1, <1>2
    <3>2. \A j \in Keys :
            (IF expires'[j] > now THEN expires'[j] - now ELSE 0)
              = IF j = k THEN TTL ELSE IF expires[j] > now THEN expires[j] - now ELSE 0
      <4> TAKE j \in Keys
      <4>1. CASE j = k
        BY <1>1, <3>1, <4>1
      <4>2. CASE j # k
        BY <1>1, <3>1, <4>2
      <4>3. QED BY <4>1, <4>2
    <3>3. QED BY <3>2 DEF Left
  <2>3. QED BY <2>1, <2>2
<1>3. CASE expires' = Purged
  BY <1>1, <1>3 DEF Left
<1>4. QED BY <1>2, <1>3 DEF DropAdd

\* A look-up purges the list, which changes no ban, and answers by the ban.
LEMMA LookupEffect ==
  ASSUME DropTypeOK, NEW k \in Keys, NEW inbound \in BOOLEAN, Lookup(k, inbound), now' = now
  PROVE  /\ expires' \in [Keys -> Nat \cup {NotListed}]
         /\ hook' \in [looked : {TRUE}, key : Keys, inbound : BOOLEAN, drop : BOOLEAN]
         /\ Abs!Lookup(k, inbound)
<1>1. /\ now \in Nat
      /\ expires \in [Keys -> Nat \cup {NotListed}]
      /\ Purged \in [Keys -> Nat \cup {NotListed}]
      /\ \A j \in Keys : Purged[j] > now <=> expires[j] > now
      /\ \A j \in Keys : expires[j] > now => Purged[j] = expires[j]
      /\ ShouldBlock(k) <=> Left[k] > 0
  BY PurgedType DEF DropTypeOK
<1>2. expires' = Purged /\ Left' = Left
  BY <1>1 DEF Lookup, Left
<1>3. ShouldBlock(k) \in BOOLEAN /\ (Left[k] > 0) \in BOOLEAN
  BY DEF ShouldBlock
<1>4. ShouldBlock(k) = (Left[k] > 0)
  BY <1>1, <1>3
<1>5. hook' = [looked |-> TRUE, key |-> k, inbound |-> inbound, drop |-> Left[k] > 0]
  BY <1>4 DEF Lookup
<1>6. QED BY <1>1, <1>2, <1>3, <1>5 DEF Abs!Lookup

\* The events that wait stay finitely many, and within the bound.
LEMMA ReportType ==
  ASSUME DropTypeOK, NEW ev \in Events, Report(ev)
  PROVE  /\ waiting' \in SUBSET Events /\ IsFiniteSet(waiting')
         /\ Cardinality(waiting') <= MaxPending
  BY FS_AddElement DEF Report, DropTypeOK

\* So do those that are left when one is answered.
LEMMA AnsweredType ==
  ASSUME DropTypeOK, NEW ev \in Events, Answered(ev)
  PROVE  /\ waiting' \in SUBSET Events /\ IsFiniteSet(waiting')
         /\ Cardinality(waiting') <= MaxPending
<1>1. /\ IsFiniteSet(waiting \ {ev})
      /\ Cardinality(waiting \ {ev}) = Cardinality(waiting) - 1
  BY FS_RemoveElement DEF DropTypeOK, Answered
<1>2. Cardinality(waiting) \in Nat /\ MaxPending \in Nat
  BY FS_CardinalityType, DropAssumption DEF DropTypeOK
<1>3. /\ waiting \in SUBSET Events /\ IsFiniteSet(waiting) /\ Cardinality(waiting) <= MaxPending
      /\ waiting' = waiting \/ waiting' = waiting \ {ev}
  BY DEF DropTypeOK, Answered
<1>4. CASE waiting' = waiting
  BY <1>3, <1>4
<1>5. CASE waiting' = waiting \ {ev}
  <2>1. Cardinality(waiting \ {ev}) <= MaxPending
    BY <1>1, <1>2, <1>3
  <2>2. QED BY <1>1, <1>3, <1>5, <2>1
<1>6. QED BY <1>3, <1>4, <1>5

\* One hook: what it looks up, and the event it may report.
LEMMA HookStep ==
  ASSUME DropTypeOK, NEW k \in Keys, NEW inbound \in BOOLEAN, Lookup(k, inbound), now' = now,
         NEW ev \in Events, Report(ev) \/ UNCHANGED waiting
  PROVE  DropTypeOK' /\ Abs!Lookup(k, inbound)
<1>1. /\ waiting' \in SUBSET Events /\ IsFiniteSet(waiting')
      /\ Cardinality(waiting') <= MaxPending
  BY ReportType DEF DropTypeOK
<1>2. QED BY <1>1, LookupEffect DEF DropTypeOK

-----------------------------------------------------------------------------
\* Every step keeps the types and is a step of the ban, or none.
LEMMA DropStep == DropTypeOK /\ [DropNext]_dropVars => DropTypeOK' /\ [Abs!Next]_<<Left, hook>>
<1> SUFFICES ASSUME DropTypeOK, [DropNext]_dropVars
             PROVE  DropTypeOK' /\ [Abs!Next]_<<Left, hook>>
  OBVIOUS
<1>1. ASSUME NEW k \in Keys, NEW in \in BOOLEAN, Abs!Lookup(k, in) PROVE Abs!Next
  BY <1>1 DEF Abs!Next
<1>2. ASSUME NEW pid \in Pids, NEW ip \in Ips, NEW srcp \in Ports, NEW dstp \in Ports,
             NfHook(pid, ip, srcp, dstp)
      PROVE  DropTypeOK' /\ Abs!Next
  <2> DEFINE key == [pid |-> pid, ip |-> ip, port |-> dstp, proto |-> "tcp"]
             ev  == [type |-> "PACKET", key |-> key]
  <2>1. key \in Keys /\ ev \in Events
    <3>1. key \in Keys /\ key.proto = "tcp"
      BY DEF Keys, Protos
    <3> HIDE DEF key
    <3>2. QED BY <3>1 DEF Events
  <2>2. Lookup(key, FALSE) /\ now' = now /\ (Report(ev) \/ UNCHANGED waiting)
    BY <1>2 DEF NfHook
  <2> HIDE DEF key, ev
  <2>3. QED BY <1>1, <2>1, <2>2, HookStep
<1>3. ASSUME NEW pid \in Pids, NEW ip \in Ips, NEW dstp \in Ports, NEW wellFormed \in BOOLEAN,
             DnsHook(pid, ip, dstp, wellFormed)
      PROVE  DropTypeOK' /\ Abs!Next
  <2> DEFINE key == [pid |-> pid, ip |-> ip, port |-> dstp, proto |-> "udp"]
             ev  == [type |-> "DNS", key |-> key]
  <2>1. key \in Keys /\ ev \in Events
    <3>1. key \in Keys /\ key.proto = "udp" /\ key.port = DnsPort
      BY <1>3 DEF Keys, Protos, DnsHook
    <3> HIDE DEF key
    <3>2. QED BY <3>1 DEF Events
  <2>2. Lookup(key, FALSE) /\ now' = now /\ (Report(ev) \/ UNCHANGED waiting)
    BY <1>3 DEF DnsHook
  <2> HIDE DEF key, ev
  <2>3. QED BY <1>1, <2>1, <2>2, HookStep
<1>4. ASSUME NEW ip \in Ips, NEW srcp \in Ports, NEW dstp \in Ports, NEW proto \in Protos,
             NfHookIn(ip, srcp, dstp, proto)
      PROVE  DropTypeOK' /\ Abs!Next
  <2> DEFINE key == [pid |-> 0, ip |-> ip, port |-> srcp, proto |-> proto]
             ev  == [type |-> "PACKET_IN", key |-> key]
  <2>1. key \in Keys /\ ev \in Events
    <3>1. key \in Keys /\ key.pid = 0
      BY DropAssumption DEF Keys
    <3> HIDE DEF key
    <3>2. QED BY <3>1 DEF Events
  <2>2. Lookup(key, TRUE) /\ now' = now /\ (Report(ev) \/ UNCHANGED waiting)
    BY <1>4 DEF NfHookIn
  <2> HIDE DEF key, ev
  <2>3. QED BY <1>1, <2>1, <2>2, HookStep
<1>5. ASSUME NEW ev \in waiting, ApplyDeny(ev)
      PROVE  DropTypeOK' /\ [Abs!Next]_<<Left, hook>>
  <2>1. ev \in Events /\ ev.key \in Keys
    BY DEF DropTypeOK, Events
  <2>2. Answered(ev) /\ now' = now /\ hook' = hook
    BY <1>5 DEF ApplyDeny
  <2>3. CASE DropAdd(ev.key)
    <3>1. DropTypeOK'
      BY <2>1, <2>2, <2>3, DropAddEffect, AnsweredType DEF DropTypeOK
    <3>2. Left' = [Left EXCEPT ![ev.key] = TTL] \/ Left' = Left
      BY <2>1, <2>2, <2>3, DropAddEffect
    <3>3. QED BY <2>1, <2>2, <3>1, <3>2 DEF Abs!Next, Abs!Deny
  <2>4. CASE UNCHANGED expires
    BY <2>1, <2>2, <2>4, AnsweredType DEF DropTypeOK, Left
  <2>5. QED BY <1>5, <2>3, <2>4 DEF ApplyDeny
<1>6. ASSUME NEW ev \in waiting, ApplyNothing(ev)
      PROVE  DropTypeOK' /\ [Abs!Next]_<<Left, hook>>
  <2>1. ev \in Events
    BY DEF DropTypeOK
  <2>2. QED BY <1>6, <2>1, AnsweredType DEF ApplyNothing, DropTypeOK, Left
<1>7. CASE Tick
  <2>1. DropTypeOK'
    <3>1. now' \in Nat /\ UNCHANGED <<expires, waiting, hook>>
      BY <1>7 DEF Tick, DropTypeOK
    <3>2. QED BY <3>1 DEF DropTypeOK
  <2>2. Left' = [k \in Keys |-> IF Left[k] > 0 THEN Left[k] - 1 ELSE 0]
    <3>1. /\ now \in Nat /\ now' = now + 1 /\ expires' = expires
          /\ expires \in [Keys -> Nat \cup {NotListed}]
      BY <1>7 DEF Tick, DropTypeOK
    <3>2. \A k \in Keys :
            (IF expires[k] > now + 1 THEN expires[k] - (now + 1) ELSE 0)
              = IF Left[k] > 0 THEN Left[k] - 1 ELSE 0
      BY <3>1 DEF Left, NotListed
    <3>3. QED BY <3>1, <3>2 DEF Left
  <2>3. QED BY <1>7, <2>1, <2>2 DEF Tick, Abs!Next, Abs!Tick
<1>8. CASE UNCHANGED dropVars
  BY <1>8 DEF dropVars, DropTypeOK, Left
<1>9. QED BY <1>2, <1>3, <1>4, <1>5, <1>6, <1>7, <1>8 DEF DropNext

\* At first nothing is listed and nothing is banned.
LEMMA DropStart == DropInit => DropTypeOK /\ Abs!Init
<1> SUFFICES ASSUME DropInit PROVE DropTypeOK /\ Abs!Init
  OBVIOUS
<1>1. DropTypeOK
  BY DropAssumption, FS_EmptySet DEF DropInit, DropTypeOK
<1>2. Left = [k \in Keys |-> 0]
  BY DEF DropInit, Left, NotListed
<1>3. QED BY <1>1, <1>2 DEF DropInit, Abs!Init, NoHook, Abs!NoHook

\* The variables keep their types, and the waiting events their bound.
THEOREM DropTypeCorrect == DropSpec => []DropTypeOK
<1>1. DropInit => DropTypeOK
  BY DropStart
<1>2. DropTypeOK /\ [DropNext]_dropVars => DropTypeOK'
  BY DropStep
<1>3. QED BY <1>1, <1>2, PTL DEF DropSpec

\* The drop list with its lazy purges (qks_drop_add, qks_drop_should_block,
\* qks_drop_purge_expired_locked and the three hooks) implements the ban.
THEOREM DropListRefines == DropSpec => ImplementsBan
<1>1. DropInit => Abs!Init
  BY DropStart
<1>2. DropTypeOK /\ [DropNext]_dropVars => [Abs!Next]_<<Left, hook>>
  BY DropStep
<1>3. QED BY <1>1, <1>2, DropTypeCorrect, PTL DEF DropSpec, ImplementsBan, Abs!Spec

=============================================================================
