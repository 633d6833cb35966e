-------------------------- MODULE PendingVerdicts --------------------------
(***************************************************************************)
(* The kernel module's table of events that wait for a verdict             *)
(* (kernel/qks_netlink.c).                                                 *)
(*                                                                         *)
(* A probe or a hook calls qks_send_msg for an event: the event is         *)
(* multicast to the daemon and only then is a record p = qks_pending for   *)
(* it allocated, its timer started and p stored in an xarray under the     *)
(* event's id.  Two parties compete for p: the netlink handler of the      *)
(* daemon's verdict, which takes p out of the xarray and applies the       *)
(* verdict, and the timer callback, which gives up on the event.  Both     *)
(* free p.  They run on different CPUs, so each shared access is a step.   *)
(*                                                                         *)
(* Ids are unique (qks_next_id is an atomic 64-bit increment), so a record *)
(* is named by its event's id and xa_store never finds an older record.    *)
(* The handlers of verdicts run one at a time: qks_family does not set     *)
(* parallel_ops, so generic netlink holds its mutex around them.           *)
(***************************************************************************)
EXTENDS Naturals

CONSTANTS
  Ids,           \* events that probes and hooks report
  MaxVerdicts,   \* bound: verdicts that listeners send for one event
  EarlyExpiry    \* may the deadline pass before xa_store?  (the module
                 \* parameter verdict_timeout_ms is writable and may be 0)

ASSUME PendingAssumption ==
  /\ MaxVerdicts \in Nat
  /\ EarlyExpiry \in BOOLEAN

VARIABLES
  sender,      \* progress of qks_send_msg, per event
  pending,     \* the xarray: ids that have an entry
  mem,         \* the memory of p, per event
  done,        \* p->done, per event
  timer,       \* p->tmo and the progress of its callback, per event
  handler,     \* the verdict handler: progress, record it took, verdict
  verdicts,    \* verdicts sent so far, per event
  \* what happened, for the properties
  authentic,   \* (event, verdict) pairs the daemon signed
  outcome,     \* what was decided for each event
  frees,       \* how often p was passed to kfree
  overlap,     \* records the expiring callback and another party both own
  badTouch     \* records accessed after they were freed

vars == <<sender, pending, mem, done, timer, handler, verdicts,
          authentic, outcome, frees, overlap, badTouch>>

Decisions    == {"ALLOW", "DENY"}
\* v: the verdict byte, and whether hash and signature are genuine.
VerdictMsgs  == [verdict : Decisions, genuine : BOOLEAN]
SenderStates == {"new", "multicast", "armed", "finished"}
MemStates    == {"none", "live", "freed"}
\* "fired": the callback was entered; "won": it set done; "erased": it
\* erased the entry; "ended": it returned; "shutdown": it can never run.
TimerStates  == {"none", "armed", "fired", "won", "erased", "ended", "shutdown"}
HandlerIdle  == [pc |-> "idle"]
HandlerBusy  == [pc : {"taken", "stopped", "won"}, id : Ids, v : VerdictMsgs]

Handled(id) == handler # HandlerIdle /\ handler.id = id

CallbackRuns(id) == timer[id] \in {"fired", "won", "erased"}

Init ==
  /\ sender    = [id \in Ids |-> "new"]
  /\ pending   = {}
  /\ mem       = [id \in Ids |-> "none"]
  /\ done      = [id \in Ids |-> FALSE]
  /\ timer     = [id \in Ids |-> "none"]
  /\ handler   = HandlerIdle
  /\ verdicts  = [id \in Ids |-> 0]
  /\ authentic = {}
  /\ outcome   = [id \in Ids |-> {}]
  /\ frees     = [id \in Ids |-> 0]
  /\ overlap   = {}
  /\ badTouch  = {}

-----------------------------------------------------------------------------
(* Access to p: legal while p is live.  What a freed record holds is        *)
(* undefined, so a read of p->done then returns any value.                  *)

Touch(id) == badTouch' = IF mem[id] = "live" THEN badTouch ELSE badTouch \cup {id}

Done(id)  == IF mem[id] = "live" THEN {done[id]} ELSE BOOLEAN

Free(id)  == /\ mem'   = [mem EXCEPT ![id] = "freed"]
             /\ frees' = [frees EXCEPT ![id] = @ + 1]

\* timer_shutdown_sync waits for a running callback; a timer it stops
\* never fires again.
ShutdownSync(id) ==
  /\ ~CallbackRuns(id)
  /\ timer' = [timer EXCEPT ![id] = IF @ = "armed" THEN "shutdown" ELSE @]

-----------------------------------------------------------------------------
(* qks_send_msg, in the context of the probe or hook that saw the event.    *)

\* No memory for the message, no listener (-ESRCH, "-> ALLOW"), or the
\* multicast failed: nothing is recorded.
SendUnrecorded(id) ==
  /\ sender[id] = "new"
  /\ sender' = [sender EXCEPT ![id] = "finished"]
  /\ UNCHANGED <<pending, mem, done, timer, handler, verdicts,
                 authentic, outcome, frees, overlap, badTouch>>

\* genlmsg_multicast reached a listener, which may answer from now on.
Multicast(id) ==
  /\ sender[id] = "new"
  /\ sender' = [sender EXCEPT ![id] = "multicast"]
  /\ UNCHANGED <<pending, mem, done, timer, handler, verdicts,
                 authentic, outcome, frees, overlap, badTouch>>

\* kmalloc or kmemdup fails; qks_send_msg ignores the -ENOMEM.
StoreNoMemory(id) ==
  /\ sender[id] = "multicast"
  /\ sender' = [sender EXCEPT ![id] = "finished"]
  /\ UNCHANGED <<pending, mem, done, timer, handler, verdicts,
                 authentic, outcome, frees, overlap, badTouch>>

\* Slip: mod_timer is forgotten.
StoreArmNoTimer(id) ==
  /\ sender[id] = "multicast"
  /\ sender' = [sender EXCEPT ![id] = "armed"]
  /\ mem'    = [mem   EXCEPT ![id] = "live"]
  /\ done'   = [done  EXCEPT ![id] = FALSE]
  /\ UNCHANGED <<pending, timer, handler, verdicts,
                 authentic, outcome, frees, overlap, badTouch>>

\* The record is filled in and its timer started, before it is stored.
StoreArm(id) ==
  /\ sender[id] = "multicast"
  /\ sender' = [sender EXCEPT ![id] = "armed"]
  /\ mem'    = [mem   EXCEPT ![id] = "live"]
  /\ done'   = [done  EXCEPT ![id] = FALSE]
  /\ timer'  = [timer EXCEPT ![id] = "armed"]
  /\ UNCHANGED <<pending, handler, verdicts,
                 authentic, outcome, frees, overlap, badTouch>>

\* xa_store(p->id, p).  Dangling if the callback is past its xa_erase.
StoreInsert(id) ==
  /\ sender[id] = "armed"
  /\ sender'  = [sender EXCEPT ![id] = "finished"]
  /\ pending' = pending \cup {id}
  /\ overlap' = IF timer[id] \in {"erased", "ended"}
                THEN overlap \cup {id} ELSE overlap
  /\ Touch(id)
  /\ UNCHANGED <<mem, done, timer, handler, verdicts,
                 authentic, outcome, frees>>

\* Slip: the record is not freed when xa_store fails.
StoreFailLeaks(id) ==
  /\ sender[id] = "armed"
  /\ sender'  = [sender EXCEPT ![id] = "finished"]
  /\ ShutdownSync(id)
  /\ UNCHANGED <<pending, mem, done, handler, verdicts, authentic, outcome,
                 frees, overlap, badTouch>>

\* Slip: the timer is not shut down when xa_store fails.
StoreFailTimerLeft(id) ==
  /\ sender[id] = "armed"
  /\ sender'  = [sender EXCEPT ![id] = "finished"]
  /\ overlap' = IF timer[id] = "ended" THEN overlap \cup {id} ELSE overlap
  /\ Touch(id)
  /\ Free(id)
  /\ UNCHANGED <<pending, done, timer, handler, verdicts, authentic, outcome>>

\* xa_store fails: stop the timer, free the record, return the error,
\* which qks_send_msg ignores.
StoreFail(id) ==
  /\ sender[id] = "armed"
  /\ sender'  = [sender EXCEPT ![id] = "finished"]
  /\ ShutdownSync(id)
  /\ overlap' = IF timer[id] = "ended" THEN overlap \cup {id} ELSE overlap
  /\ Touch(id)
  /\ Free(id)
  /\ UNCHANGED <<pending, done, handler, verdicts, authentic, outcome>>

-----------------------------------------------------------------------------
(* qks_verdict_timeout, in a timer softirq.                                 *)

\* The deadline passes and the callback is entered.
TimerFire(id) ==
  /\ timer[id] = "armed"
  /\ EarlyExpiry \/ sender[id] # "armed"
  /\ timer' = [timer EXCEPT ![id] = "fired"]
  /\ UNCHANGED <<sender, pending, mem, done, handler, verdicts,
                 authentic, outcome, frees, overlap, badTouch>>

\* atomic_xchg(&p->done, 1): whoever set it first handles the event.
TimerXchg(id) ==
  /\ timer[id] = "fired"
  /\ \E d \in Done(id) :
       /\ timer'   = [timer EXCEPT ![id] = IF d THEN "ended" ELSE "won"]
       /\ overlap' = IF ~d /\ Handled(id) THEN overlap \cup {id} ELSE overlap
  /\ done' = [done EXCEPT ![id] = TRUE]
  /\ Touch(id)
  /\ UNCHANGED <<sender, pending, mem, handler, verdicts,
                 authentic, outcome, frees>>

\* Slip: the callback leaves the entry in the xarray.
TimerEraseSkipped(id) ==
  /\ timer[id] = "won"
  /\ timer' = [timer EXCEPT ![id] = "erased"]
  /\ UNCHANGED <<sender, pending, mem, done, handler, verdicts,
                 authentic, outcome, frees, overlap, badTouch>>

\* xa_erase(p->id); the entry may be gone already, the result is ignored.
TimerErase(id) ==
  /\ timer[id] = "won"
  /\ timer'   = [timer EXCEPT ![id] = "erased"]
  /\ pending' = pending \ {id}
  /\ Touch(id)
  /\ UNCHANGED <<sender, mem, done, handler, verdicts,
                 authentic, outcome, frees, overlap>>

\* "FALLBACK: verdict timeout -> DENY" is logged, nothing is enforced (the
\* call of qks_apply_verdict is commented out), and the record is freed.
TimerGiveUp(id) ==
  /\ timer[id] = "erased"
  /\ timer'   = [timer EXCEPT ![id] = "ended"]
  /\ outcome' = [outcome EXCEPT ![id] = @ \cup {"EXPIRED"}]
  /\ Touch(id)
  /\ Free(id)
  /\ UNCHANGED <<sender, pending, done, handler, verdicts,
                 authentic, overlap>>

-----------------------------------------------------------------------------
(* qks_cmd_verdict, in the context of the sender of the verdict.            *)

\* A listener sends a verdict for an event it received; the handler runs in
\* its sendmsg call.
Submit(id, v) ==
  /\ handler = HandlerIdle
  /\ sender[id] # "new" /\ verdicts[id] < MaxVerdicts
  /\ verdicts'  = [verdicts EXCEPT ![id] = @ + 1]
  /\ authentic' = IF v.genuine THEN authentic \cup {<<id, v.verdict>>}
                               ELSE authentic

\* xa_erase finds no record: "Verdict for unknown event_id".
VerdictUnknown(id, v) ==
  /\ Submit(id, v)
  /\ id \notin pending
  /\ UNCHANGED <<sender, pending, mem, done, timer, handler,
                 outcome, frees, overlap, badTouch>>

\* Slip: the record is looked up with xa_load and stays in the xarray.
VerdictPeek(id, v) ==
  /\ Submit(id, v)
  /\ id \in pending
  /\ handler' = [pc |-> "taken", id |-> id, v |-> v]
  /\ overlap' = IF timer[id] = "won" THEN overlap \cup {id} ELSE overlap
  /\ UNCHANGED <<sender, pending, mem, done, timer, outcome, frees, badTouch>>

\* qks_take_pending: xa_erase hands the record over.
VerdictTake(id, v) ==
  /\ Submit(id, v)
  /\ id \in pending
  /\ pending' = pending \ {id}
  /\ handler' = [pc |-> "taken", id |-> id, v |-> v]
  /\ overlap' = IF timer[id] = "won" THEN overlap \cup {id} ELSE overlap
  /\ UNCHANGED <<sender, mem, done, timer, outcome, frees, badTouch>>

\* Slip: the timer is not shut down.
VerdictKeepTimer ==
  /\ handler.pc = "taken"
  /\ ~CallbackRuns(handler.id)
  /\ handler' = [handler EXCEPT !.pc = "stopped"]
  /\ Touch(handler.id)
  /\ UNCHANGED <<sender, pending, mem, done, timer, verdicts,
                 authentic, outcome, frees, overlap>>

\* "Ensure timer cannot fire after proceed."
VerdictStopTimer ==
  /\ handler.pc = "taken"
  /\ ShutdownSync(handler.id)
  /\ handler' = [handler EXCEPT !.pc = "stopped"]
  /\ Touch(handler.id)
  /\ UNCHANGED <<sender, pending, mem, done, verdicts,
                 authentic, outcome, frees, overlap>>

\* atomic_xchg(&p->done, 1) finds 0: the handler decides the event.
VerdictWin ==
  /\ handler.pc = "stopped"
  /\ FALSE \in Done(handler.id)
  /\ done'    = [done EXCEPT ![handler.id] = TRUE]
  /\ handler' = [handler EXCEPT !.pc = "won"]
  /\ Touch(handler.id)
  /\ UNCHANGED <<sender, pending, mem, timer, verdicts,
                 authentic, outcome, frees, overlap>>

\* It finds 1: "if timer already handled, drop quietly", and free.
VerdictLose ==
  /\ handler.pc = "stopped"
  /\ TRUE \in Done(handler.id)
  /\ handler' = HandlerIdle
  /\ Touch(handler.id)
  /\ Free(handler.id)
  /\ UNCHANGED <<sender, pending, done, timer, verdicts,
                 authentic, outcome, overlap>>

\* Slip: the verdict is applied without verification.
VerdictApplyUnverified ==
  /\ handler.pc = "won"
  /\ outcome' = [outcome EXCEPT ![handler.id] = @ \cup {handler.v.verdict}]
  /\ Touch(handler.id)
  /\ Free(handler.id)
  /\ handler' = HandlerIdle
  /\ UNCHANGED <<sender, pending, done, timer, verdicts, authentic, overlap>>

\* Verification (it also fails when hashing does) and qks_apply_verdict:
\* what does not verify is a DENY for "invalid_signature".
VerdictApply ==
  /\ handler.pc = "won"
  /\ LET id == handler.id IN
       /\ \E verified \in {FALSE, handler.v.genuine} :
            outcome' = [outcome EXCEPT ![id] =
              @ \cup {IF verified THEN handler.v.verdict ELSE "DENY"}]
       /\ Touch(id)
       /\ Free(id)
  /\ handler' = HandlerIdle
  /\ UNCHANGED <<sender, pending, done, timer, verdicts,
                 authentic, overlap>>

-----------------------------------------------------------------------------
Store(id) == StoreNoMemory(id) \/ StoreArm(id) \/ StoreInsert(id) \/ StoreFail(id)

Timeout(id) == TimerXchg(id) \/ TimerErase(id) \/ TimerGiveUp(id)

Handle == VerdictStopTimer \/ VerdictWin \/ VerdictLose \/ VerdictApply

\* Nothing is left to do: every event was reported and answered.
Quiescent ==
  /\ \A id \in Ids : /\ sender[id] = "finished" /\ verdicts[id] = MaxVerdicts
                     /\ timer[id] \in {"none", "ended", "shutdown"}
  /\ handler = HandlerIdle
  /\ UNCHANGED vars

Next ==
  \/ \E id \in Ids : \/ SendUnrecorded(id) \/ Multicast(id)
                     \/ Store(id) \/ TimerFire(id) \/ Timeout(id)
                     \/ \E v \in VerdictMsgs : VerdictUnknown(id, v) \/ VerdictTake(id, v)
  \/ Handle
  \/ Quiescent

\* Code that has been entered runs on, and timers fire.  No listener is
\* obliged to send a verdict.
Fairness ==
  /\ \A id \in Ids : /\ WF_vars(Store(id))
                     /\ WF_vars(TimerFire(id))
                     /\ WF_vars(Timeout(id))
  /\ WF_vars(Handle)

Spec == Init /\ [][Next]_vars /\ Fairness

-----------------------------------------------------------------------------
(* Properties.                                                              *)

VarsOK ==
  /\ sender    \in [Ids -> SenderStates]
  /\ pending   \in SUBSET Ids
  /\ mem       \in [Ids -> MemStates]
  /\ done      \in [Ids -> BOOLEAN]
  /\ timer     \in [Ids -> TimerStates]
  /\ handler   \in HandlerBusy \cup {HandlerIdle}
  /\ verdicts  \in [Ids -> 0..MaxVerdicts]
  /\ authentic \in SUBSET (Ids \X Decisions)
  /\ outcome   \in [Ids -> SUBSET (Decisions \cup {"EXPIRED"})]
  /\ frees     \in [Ids -> Nat]
  /\ overlap   \in SUBSET Ids
  /\ badTouch  \in SUBSET Ids

\* The types, and that pointers lead to memory: a timer that is going to fire
\* to a record that is live, and an entry of the table, a handler or a sender
\* to one that was allocated (lines 46-74).
TypeOK ==
  /\ VarsOK
  /\ \A id \in Ids :
       /\ timer[id] = "armed" => mem[id] = "live"
       /\ mem[id] = "none" =>
            timer[id] = "none" /\ id \notin pending /\ ~Handled(id) /\ sender[id] # "armed"

\* Some party will still free the record of the event.
Owned(id) ==
  \/ sender[id] = "armed"
  \/ id \in pending
  \/ Handled(id)
  \/ timer[id] \in {"won", "erased"}

\* No record is leaked: as long as one is allocated, someone is left who
\* will free it (lines 53-80, 113-154, 212-223).
NoLeak == \A id \in Ids : mem[id] = "live" => Owned(id)

\* A record is freed twice, or accessed after kfree, in two windows only:
\* the callback sets p->done between the handler's taking the record and
\* its stopping the timer (or the handler takes it between the callback's
\* setting done and its xa_erase), or the deadline passes before xa_store
\* and the callback has erased nothing by then.  Elsewhere the hand-over through
\* the xarray, p->done and timer_shutdown_sync is exact.
RaceConfined == \A id \in Ids \ overlap : id \notin badTouch /\ frees[id] <= 1

\* "First handler wins": outside these windows an event gets one outcome,
\* a verdict or the timeout, never both and never two verdicts.
DecidedOnce ==
  \A id \in Ids \ overlap : \A d, e \in outcome[id] : d = e

\* An event is allowed by a verdict only if the daemon signed an ALLOW for
\* that very event; whatever does not verify can only deny.
AllowIsAuthentic ==
  \A id \in Ids : "ALLOW" \in outcome[id] => <<id, "ALLOW">> \in authentic

\* Every record is freed in the end, verdict or no verdict: the deadline
\* takes care of what the daemon does not answer.
EveryRecordFreed ==
  \A id \in Ids : (mem[id] = "live") ~> (mem[id] = "freed")

\* ... and its entry leaves the table.
EveryEntryLeaves ==
  \A id \in Ids : (id \in pending /\ id \notin overlap) ~> (id \notin pending)

\* The strengthening that makes RaceConfined and DecidedOnce inductive.
\* Outside the windows a record is live exactly as long as one party is
\* left to free it, p->done tells which party has won it, and the timer
\* of a record the handler is past stopping can never fire.
Fresh(id) ==
  /\ timer[id] = "none" /\ frees[id] = 0 /\ outcome[id] = {}
  /\ id \notin pending /\ ~Handled(id) /\ sender[id] # "armed" /\ id \notin overlap

LiveRecord(id) ==
  /\ frees[id] = 0 /\ outcome[id] = {}
  /\ timer[id] \in {"armed", "fired"} => ~done[id]
  /\ timer[id] \in {"armed", "fired", "won", "erased", "shutdown"}
  /\ timer[id] = "erased" => id \notin pending
  /\ timer[id] \in {"won", "erased"} => ~Handled(id)
  /\ timer[id] = "shutdown" => Handled(id) /\ handler.pc # "taken"
  /\ Handled(id) /\ handler.pc # "taken" => timer[id] = "shutdown"
  /\ Handled(id) /\ handler.pc # "won" => ~done[id]

FreedRecord(id) ==
  /\ frees[id] = 1 /\ timer[id] \in {"ended", "shutdown"}
  /\ timer[id] = "shutdown" => sender[id] = "finished"
  /\ id \notin pending /\ ~Handled(id)
  /\ \A d, e \in outcome[id] : d = e

RecordInv(id) ==
  /\ sender[id] \in {"new", "multicast"} => mem[id] = "none"
  /\ sender[id] = "armed" => id \notin pending /\ ~Handled(id)
  /\ id \in pending => ~Handled(id)
  /\ mem[id] = "none" => Fresh(id)
  /\ mem[id] = "live" /\ id \notin overlap => LiveRecord(id)
  /\ mem[id] = "freed" /\ id \notin overlap => FreedRecord(id)
  /\ id \in badTouch => id \in overlap
  /\ timer[id] = "armed" => id \notin overlap

GenuineIsSigned ==
  handler # HandlerIdle /\ handler.v.genuine
    => <<handler.id, handler.v.verdict>> \in authentic

IInv == /\ VarsOK /\ NoLeak /\ AllowIsAuthentic /\ GenuineIsSigned
        /\ \A id \in Ids : RecordInv(id)

\* Documented, and not so: "Timeout in ms to wait for daemon verdict; on
\* expiry -> DENY" (qks_netlink.c:23).  The callback enforces nothing.
ExpiryDenies ==
  \A id \in Ids \ overlap : "EXPIRED" \in outcome[id] => "DENY" \in outcome[id]

\* Documented, and not so: "Ensure timer cannot fire after proceed" and
\* "First handler wins" (qks_netlink.c:119 and 122) promise that the two
\* parties never work on one record.
NeverTouchFreed == badTouch = {}
=============================================================================
