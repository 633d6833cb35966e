------------------------------ MODULE KernelLog ------------------------------
(***************************************************************************)
(* The log of the kernel module (kernel/qks_log.c): a ring in vmalloc      *)
(* memory that every part of the module writes to, and /proc/qks/log that  *)
(* dumps it.                                                               *)
(*                                                                         *)
(* The ring is written with interrupts off under its lock.  The dump takes *)
(* the lock without turning interrupts off: a timer or an incoming packet  *)
(* that logs on the CPU of the reader waits for a lock that is never given *)
(* back.  What the lines say is left out, where they go is not.            *)
(***************************************************************************)
EXTENDS Integers

CONSTANTS
  RingSize,      \* QKS_LOG_BUF_SIZE
  LineLens       \* lengths of lines; all are below QKS_LOG_LINE_MAX

ASSUME LogAssumption ==
  /\ RingSize \in Nat \ {0} /\ LineLens \subseteq 1..(RingSize - 1)

VARIABLES
  ring,          \* qks_logbuf: is it allocated?
  head,          \* qks_log_head
  lock,          \* qks_log_lock: free, or with a reader of the file
  proc,          \* whose is /proc/qks: nobody's, the module's, or that of
                 \* code that is gone
  harm           \* what must not happen and did; after it anything may

logVars == <<ring, head, lock, proc>>

Harms == {"freed_ring", "freed_code", "self_deadlock", "stranger"}

LogTypeOK ==
  /\ ring \in {"none", "mapped", "freed"}
  /\ head \in 0..(RingSize - 1)
  /\ lock \in {"free", "reader"}
  /\ proc \in {"none", "ours", "orphan"}
  /\ harm \subseteq Harms

LogStart ==
  /\ ring = "none" /\ head = 0 /\ lock = "free" /\ proc = "none" /\ harm = {}

Hurt(what) == harm' = harm \cup {what}

\* Slip: a line that ends at the end of the ring is taken to leave room.
AfterLineSlip(len) == IF head + len > RingSize THEN len ELSE head + len
\* A line that does not fit before the end starts at the beginning.
AfterLine(len) == IF head + len >= RingSize THEN len ELSE head + len

\* The calls of qks_log in one handler, as one line.  soft: it runs in softirq
\* context, which may have interrupted the reader; others wait for the lock.
qks_log(soft) ==
  /\ \/ /\ lock = "free" /\ ring = "mapped"
        /\ \E len \in LineLens : head' = AfterLine(len)
        /\ UNCHANGED harm
     \/ lock = "free" /\ ring # "mapped" /\ Hurt("freed_ring") /\ UNCHANGED head
     \/ lock = "reader" /\ soft /\ Hurt("self_deadlock") /\ UNCHANGED head
  /\ UNCHANGED <<ring, lock, proc>>

\* qks_log_init.  proc_mkdir does not make a directory there is already: the
\* module never loads again once it left its own behind.
qks_log_init ==
  /\ proc = "none" /\ proc' = "ours"
  /\ ring' = "mapped"
  /\ \E len \in LineLens : head' = len
  /\ UNCHANGED <<lock, harm>>

\* -ENOMEM from vzalloc, proc_mkdir or proc_create, which undo the ones before.
qks_log_init_fails == ring' = "none" /\ UNCHANGED <<head, lock, proc, harm>>

\* qks_log_exit; remove_proc_entry waits for a reader inside.
qks_log_exit ==
  /\ lock = "free"
  /\ proc' = "none" /\ ring' = "freed"
  /\ UNCHANGED <<head, lock, harm>>

\* qks_log_proc_show, until it has copied the ring out.
BeginDump ==
  /\ lock = "free" /\ proc # "none"
  /\ IF proc = "orphan" THEN Hurt("freed_code") /\ UNCHANGED lock
     ELSE lock' = "reader" /\ UNCHANGED harm
  /\ UNCHANGED <<ring, head, proc>>

EndDump ==
  /\ lock = "reader" /\ lock' = "free"
  /\ UNCHANGED <<ring, head, proc, harm>>

=============================================================================
