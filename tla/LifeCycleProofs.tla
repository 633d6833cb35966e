-------------------------- MODULE LifeCycleProofs --------------------------
(***************************************************************************)
(* Proofs about the lives of the kernel module and the daemon, for any     *)
(* kernel, any number of loads, timers, keys, crashes, signals and     *)
(* policy files.                                                           *)
(***************************************************************************)
EXTENDS LifeCycle, TLAPS

\* What the module's steps keep by themselves.
ModuleHarm ==
  /\ "freed_ring" \in harm => phase \in {"exit_syscalls", "exit_netfilter", "exit_netlink"}
  /\ "freed_code" \in harm =>
       \/ staleTimers > 0 /\ unloads > 0
       \/ proc = "orphan" /\ failed \cap {"netlink", "execve", "syscalls"} # {}
  /\ dangling # {} => "syscalls" \in failed /\ dangling \subseteq Probes
  /\ proc = "orphan" => phase = "out"

ModuleInv == ModuleTypeOK /\ PhaseInv /\ LeftInv /\ CountInv /\ ModuleHarm

\* The family and the hooks are no probes.
LEMMA ProbesNamed == Family \notin Probes /\ Hooks \notin Probes
  BY DEF Probes, ProbeTable, Family, Hooks

\* qks_syscalls_init registers probes only, and none if the first is refused.
LEMMA PlacedProbes == Placed \subseteq Probes /\ (1 \in Refused => Placed = {})
<1>1. \A i \in DOMAIN ProbeTable : qks_register_kprobe_any(ProbeTable[i]) \subseteq Probes
  BY DEF qks_register_kprobe_any, Probes
<1>2. DOMAIN ProbeTable \subseteq Nat \ {0}
  BY DEF ProbeTable
<1>3. QED BY <1>1, <1>2 DEF Placed

\* A line of the log stays in the ring, if there is one.
LEMMA LogWrites ==
  ASSUME LogTypeOK, harm = {}, NEW soft, qks_log(soft)
  PROVE  /\ LogTypeOK' /\ ring' = ring /\ lock' = lock /\ proc' = proc
         /\ "freed_code" \notin harm' /\ "stranger" \notin harm'
         /\ "freed_ring" \in harm' => ring # "mapped"
<1>1. \A len \in LineLens : AfterLine(len) \in 0..(RingSize - 1)
  BY LogAssumption DEF AfterLine, LogTypeOK
<1>2. QED BY <1>1 DEF qks_log, Hurt, LogTypeOK, Harms

-----------------------------------------------------------------------------
\* The begin of a load, with a log or without, keeps the module's invariant.
LEMMA Insmods == ModuleInv /\ harm = {} /\ Insmod => ModuleInv' /\ "stranger" \notin harm'
<1> SUFFICES ASSUME ModuleInv, harm = {}, Insmod PROVE ModuleInv' /\ "stranger" \notin harm'
  OBVIOUS
<1> USE DEF Insmod, qks_log_init, qks_log_init_fails
<1>c. /\ load' \in 0..MaxLoads /\ unloads' \in 0..MaxLoads
      /\ timers' \in 0..MaxTimers /\ staleTimers' \in 0..MaxTimers
      /\ timers' + staleTimers' <= MaxTimers
  BY ModuleAssumption DEF ModuleInv, ModuleTypeOK, CountInv
<1>1. LogTypeOK'
  BY LogAssumption DEF ModuleInv, ModuleTypeOK, LogTypeOK
<1>2. ModuleTypeOK'
  BY <1>1, <1>c DEF ModuleInv, ModuleTypeOK
<1>3. PhaseInv'
  BY DEF ModuleInv, PhaseInv
<1>4. LeftInv'
  BY DEF ModuleInv, LeftInv
<1>5. CountInv'
  BY DEF ModuleInv, ModuleTypeOK, CountInv
<1>6. ModuleHarm' /\ "stranger" \notin harm'
  BY DEF ModuleInv, ModuleHarm, PhaseInv
<1>7. QED BY <1>2, <1>3, <1>4, <1>5, <1>6 DEF ModuleInv

\* Registering the netlink family keeps the module's invariant.
LEMMA NetlinkInit ==
  ASSUME ModuleInv, harm = {}, qks_netlink_init
  PROVE  ModuleInv' /\ "stranger" \notin harm'
<1> USE DEF qks_netlink_init, Entries
<1>0. /\ LogTypeOK' /\ ring' = ring /\ lock' = lock /\ proc' = proc
      /\ "freed_code" \notin harm' /\ "stranger" \notin harm'
      /\ "freed_ring" \in harm' => ring # "mapped"
  BY LogWrites DEF ModuleInv, ModuleTypeOK
<1>1. ModuleTypeOK'
  BY <1>0 DEF ModuleInv, ModuleTypeOK, CountInv
<1>2. PhaseInv'
  BY <1>0 DEF ModuleInv, ModuleTypeOK, PhaseInv
<1>3. LeftInv'
  BY <1>0 DEF ModuleInv, PhaseInv, LeftInv, ModuleHarm
<1>4. CountInv'
  BY <1>0 DEF ModuleInv, ModuleTypeOK, CountInv, PhaseInv
<1>5. ModuleHarm' /\ "stranger" \notin harm'
  BY <1>0 DEF ModuleInv, ModuleTypeOK, PhaseInv, LeftInv, ModuleHarm
<1>6. QED BY <1>1, <1>2, <1>3, <1>4, <1>5 DEF ModuleInv

\* A family that cannot be registered ends the load and keeps the invariant:
\* what is left behind is only what LeftInv names.
LEMMA NetlinkInitFails ==
  ASSUME ModuleInv, harm = {}, qks_netlink_init_fails
  PROVE  ModuleInv' /\ "stranger" \notin harm'
<1> USE DEF qks_netlink_init_fails, FreeCode
<1>0. LogTypeOK'
  BY DEF ModuleInv, ModuleTypeOK, LogTypeOK, Harms
<1>c. /\ load' \in 0..MaxLoads /\ unloads' \in 0..MaxLoads
      /\ timers' \in 0..MaxTimers /\ staleTimers' \in 0..MaxTimers
      /\ timers' + staleTimers' <= MaxTimers
  BY ModuleAssumption DEF ModuleInv, ModuleTypeOK, CountInv
<1>1. ModuleTypeOK'
  BY <1>0, <1>c DEF ModuleInv, ModuleTypeOK
<1>2. PhaseInv'
  BY <1>0 DEF ModuleInv, ModuleTypeOK, PhaseInv
<1>3. LeftInv'
  BY <1>0 DEF ModuleInv, PhaseInv, LeftInv, ModuleHarm
<1>4. CountInv'
  BY <1>0, <1>c DEF ModuleInv, ModuleTypeOK, CountInv, PhaseInv
<1>5. ModuleHarm' /\ "stranger" \notin harm'
  BY <1>0 DEF ModuleInv, ModuleTypeOK, PhaseInv, LeftInv, ModuleHarm
<1>6. QED BY <1>1, <1>2, <1>3, <1>4, <1>5 DEF ModuleInv

\* Registering the hooks keeps the module's invariant.
LEMMA NetfilterInit ==
  ASSUME ModuleInv, harm = {}, qks_netfilter_init
  PROVE  ModuleInv' /\ "stranger" \notin harm'
<1> USE DEF qks_netfilter_init, logVars, Entries
<1>0. LogTypeOK'
  BY DEF ModuleInv, ModuleTypeOK, LogTypeOK, Harms
<1>1. ModuleTypeOK'
  BY <1>0 DEF ModuleInv, ModuleTypeOK, CountInv
<1>2. PhaseInv'
  BY <1>0 DEF ModuleInv, ModuleTypeOK, PhaseInv
<1>3. LeftInv'
  BY <1>0 DEF ModuleInv, PhaseInv, LeftInv, ModuleHarm
<1>4. CountInv'
  BY <1>0 DEF ModuleInv, ModuleTypeOK, CountInv, PhaseInv
<1>5. ModuleHarm' /\ "stranger" \notin harm'
  BY <1>0 DEF ModuleInv, ModuleTypeOK, PhaseInv, LeftInv, ModuleHarm
<1>6. QED BY <1>1, <1>2, <1>3, <1>4, <1>5 DEF ModuleInv

\* Registering the probes, all or up to the refused one, keeps the invariant.
LEMMA SyscallsInit ==
  ASSUME ModuleInv, harm = {}, qks_syscalls_init
  PROVE  ModuleInv' /\ "stranger" \notin harm'
<1> USE DEF qks_syscalls_init, Entries
<1>0. /\ LogTypeOK' /\ ring' = ring /\ lock' = lock /\ proc' = proc
      /\ "freed_code" \notin harm' /\ "stranger" \notin harm'
      /\ "freed_ring" \in harm' => ring # "mapped"
  BY LogWrites DEF ModuleInv, ModuleTypeOK
<1>1. ModuleTypeOK'
  BY <1>0, ProbesNamed, PlacedProbes DEF ModuleInv, ModuleTypeOK, CountInv
<1>2. PhaseInv'
  BY <1>0, ProbesNamed, PlacedProbes DEF ModuleInv, ModuleTypeOK, PhaseInv
<1>3. LeftInv'
  BY <1>0, ProbesNamed, PlacedProbes DEF ModuleInv, PhaseInv, LeftInv, ModuleHarm
<1>4. CountInv'
  BY <1>0, ProbesNamed, PlacedProbes DEF ModuleInv, ModuleTypeOK, CountInv, PhaseInv
<1>5. ModuleHarm' /\ "stranger" \notin harm'
  BY <1>0, ProbesNamed, PlacedProbes DEF ModuleInv, ModuleTypeOK, PhaseInv, LeftInv, ModuleHarm
<1>6. QED BY <1>1, <1>2, <1>3, <1>4, <1>5 DEF ModuleInv

\* Taking down the hooks, when nobody is inside, keeps the invariant.
LEMMA NetfilterExit ==
  ASSUME ModuleInv, harm = {}, qks_netfilter_exit
  PROVE  ModuleInv' /\ "stranger" \notin harm'
<1> USE DEF qks_netfilter_exit, logVars, NobodyIn, Entries
<1>0. LogTypeOK'
  BY DEF ModuleInv, ModuleTypeOK, LogTypeOK, Harms
<1>1. ModuleTypeOK'
  BY <1>0, ProbesNamed, PlacedProbes DEF ModuleInv, ModuleTypeOK, CountInv
<1>2. PhaseInv'
  BY <1>0, ProbesNamed, PlacedProbes DEF ModuleInv, ModuleTypeOK, PhaseInv
<1>3. LeftInv'
  BY <1>0, ProbesNamed, PlacedProbes DEF ModuleInv, PhaseInv, LeftInv, ModuleHarm
<1>4. CountInv'
  BY <1>0, ProbesNamed, PlacedProbes DEF ModuleInv, ModuleTypeOK, CountInv, PhaseInv
<1>5. ModuleHarm' /\ "stranger" \notin harm'
  BY <1>0, ProbesNamed, PlacedProbes DEF ModuleInv, ModuleTypeOK, PhaseInv, LeftInv, ModuleHarm
<1>6. QED BY <1>1, <1>2, <1>3, <1>4, <1>5 DEF ModuleInv

\* Taking down the family, and the end of the code with it, keeps the invariant:
\* timers that are left become stale, and what is still registered dangles.
LEMMA NetlinkExit ==
  ASSUME ModuleInv, harm = {}, qks_netlink_exit
  PROVE  ModuleInv' /\ "stranger" \notin harm'
<1> USE DEF qks_netlink_exit, FreeCode, NobodyIn, Entries
<1>0. LogTypeOK'
  BY DEF ModuleInv, ModuleTypeOK, LogTypeOK, Harms
<1>c. /\ load' \in 0..MaxLoads /\ unloads' \in 0..MaxLoads
      /\ timers' \in 0..MaxTimers /\ staleTimers' \in 0..MaxTimers
      /\ timers' + staleTimers' <= MaxTimers
  BY ModuleAssumption DEF ModuleInv, ModuleTypeOK, CountInv
<1>1. ModuleTypeOK'
  BY <1>0, <1>c, ProbesNamed, PlacedProbes DEF ModuleInv, ModuleTypeOK
<1>2. PhaseInv'
  BY <1>0, ProbesNamed, PlacedProbes DEF ModuleInv, ModuleTypeOK, PhaseInv
<1>3. LeftInv'
  <2>1. CASE phase = "undo_netlink"
    BY <2>1 DEF ModuleInv, PhaseInv, LeftInv
  <2>2. CASE phase = "exit_netlink"
    <3>1. proc = "none" /\ dangling' = {}
      BY <2>2 DEF ModuleInv, PhaseInv, LeftInv
    <3>2. unloads' > 0
      BY <2>2 DEF ModuleInv, ModuleTypeOK
    <3>3. QED BY <3>1, <3>2 DEF LeftInv
  <2>3. QED BY <2>1, <2>2
<1>4. CountInv'
  BY <1>0, <1>c, ProbesNamed, PlacedProbes DEF ModuleInv, ModuleTypeOK, CountInv, PhaseInv
<1>5. ModuleHarm' /\ "stranger" \notin harm'
  BY <1>0, ProbesNamed, PlacedProbes DEF ModuleInv, ModuleTypeOK, PhaseInv, LeftInv, ModuleHarm
<1>6. QED BY <1>1, <1>2, <1>3, <1>4, <1>5 DEF ModuleInv

\* The begin of the unload keeps the module's invariant.
LEMMA BeginExit ==
  ASSUME ModuleInv, harm = {}, Rmmod
  PROVE  ModuleInv' /\ "stranger" \notin harm'
<1> USE DEF Rmmod, logVars
<1>0. LogTypeOK'
  BY DEF ModuleInv, ModuleTypeOK, LogTypeOK, Harms
<1>1. ModuleTypeOK'
  BY <1>0 DEF ModuleInv, ModuleTypeOK, CountInv
<1>2. PhaseInv'
  BY <1>0 DEF ModuleInv, ModuleTypeOK, PhaseInv
<1>3. LeftInv'
  BY <1>0 DEF ModuleInv, PhaseInv, LeftInv, ModuleHarm
<1>4. CountInv'
  BY <1>0 DEF ModuleInv, ModuleTypeOK, CountInv, PhaseInv
<1>5. ModuleHarm' /\ "stranger" \notin harm'
  BY <1>0 DEF ModuleInv, ModuleTypeOK, PhaseInv, LeftInv, ModuleHarm
<1>6. QED BY <1>1, <1>2, <1>3, <1>4, <1>5 DEF ModuleInv

\* The log goes first in the unload; the invariant holds after it.
LEMMA LogExit ==
  ASSUME ModuleInv, harm = {}, ExitLog
  PROVE  ModuleInv' /\ "stranger" \notin harm'
<1> USE DEF ExitLog, qks_log_exit
<1>0. LogTypeOK'
  BY DEF ModuleInv, ModuleTypeOK, LogTypeOK, Harms
<1>1. ModuleTypeOK'
  BY <1>0 DEF ModuleInv, ModuleTypeOK, CountInv
<1>2. PhaseInv'
  BY <1>0 DEF ModuleInv, ModuleTypeOK, PhaseInv
<1>3. LeftInv'
  BY <1>0 DEF ModuleInv, PhaseInv, LeftInv, ModuleHarm
<1>4. CountInv'
  BY <1>0 DEF ModuleInv, ModuleTypeOK, CountInv, PhaseInv
<1>5. ModuleHarm' /\ "stranger" \notin harm'
  BY <1>0 DEF ModuleInv, ModuleTypeOK, PhaseInv, LeftInv, ModuleHarm
<1>6. QED BY <1>1, <1>2, <1>3, <1>4, <1>5 DEF ModuleInv

\* Taking down the probes keeps the module's invariant.
LEMMA SyscallsExit ==
  ASSUME ModuleInv, harm = {}, qks_syscalls_exit
  PROVE  ModuleInv' /\ "stranger" \notin harm'
<1> USE DEF qks_syscalls_exit, logVars, NobodyIn, Entries
<1>0. LogTypeOK'
  BY DEF ModuleInv, ModuleTypeOK, LogTypeOK, Harms
<1>1. ModuleTypeOK'
  BY <1>0, ProbesNamed, PlacedProbes DEF ModuleInv, ModuleTypeOK, CountInv
<1>2. PhaseInv'
  BY <1>0, ProbesNamed, PlacedProbes DEF ModuleInv, ModuleTypeOK, PhaseInv
<1>3. LeftInv'
  BY <1>0, ProbesNamed, PlacedProbes DEF ModuleInv, PhaseInv, LeftInv, ModuleHarm
<1>4. CountInv'
  BY <1>0, ProbesNamed, PlacedProbes DEF ModuleInv, ModuleTypeOK, CountInv, PhaseInv
<1>5. ModuleHarm' /\ "stranger" \notin harm'
  BY <1>0, ProbesNamed, PlacedProbes DEF ModuleInv, ModuleTypeOK, PhaseInv, LeftInv, ModuleHarm
<1>6. QED BY <1>1, <1>2, <1>3, <1>4, <1>5 DEF ModuleInv

\* A call of an entry point keeps the invariant, or harms as it allows.
LEMMA Calls ==
  ASSUME ModuleInv, harm = {}, NEW e, Call(e)
  PROVE  ModuleInv' /\ "stranger" \notin harm'
<1> USE DEF Call, Hurt, logVars
<1>0. LogTypeOK'
  BY DEF ModuleInv, ModuleTypeOK, LogTypeOK, Harms
<1>1. ModuleTypeOK'
  BY <1>0 DEF ModuleInv, ModuleTypeOK, CountInv
<1>2. PhaseInv'
  BY <1>0 DEF ModuleInv, ModuleTypeOK, PhaseInv
<1>3. LeftInv'
  BY <1>0 DEF ModuleInv, PhaseInv, LeftInv, ModuleHarm
<1>4. CountInv'
  BY <1>0 DEF ModuleInv, ModuleTypeOK, CountInv, PhaseInv
<1>5. ModuleHarm' /\ "stranger" \notin harm'
  BY <1>0 DEF ModuleInv, ModuleTypeOK, PhaseInv, LeftInv, ModuleHarm
<1>6. QED BY <1>1, <1>2, <1>3, <1>4, <1>5 DEF ModuleInv

\* What an entry point does until it returns keeps the invariant.
LEMMA Handles ==
  ASSUME ModuleInv, harm = {}, NEW e, NEW heard \in BOOLEAN, Handle(e, heard)
  PROVE  ModuleInv' /\ "stranger" \notin harm'
<1> USE DEF Handle
<1>0. /\ LogTypeOK' /\ ring' = ring /\ lock' = lock /\ proc' = proc
      /\ "freed_code" \notin harm' /\ "stranger" \notin harm'
      /\ "freed_ring" \in harm' => ring # "mapped"
  BY LogWrites DEF ModuleInv, ModuleTypeOK
<1>c. /\ load' \in 0..MaxLoads /\ unloads' \in 0..MaxLoads
      /\ timers' \in 0..MaxTimers /\ staleTimers' \in 0..MaxTimers
      /\ timers' + staleTimers' <= MaxTimers
  BY ModuleAssumption DEF ModuleInv, ModuleTypeOK, CountInv
<1>1. ModuleTypeOK'
  BY <1>0, <1>c DEF ModuleInv, ModuleTypeOK
<1>2. PhaseInv'
  BY <1>0 DEF ModuleInv, ModuleTypeOK, PhaseInv
<1>3. LeftInv'
  BY <1>0 DEF ModuleInv, PhaseInv, LeftInv, ModuleHarm
<1>4. CountInv'
  BY <1>0, <1>c DEF ModuleInv, ModuleTypeOK, CountInv, PhaseInv
<1>5. ModuleHarm' /\ "stranger" \notin harm'
  BY <1>0 DEF ModuleInv, ModuleTypeOK, PhaseInv, LeftInv, ModuleHarm
<1>6. QED BY <1>1, <1>2, <1>3, <1>4, <1>5 DEF ModuleInv

\* A timer that goes off keeps the invariant, or harms as it allows.
LEMMA Timeouts ==
  ASSUME ModuleInv, harm = {}, qks_verdict_timeout
  PROVE  ModuleInv' /\ "stranger" \notin harm'
<1>1. CASE staleTimers > 0 /\ Hurt("freed_code") /\ UNCHANGED <<logVars, timers>>
  <2> USE DEF qks_verdict_timeout, Hurt, logVars
  <2>1. ModuleTypeOK'
    BY <1>1 DEF ModuleInv, ModuleTypeOK, LogTypeOK, Harms
  <2>2. PhaseInv' /\ LeftInv' /\ CountInv'
    BY <1>1 DEF ModuleInv, PhaseInv, LeftInv, CountInv
  <2>3. ModuleHarm' /\ "stranger" \notin harm'
    BY <1>1 DEF ModuleInv, LeftInv, ModuleHarm
  <2>4. QED BY <2>1, <2>2, <2>3 DEF ModuleInv
<1>2. CASE timers > 0 /\ timers' = timers - 1 /\ qks_log(TRUE)
  <2> USE DEF qks_verdict_timeout
  <2>1. /\ LogTypeOK' /\ ring' = ring /\ lock' = lock /\ proc' = proc
        /\ "freed_code" \notin harm' /\ "stranger" \notin harm'
        /\ "freed_ring" \in harm' => ring # "mapped"
    BY <1>2, LogWrites DEF ModuleInv, ModuleTypeOK
  <2>2. timers' \in 0..MaxTimers /\ timers' + staleTimers <= MaxTimers
    BY <1>2, ModuleAssumption DEF ModuleInv, ModuleTypeOK, CountInv
  <2>3. ModuleTypeOK'
    BY <2>1, <2>2 DEF ModuleInv, ModuleTypeOK
  <2>4. PhaseInv'
    BY <1>2, <2>1 DEF ModuleInv, PhaseInv
  <2>5. LeftInv' /\ CountInv'
    BY <2>1, <2>2 DEF ModuleInv, LeftInv, CountInv
  <2>6. ModuleHarm' /\ "stranger" \notin harm'
    BY <1>2, <2>1 DEF ModuleInv, PhaseInv, ModuleHarm
  <2>7. QED BY <2>3, <2>4, <2>5, <2>6 DEF ModuleInv
<1>3. QED BY <1>1, <1>2 DEF qks_verdict_timeout

\* The begin of a dump of the log keeps the module's invariant.
LEMMA BeginsDump ==
  ASSUME ModuleInv, harm = {}, ReadLog(BeginDump)
  PROVE  ModuleInv' /\ "stranger" \notin harm'
<1> USE DEF ReadLog, BeginDump, Hurt
<1>0. LogTypeOK'
  BY DEF ModuleInv, ModuleTypeOK, LogTypeOK, Harms
<1>1. ModuleTypeOK'
  BY <1>0 DEF ModuleInv, ModuleTypeOK, CountInv
<1>2. PhaseInv'
  BY <1>0 DEF ModuleInv, ModuleTypeOK, PhaseInv
<1>3. LeftInv'
  BY <1>0 DEF ModuleInv, PhaseInv, LeftInv, ModuleHarm
<1>4. CountInv'
  BY <1>0 DEF ModuleInv, ModuleTypeOK, CountInv, PhaseInv
<1>5. ModuleHarm' /\ "stranger" \notin harm'
  BY <1>0 DEF ModuleInv, ModuleTypeOK, PhaseInv, LeftInv, ModuleHarm
<1>6. QED BY <1>1, <1>2, <1>3, <1>4, <1>5 DEF ModuleInv

\* The end of a dump keeps the module's invariant.
LEMMA EndsDump ==
  ASSUME ModuleInv, harm = {}, ReadLog(EndDump)
  PROVE  ModuleInv' /\ "stranger" \notin harm'
<1> USE DEF ReadLog, EndDump
<1>0. LogTypeOK'
  BY DEF ModuleInv, ModuleTypeOK, LogTypeOK, Harms
<1>1. ModuleTypeOK'
  BY <1>0 DEF ModuleInv, ModuleTypeOK, CountInv
<1>2. PhaseInv'
  BY <1>0 DEF ModuleInv, ModuleTypeOK, PhaseInv
<1>3. LeftInv'
  BY <1>0 DEF ModuleInv, PhaseInv, LeftInv, ModuleHarm
<1>4. CountInv'
  BY <1>0 DEF ModuleInv, ModuleTypeOK, CountInv, PhaseInv
<1>5. ModuleHarm' /\ "stranger" \notin harm'
  BY <1>0 DEF ModuleInv, ModuleTypeOK, PhaseInv, LeftInv, ModuleHarm
<1>6. QED BY <1>1, <1>2, <1>3, <1>4, <1>5 DEF ModuleInv

\* A verdict that arrives keeps the module's invariant.
LEMMA Answers ==
  ASSUME ModuleInv, harm = {}, Answer
  PROVE  ModuleInv' /\ "stranger" \notin harm'
<1> USE DEF Answer
<1>0. /\ LogTypeOK' /\ ring' = ring /\ lock' = lock /\ proc' = proc
      /\ "freed_code" \notin harm' /\ "stranger" \notin harm'
      /\ "freed_ring" \in harm' => ring # "mapped"
  BY LogWrites DEF ModuleInv, ModuleTypeOK
<1>c. /\ load' \in 0..MaxLoads /\ unloads' \in 0..MaxLoads
      /\ timers' \in 0..MaxTimers /\ staleTimers' \in 0..MaxTimers
      /\ timers' + staleTimers' <= MaxTimers
  BY ModuleAssumption DEF ModuleInv, ModuleTypeOK, CountInv
<1>1. ModuleTypeOK'
  BY <1>0, <1>c DEF ModuleInv, ModuleTypeOK
<1>2. PhaseInv'
  BY <1>0 DEF ModuleInv, ModuleTypeOK, PhaseInv
<1>3. LeftInv'
  BY <1>0 DEF ModuleInv, PhaseInv, LeftInv, ModuleHarm
<1>4. CountInv'
  BY <1>0, <1>c DEF ModuleInv, ModuleTypeOK, CountInv, PhaseInv
<1>5. ModuleHarm' /\ "stranger" \notin harm'
  BY <1>0 DEF ModuleInv, ModuleTypeOK, PhaseInv, LeftInv, ModuleHarm
<1>6. QED BY <1>1, <1>2, <1>3, <1>4, <1>5 DEF ModuleInv

\* What the daemon, the keys and a stray signal do is not the module's concern.
LEMMA ModuleStays ==
  ASSUME ModuleInv, harm = {}, UNCHANGED moduleVars, harm' \subseteq {"stranger"}
  PROVE  ModuleInv'
<1> USE DEF moduleVars, logVars
<1>1. ModuleTypeOK'
  BY DEF ModuleInv, ModuleTypeOK, LogTypeOK, Harms
<1>2. PhaseInv' /\ LeftInv' /\ CountInv'
  BY DEF ModuleInv, PhaseInv, LeftInv, CountInv
<1>3. ModuleHarm'
  BY DEF ModuleInv, ModuleHarm
<1>4. QED BY <1>1, <1>2, <1>3 DEF ModuleInv

\* Every step of the module keeps it.
LEMMA ModuleSteps ==
  ASSUME ModuleInv, harm = {}, ModuleStep
  PROVE  ModuleInv' /\ "stranger" \notin harm'
<1>1. CASE \E e \in life.called : Call(e) \/ Handle(e, Listening)
  <2>1. Listening \in BOOLEAN
    BY DEF Listening
  <2>2. QED BY <1>1, <2>1, Calls, Handles
<1>2. QED
  BY <1>1, NetlinkInit, NetfilterInit, SyscallsInit, NetlinkInitFails, BeginExit, NetfilterExit,
     NetlinkExit, LogExit, SyscallsExit, Timeouts, BeginsDump, EndsDump
     DEF ModuleStep, Loading, Unloading

-----------------------------------------------------------------------------
\* The types of the daemon's variables, and what the pid file says.
DaemonInv ==
  /\ daemon \in {"stopped", "failed", "ready"} \cup Booting
  /\ fam_id \in 0..MaxLoads /\ member \in 0..MaxLoads
  /\ pidFile \in {"absent", "daemon", "stale"} /\ policyFile \in {"good", "bad"}
  /\ life \in Lives /\ unclean \in BOOLEAN
  /\ crashes \in 0..life.crashes /\ signals \in 0..life.signals /\ edits \in 0..life.edits
  /\ pidFile = "stale" => unclean

KeysInv == KeysTypeOK /\ InstalledKeys

\* The parts are the whole.
LEMMA LifeInvParts ==
  LifeInv <=> ModuleInv /\ DaemonInv /\ KeysInv /\ ("stranger" \in harm => unclean)
  BY DEF LifeInv, TypeOK, HarmConfined, ModuleInv, ModuleHarm, DaemonInv, KeysInv

\* A life has bounds that are numbers.
LEMMA LifeBounds ==
  ASSUME DaemonInv
  PROVE  /\ life.crashes \in Nat /\ life.signals \in Nat /\ life.unit \in BOOLEAN
         /\ life.keygens \in 0..MaxKeygens /\ crashes \in Nat /\ signals \in Nat
         /\ life.edits \in Nat /\ edits \in Nat
  BY LifeAssumption DEF DaemonInv

\* However the process ends, the pid file it leaves is recorded.
LEMMA Ends ==
  ASSUME DaemonInv, KeysInv, NEW state \in {"stopped", "failed"}, End(state), UNCHANGED keyVars,
         UNCHANGED <<life, signals, operatorVars>>, crashes' \in 0..life.crashes
  PROVE  DaemonInv' /\ KeysInv' /\ (unclean => unclean')
<1>1. DaemonInv' /\ (unclean => unclean')
  <2>1. unclean' \in BOOLEAN /\ (unclean => unclean') /\ (pidFile' = "stale" => unclean')
    BY DEF DaemonInv, End
  <2>2. /\ daemon' = state /\ fam_id' = 0 /\ member' = 0 /\ pidFile' \in {"absent", "daemon", "stale"}
        /\ life' \in Lives /\ crashes' \in 0..life'.crashes /\ signals' \in 0..life'.signals
        /\ policyFile' \in {"good", "bad"} /\ edits' \in 0..life'.edits
    BY DEF DaemonInv, End, operatorVars
  <2>3. 0 \in 0..MaxLoads
    BY ModuleAssumption
  <2>4. QED BY <2>1, <2>2, <2>3 DEF DaemonInv
<1>2. KeysTypeOK'
  BY DEF KeysInv, KeysTypeOK, keyVars
<1>3. InstalledKeys'
  BY DEF KeysInv, InstalledKeys, keyVars, End, Booting
<1>4. QED BY <1>1, <1>2, <1>3 DEF KeysInv

\* The steps of main on the way to its loop.
LEMMA DaemonSteps ==
  ASSUME LifeInv, harm = {}, Start \/ DaemonStep
  PROVE  DaemonInv' /\ KeysInv' /\ (unclean => unclean') /\ UNCHANGED moduleVars /\ harm' = harm
<1> DEFINE Goal ==
      DaemonInv' /\ KeysInv' /\ (unclean => unclean') /\ UNCHANGED moduleVars /\ harm' = harm
<1>0. DaemonInv /\ KeysInv /\ ModuleInv /\ load \in 0..MaxLoads
  BY LifeInvParts DEF ModuleInv, ModuleTypeOK
<1>1. CASE Fails
  <2>1. /\ End("failed") /\ UNCHANGED keyVars /\ UNCHANGED <<life, signals, operatorVars>> /\ crashes' = crashes
        /\ UNCHANGED moduleVars /\ harm' = harm
    BY <1>1 DEF Fails, daemonOnly
  <2>2. crashes' \in 0..life.crashes
    BY <1>0, <2>1 DEF DaemonInv
  <2>3. QED BY <1>0, <2>1, <2>2, Ends
<1>2. ASSUME daemonOnly, UNCHANGED keyVars,
             daemon' \in {"stopped", "failed", "ready"} \cup Booting,
             fam_id' \in 0..MaxLoads, member' \in 0..MaxLoads, pidFile' \in {pidFile, "daemon"},
             unclean' = unclean,
             daemon' = "private_key" \/ daemon \in Booting \ {"private_key", "public_key"}
      PROVE  Goal
  <2>1. DaemonInv'
    BY <1>0, <1>2 DEF DaemonInv, daemonOnly, operatorVars
  <2>2. KeysTypeOK'
    BY <1>0, <1>2 DEF KeysInv, KeysTypeOK, keyVars
  <2>3. InstalledKeys'
    BY <1>0, <1>2 DEF KeysInv, InstalledKeys, keyVars, Booting
  <2>4. QED BY <1>2, <2>1, <2>2, <2>3 DEF KeysInv, daemonOnly
<1>3. CASE Start
  BY <1>0, <1>2, <1>3 DEF Start, DaemonInv, Booting
<1>4. CASE Advance("private_key", "public_key") /\ load_private_key /\ daemonOnly
  <2>1. DaemonInv' /\ UNCHANGED moduleVars /\ harm' = harm /\ unclean' = unclean
    BY <1>0, <1>4 DEF DaemonInv, Advance, daemonOnly, operatorVars, Booting
  <2>2. keyFile["qks_sk.bin"] \in Contents /\ "qks_sk.bin" \in KeyFiles
    BY <1>0 DEF KeysInv, KeysTypeOK, KeyFiles
  <2>3. KeysTypeOK'
    BY <1>0, <1>4, <2>2 DEF KeysInv, KeysTypeOK, load_private_key
  <2>4. InstalledKeys'
    BY <1>0, <1>4, <2>2 DEF KeysInv, InstalledKeys, load_private_key, Advance, Booting
  <2>5. QED BY <2>1, <2>3, <2>4 DEF KeysInv
<1>5. CASE Advance("public_key", "pid_file") /\ load_public_key /\ daemonOnly
  <2>1. DaemonInv' /\ UNCHANGED moduleVars /\ harm' = harm /\ unclean' = unclean
    BY <1>0, <1>5 DEF DaemonInv, Advance, daemonOnly, operatorVars, Booting
  <2>2. keyFile["qks_pk.bin"] \in Pairs /\ "qks_pk.bin" \in KeyFiles
    BY <1>5 DEF KeyFiles, load_public_key, PublicKeyLoads
  <2>3. KeysTypeOK'
    BY <1>0, <1>5, <2>2 DEF KeysInv, KeysTypeOK, load_public_key
  <2>4. InstalledKeys'
    BY <1>0, <1>5, <2>2 DEF KeysInv, InstalledKeys, load_public_key, Advance, Booting
  <2>5. QED BY <2>1, <2>3, <2>4 DEF KeysInv
<1>6. CASE write_pid_file
  <2>1. pidFile' \in {pidFile, "daemon"}
    BY <1>6 DEF write_pid_file
  <2>2. QED BY <1>0, <1>2, <1>6, <2>1 DEF write_pid_file, DaemonInv, Booting
<1>7. CASE InstallHandlers /\ ~Fails
  BY <1>0, <1>2, <1>7 DEF InstallHandlers, Advance, DaemonInv, Booting
<1>8. CASE ResolveFamily /\ ~Fails
  BY <1>0, <1>2, <1>8 DEF ResolveFamily, DaemonInv, Booting
<1>9. CASE JoinGroup /\ ~Fails
  BY <1>0, <1>2, <1>9 DEF JoinGroup, DaemonInv, Booting
<1>10. QED
  BY <1>1, <1>3, <1>4, <1>5, <1>6, <1>7, <1>8, <1>9 DEF DaemonStep, LoadPrivateKey, LoadPublicKey

\* Another policy.json touches nothing else.
LEMMA Edits ==
  ASSUME LifeInv, EditPolicy
  PROVE  DaemonInv' /\ KeysInv' /\ UNCHANGED moduleVars /\ harm' = harm /\ unclean' = unclean
<1>0. DaemonInv /\ KeysInv
  BY LifeInvParts
<1>1. edits' \in 0..life.edits
  BY <1>0, LifeBounds DEF EditPolicy
<1>2. DaemonInv'
  BY <1>0, <1>1 DEF EditPolicy, DaemonInv
<1>3. KeysTypeOK'
  BY <1>0 DEF EditPolicy, KeysInv, KeysTypeOK, keyVars
<1>4. InstalledKeys'
  BY <1>0 DEF EditPolicy, KeysInv, InstalledKeys, keyVars
<1>5. QED BY <1>2, <1>3, <1>4 DEF EditPolicy, KeysInv

\* Stopping, dying and being signalled.
LEMMA DaemonEnds ==
  ASSUME LifeInv, harm = {}, Stop \/ Crash \/ Signal
  PROVE  /\ DaemonInv' /\ KeysInv' /\ UNCHANGED moduleVars
         /\ harm' \subseteq {"stranger"} /\ ("stranger" \in harm' => unclean')
<1>0. DaemonInv /\ KeysInv
  BY LifeInvParts
<1>1. CASE Stop /\ End("stopped")
  <2>1. /\ UNCHANGED keyVars /\ UNCHANGED <<life, signals, operatorVars>> /\ crashes' = crashes
        /\ UNCHANGED moduleVars /\ harm' = harm
    BY <1>1 DEF Stop, daemonOnly
  <2>2. crashes' \in 0..life.crashes
    BY <1>0, <2>1 DEF DaemonInv
  <2>3. QED BY <1>0, <1>1, <2>1, <2>2, Ends
<1>2. CASE Stop /\ ~End("stopped")
  <2>1. /\ UNCHANGED keyVars /\ daemonOnly
        /\ daemon' = "stopped" /\ fam_id' = 0 /\ member' = 0 /\ pidFile' = "absent" /\ unclean' = unclean
    BY <1>2 DEF Stop
  <2>2. DaemonInv'
    BY <1>0, <2>1, ModuleAssumption DEF DaemonInv, daemonOnly, operatorVars
  <2>3. KeysTypeOK'
    BY <1>0, <2>1 DEF KeysInv, KeysTypeOK, keyVars
  <2>4. InstalledKeys'
    BY <1>0, <2>1 DEF KeysInv, InstalledKeys, keyVars, Booting
  <2>5. QED BY <2>1, <2>2, <2>3, <2>4 DEF KeysInv, daemonOnly
<1>3. CASE Crash
  <2>1. crashes' \in 0..life.crashes
    BY <1>0, <1>3, LifeBounds DEF Crash, DaemonInv
  <2>2. QED BY <1>0, <1>3, <2>1, Ends DEF Crash
<1>4. CASE Signal
  <2>1. signals' \in 0..life.signals
    BY <1>0, <1>4, LifeBounds DEF Signal, DaemonInv
  <2>2. CASE pidFile = "daemon" /\ daemon = "signals"
    <3>1. /\ End("failed") /\ UNCHANGED keyVars /\ UNCHANGED moduleVars
          /\ UNCHANGED <<life, crashes, operatorVars>> /\ harm' = harm
      BY <1>4, <2>2 DEF Signal
    <3>2. DaemonInv'
      <4>1. unclean' \in BOOLEAN /\ (pidFile' = "stale" => unclean')
        BY <1>0, <3>1 DEF DaemonInv, End
      <4>2. /\ daemon' = "failed" /\ fam_id' = 0 /\ member' = 0 /\ pidFile' \in {"absent", "daemon", "stale"}
            /\ life' \in Lives /\ crashes' \in 0..life'.crashes /\ signals' \in 0..life'.signals
            /\ policyFile' \in {"good", "bad"} /\ edits' \in 0..life'.edits
        BY <1>0, <2>1, <3>1 DEF DaemonInv, End, operatorVars
      <4>3. 0 \in 0..MaxLoads
        BY ModuleAssumption
      <4>4. QED BY <4>1, <4>2, <4>3 DEF DaemonInv
    <3>3. KeysTypeOK'
      BY <1>0, <3>1 DEF KeysInv, KeysTypeOK, keyVars
    <3>4. InstalledKeys'
      BY <1>0, <3>1 DEF KeysInv, InstalledKeys, keyVars, End, Booting
    <3>5. QED BY <3>1, <3>2, <3>3, <3>4 DEF KeysInv
  <2>3. CASE ~(pidFile = "daemon" /\ daemon = "signals")
    <3>1. /\ UNCHANGED <<daemon, fam_id, member, pidFile, unclean, life, crashes, operatorVars>>
          /\ UNCHANGED keyVars /\ UNCHANGED moduleVars
          /\ harm' \subseteq {"stranger"} /\ (harm' # {} => pidFile = "stale")
      BY <1>4, <2>3 DEF Signal, Hurt
    <3>2. DaemonInv'
      BY <1>0, <2>1, <3>1 DEF DaemonInv, operatorVars
    <3>3. KeysTypeOK'
      BY <1>0, <3>1 DEF KeysInv, KeysTypeOK, keyVars
    <3>4. InstalledKeys'
      BY <1>0, <3>1 DEF KeysInv, InstalledKeys, keyVars
    <3>5. QED BY <1>0, <3>1, <3>2, <3>3, <3>4 DEF KeysInv, DaemonInv
  <2>4. QED BY <2>2, <2>3
<1>5. QED BY <1>1, <1>2, <1>3, <1>4

\* qks_keygen and the build: what is in the files and the header is a key, a
\* part of one or nothing, and theirs once qks_keygen was started.
LEMMA KeySteps ==
  ASSUME KeysInv, DaemonInv, KeyStep
  PROVE  KeysTypeOK' /\ (UNCHANGED daemonVars => KeysInv')
<1>0. /\ keyFile \in [KeyFiles -> Contents] /\ keygens \in Pairs /\ MaxKeygens \in Nat
      /\ "qks_pk.bin" \in KeyFiles /\ "qks_sk.bin" \in KeyFiles
      /\ keygen \in {"idle", "open_pk", "write_pk", "open_sk", "write_sk"}
      /\ life.keygens \in 0..MaxKeygens
  BY KeysAssumption, LifeBounds DEF KeysInv, KeysTypeOK, KeyFiles
<1>1. CASE keygens < life.keygens /\ Keygen
  <2>1. keygens' \in Pairs /\ keygens' # 0
    BY <1>0, <1>1 DEF Keygen, Pairs
  <2>2. QED BY <1>1, <2>1 DEF Keygen, KeysInv, KeysTypeOK, InstalledKeys
<1>2. CASE OpenKeyFile
  <2>1. Empty \in Contents
    BY DEF Contents
  <2>2. keyFile' \in [KeyFiles -> Contents] /\ keygen' \in {"write_pk", "write_sk"}
    BY <1>0, <1>2, <2>1 DEF OpenKeyFile
  <2>3. keygens # 0
    BY <1>2 DEF OpenKeyFile, KeysInv, InstalledKeys
  <2>4. QED BY <1>2, <2>2, <2>3 DEF OpenKeyFile, KeysInv, KeysTypeOK, InstalledKeys
<1>3. CASE WriteKeyFile
  <2>1. {keygens, Cut} \subseteq Contents
    BY <1>0 DEF Contents
  <2>2. keyFile' \in [KeyFiles -> Contents] /\ keygen' \in {"open_sk", "idle"}
    BY <1>0, <1>3, <2>1 DEF WriteKeyFile
  <2>3. keygens # 0
    BY <1>3 DEF WriteKeyFile, KeysInv, InstalledKeys
  <2>4. QED BY <1>3, <2>2, <2>3 DEF WriteKeyFile, KeysInv, KeysTypeOK, InstalledKeys
<1>4. CASE KeygenDies
  BY <1>0, <1>4 DEF KeygenDies, KeysInv, KeysTypeOK, InstalledKeys
<1>5. CASE BuildModule
  <2>1. header' \in Pairs /\ keygens # 0
    BY <1>0, <1>5 DEF BuildModule, KeysInv, InstalledKeys
  <2>2. QED BY <1>5, <2>1 DEF BuildModule, KeysInv, KeysTypeOK, InstalledKeys
<1>6. QED BY <1>1, <1>2, <1>3, <1>4, <1>5 DEF KeyStep

-----------------------------------------------------------------------------
\* Nothing is loaded, nobody runs, the installed keys are in their places.
LEMMA LifeInitInv == LifeInit => LifeInv
<1> SUFFICES ASSUME LifeInit PROVE LifeInv
  OBVIOUS
<1> USE DEF LifeInit, ModuleInit, LogStart, KeysInit
<1>1. ModuleTypeOK
  BY LogAssumption, ModuleAssumption DEF ModuleTypeOK, LogTypeOK
<1>2. PhaseInv /\ LeftInv /\ CountInv /\ ModuleHarm
  BY ModuleAssumption DEF PhaseInv, LeftInv, CountInv, ModuleHarm
<1>3. DaemonInv
  <2>1. life \in Lives /\ life.crashes \in Nat /\ life.signals \in Nat /\ life.edits \in Nat
    BY LifeAssumption
  <2>2. 0 \in 0..life.crashes /\ 0 \in 0..life.signals /\ 0 \in 0..life.edits /\ 0 \in 0..MaxLoads
    BY <2>1, ModuleAssumption
  <2>3. QED BY <2>1, <2>2 DEF DaemonInv
<1>4. KeysTypeOK
  BY KeysAssumption DEF KeysTypeOK, Pairs, Contents
<1>5. InstalledKeys
  BY DEF InstalledKeys, Booting
<1>6. QED BY <1>1, <1>2, <1>3, <1>4, <1>5, LifeInvParts DEF ModuleInv, KeysInv

\* Every step of the module, the daemon and the operator keeps the invariant.
LEMMA LifeStep == LifeInv /\ [LifeNext]_vars => LifeInv'
<1> DEFINE Goal ==
      ModuleInv' /\ DaemonInv' /\ KeysInv' /\ ("stranger" \in harm' => unclean')
<1> SUFFICES ASSUME LifeInv, [LifeNext]_vars PROVE Goal
  BY DEF LifeInv, TypeOK, HarmConfined, ModuleInv, ModuleHarm, DaemonInv, KeysInv
<1>0. ModuleInv /\ DaemonInv /\ KeysInv /\ ("stranger" \in harm => unclean)
  BY LifeInvParts
<1>1. ASSUME UNCHANGED keyVars, UNCHANGED daemonVars PROVE KeysInv' /\ DaemonInv'
  <2>1. KeysTypeOK'
    BY <1>0, <1>1 DEF KeysInv, KeysTypeOK, keyVars
  <2>2. InstalledKeys'
    BY <1>0, <1>1 DEF KeysInv, InstalledKeys, keyVars, daemonVars
  <2>3. DaemonInv'
    BY <1>0, <1>1 DEF DaemonInv, daemonVars
  <2>4. QED BY <2>1, <2>2, <2>3 DEF KeysInv
<1>2. CASE harm = {} /\ LoadModule
  <2>1. ModuleInv' /\ "stranger" \notin harm'
    BY <1>0, <1>2, Insmods DEF LoadModule
  <2>2. KeysTypeOK'
    BY <1>0, <1>2 DEF LoadModule, KeysInv, KeysTypeOK
  <2>3. InstalledKeys'
    BY <1>0, <1>2 DEF LoadModule, KeysInv, InstalledKeys, daemonVars
  <2>4. DaemonInv'
    BY <1>0, <1>2 DEF LoadModule, DaemonInv, daemonVars
  <2>5. QED BY <2>1, <2>2, <2>3, <2>4 DEF KeysInv
<1>3. CASE harm = {} /\ ModuleStep /\ UNCHANGED <<keyVars, daemonVars>>
  <2>1. ModuleInv' /\ "stranger" \notin harm'
    BY <1>0, <1>3, ModuleSteps
  <2>2. QED BY <1>1, <1>3, <2>1
<1>4. CASE harm = {} /\ KeyStep /\ UNCHANGED <<moduleVars, harm, daemonVars>>
  <2>1. KeysInv'
    BY <1>0, <1>4, KeySteps
  <2>2. ModuleInv'
    BY <1>0, <1>4, ModuleStays
  <2>3. DaemonInv'
    BY <1>0, <1>4 DEF DaemonInv, daemonVars
  <2>4. QED BY <1>4, <2>1, <2>2, <2>3
<1>5. CASE harm = {} /\ (Start \/ DaemonStep)
  <2>1. /\ DaemonInv' /\ KeysInv' /\ UNCHANGED moduleVars /\ harm' = harm
    BY <1>5, DaemonSteps
  <2>2. ModuleInv'
    BY <1>0, <1>5, <2>1, ModuleStays
  <2>3. QED BY <1>5, <2>1, <2>2
<1>6. CASE harm = {} /\ (Stop \/ Crash \/ Signal)
  <2>1. /\ DaemonInv' /\ KeysInv' /\ UNCHANGED moduleVars
        /\ harm' \subseteq {"stranger"} /\ ("stranger" \in harm' => unclean')
    BY <1>6, DaemonEnds
  <2>2. ModuleInv'
    BY <1>0, <1>6, <2>1, ModuleStays
  <2>3. QED BY <2>1, <2>2
<1>7. CASE harm = {} /\ Answer
  <2>1. ModuleInv' /\ "stranger" \notin harm'
    BY <1>0, <1>7, Answers
  <2>2. UNCHANGED keyVars /\ UNCHANGED daemonVars
    BY <1>7 DEF Answer
  <2>3. QED BY <1>1, <2>1, <2>2
<1>8. CASE UNCHANGED vars
  <2>1. UNCHANGED keyVars /\ UNCHANGED daemonVars /\ UNCHANGED moduleVars /\ harm' = harm
    BY <1>8 DEF vars
  <2>2. ModuleInv'
    <3> USE <2>1 DEF moduleVars, logVars
    <3>1. ModuleTypeOK'
      BY <1>0 DEF ModuleInv, ModuleTypeOK, LogTypeOK
    <3>2. PhaseInv' /\ LeftInv' /\ CountInv'
      BY <1>0 DEF ModuleInv, PhaseInv, LeftInv, CountInv
    <3>3. ModuleHarm'
      BY <1>0 DEF ModuleInv, ModuleHarm
    <3>4. QED BY <3>1, <3>2, <3>3 DEF ModuleInv
  <2>3. unclean' = unclean
    BY <2>1 DEF daemonVars
  <2>4. QED BY <1>0, <1>1, <2>1, <2>2, <2>3
<1>9. CASE harm = {} /\ EditPolicy
  <2>1. DaemonInv' /\ KeysInv' /\ UNCHANGED moduleVars /\ harm' = harm /\ unclean' = unclean
    BY <1>9, Edits
  <2>2. ModuleInv'
    BY <1>0, <1>9, <2>1, ModuleStays
  <2>3. QED BY <1>9, <2>1, <2>2
<1>10. QED BY <1>2, <1>3, <1>4, <1>5, <1>6, <1>7, <1>8, <1>9 DEF LifeNext

\* The invariant holds in every life of the module and the daemon.
THEOREM LifeInvariance == LifeSpec => []LifeInv
<1>1. QED BY LifeInitInv, LifeStep, PTL DEF LifeSpec

\* PROPERTY TypeOK: every variable keeps its type; no entry point of a module
\* is being run that is not registered, and the timers stay below their bound.
THEOREM LifeTypeCorrect == LifeSpec => []TypeOK
<1>1. LifeInv => TypeOK
  BY DEF LifeInv
<1>2. QED BY <1>1, LifeInvariance, PTL

\* PROPERTY HarmConfined: a freed log is written, freed code is called and a
\* stranger is signalled in the ways that are named there, and in no other.
THEOREM HarmIsConfined == LifeSpec => []HarmConfined
<1>1. LifeInv => HarmConfined
  BY DEF LifeInv
<1>2. QED BY <1>1, LifeInvariance, PTL

\* PROPERTY OneKey: an event is let through only under one pair of keys, whole,
\* in all three places; under one it is let through unless a rule denies it that
\* is not hidden from the log; and until qks_keygen runs it is always the
\* installed pair.
THEOREM OneKeyHolds == LifeSpec => []OneKey
<1>1. LifeInv => OneKey
  <2> SUFFICES ASSUME LifeInv, CanAnswer
               PROVE  /\ \A pol \in {"ALLOW", "DENY", "UNKNOWN"}, suppress \in BOOLEAN,
                            hashed \in BOOLEAN :
                           Applied(SignedVerdict(pol, suppress), hashed) = "ALLOW"
                             <=> (pol = "DENY" => suppress) /\ hashed
                                 /\ qks_sk = g_pk /\ g_pk = kernelKey
                      /\ keygens = 0 => qks_sk = g_pk /\ g_pk = kernelKey
    BY DEF OneKey
  <2>1. KeysTypeOK /\ InstalledKeys
    BY DEF LifeInv, TypeOK
  <2>2. kernelKey \in Pairs /\ Empty \notin Pairs
    BY <2>1, KeysAssumption DEF KeysTypeOK, Pairs, Empty
  <2>3. ASSUME NEW hashed \in BOOLEAN PROVE Applied(SignedVerdict("DENY", FALSE), hashed) # "ALLOW"
    BY DEF SignedVerdict, Applied, Message
  <2>4. ASSUME NEW pol, NEW suppress \in BOOLEAN, NEW hashed \in BOOLEAN, pol = "DENY" => suppress
        PROVE  Applied(SignedVerdict(pol, suppress), hashed) = "ALLOW"
                 <=> hashed /\ qks_sk = g_pk /\ g_pk = kernelKey
    <3> DEFINE hash == qks_hash_verdict_tuple("ALLOW")
               sig  == sign_hash(hash)
    <3>1. Verifies(sig, hash, g_pk) <=> qks_sk = g_pk /\ g_pk \in Pairs
      BY DEF Verifies, sign_hash
    <3>2. CASE ~Verifies(sig, hash, g_pk)
      <4>1. SignedVerdict(pol, suppress).verdict = "DENY"
        BY <2>4, <3>2 DEF SignedVerdict, Message
      <4>2. QED BY <2>2, <3>1, <3>2, <4>1 DEF Applied
    <3>3. CASE Verifies(sig, hash, g_pk)
      <4>1. SignedVerdict(pol, suppress) = Message("ALLOW", hash, sig)
        BY <2>4, <3>3 DEF SignedVerdict
      <4>2. sig # NoSignature
        BY <2>2, <3>1, <3>3 DEF sign_hash, NoSignature
      <4>3. qks_verify_signature(Message("ALLOW", hash, sig), hashed)
              <=> hashed /\ Verifies(sig, hash, kernelKey)
        BY <4>2 DEF qks_verify_signature, Message
      <4>4. Verifies(sig, hash, kernelKey) <=> qks_sk = kernelKey
        BY <2>2 DEF Verifies, sign_hash
      <4>5. QED BY <3>1, <3>3, <4>1, <4>3, <4>4 DEF Applied, Message
    <3>4. QED BY <3>2, <3>3
  <2>5. keygens = 0 => qks_sk = g_pk /\ g_pk = kernelKey
    BY <2>1 DEF InstalledKeys, CanAnswer, Listening
  <2>6. ASSUME NEW pol \in {"ALLOW", "DENY", "UNKNOWN"}, NEW suppress \in BOOLEAN,
               NEW hashed \in BOOLEAN
        PROVE  Applied(SignedVerdict(pol, suppress), hashed) = "ALLOW"
                 <=> (pol = "DENY" => suppress) /\ hashed /\ qks_sk = g_pk /\ g_pk = kernelKey
    BY <2>3, <2>4
  <2>7. QED BY <2>5, <2>6
<1>2. QED BY <1>1, LifeInvariance, PTL

=============================================================================
