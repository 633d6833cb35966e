---------------------------- MODULE KernelModule ----------------------------
(***************************************************************************)
(* Loading and unloading the kernel module: kernel/qks_main.c and the init *)
(* and exit functions it calls in qks_log.c, qks_netlink.c,                *)
(* qks_netfilter.c and qks_syscalls.c.                                     *)
(*                                                                         *)
(* Each part registers entry points through which the kernel calls the     *)
(* module: files in /proc, the netlink family, the packet hooks, probes.   *)
(* Unregistering one waits until nobody is inside it.  When init fails, or *)
(* exit is over, the code of the module is freed: an entry point or an     *)
(* armed timer that is left calls freed code.                              *)
(***************************************************************************)
EXTENDS KernelLog, Sequences, FiniteSets

CONSTANTS
  Kernels,       \* sets of symbols that a kernel may lack
  MaxLoads,      \* bound: insmod calls
  MaxTimers      \* bound: events that wait for a verdict at one time

ASSUME ModuleAssumption == MaxLoads \in Nat /\ MaxTimers \in Nat

VARIABLES
  phase,         \* where qks_init or qks_exit is
  load,          \* how often the module was loaded; names the load at hand
  lacks,         \* symbols this kernel does not have
  registered,    \* entry points of the module the kernel knows
  dangling,      \* the same, of code that is gone
  inside,        \* entry points that are being run
  timers,        \* armed timers of pending events
  staleTimers,   \* the same, of code that is gone
  \* what happened, for the properties
  failed,        \* steps of qks_init that failed
  unloads        \* how often qks_exit was run to its end

moduleVars == <<logVars, phase, load, lacks, registered, dangling, inside,
                timers, staleTimers, failed, unloads>>

Family == "family"
Hooks  == "hooks"

\* The probes in the order of their registration, each by the symbols that are
\* tried for it.
ProbeTable == <<
  <<"__x64_sys_execve">>, <<"__x64_sys_execveat">>, <<"security_bprm_check">>,
  <<"__x64_sys_memfd_create">>, <<"__x64_sys_mprotect">>, <<"__x64_sys_mmap">>,
  <<"__x64_sys_setuid">>, <<"__x64_sys_setgid">>, <<"__x64_sys_setresuid">>,
  <<"__x64_sys_setresgid">>, <<"__x64_sys_capset">>, <<"kernel_clone">>,
  <<"__x64_sys_clone3">>, <<"__x64_sys_unshare">>, <<"__x64_sys_setns">>,
  <<"security_socket_create", "__x64_sys_socket", "__sys_socket_create", "__sys_socket">> >>

\* Those whose registration may fail.
Optional == {"__x64_sys_execveat", "security_bprm_check", "__x64_sys_capset",
             "__x64_sys_clone3"}

Probes == UNION {{ProbeTable[i][j] : j \in DOMAIN ProbeTable[i]} : i \in DOMAIN ProbeTable}
Entries == {Family, Hooks} \cup Probes

ModuleTypeOK ==
  /\ LogTypeOK
  /\ phase \in {"out", "netlink", "netfilter", "syscalls", "undo_netfilter",
                "undo_netlink", "live", "exit_log", "exit_syscalls",
                "exit_netfilter", "exit_netlink"}
  /\ load \in 0..MaxLoads /\ unloads \in 0..MaxLoads
  /\ lacks \in Kernels
  /\ registered \subseteq Entries /\ dangling \subseteq Entries
  /\ inside \subseteq registered
  /\ timers \in 0..MaxTimers /\ staleTimers \in 0..MaxTimers
  /\ failed \subseteq {"log", "netlink", "execve", "syscalls"}

ModuleInit ==
  /\ LogStart
  /\ phase = "out" /\ load = 0 /\ lacks \in Kernels
  /\ registered = {} /\ dangling = {} /\ inside = {}
  /\ timers = 0 /\ staleTimers = 0
  /\ failed = {} /\ unloads = 0

-----------------------------------------------------------------------------
\* qks_register_kprobe_any: the first of its symbols that this kernel has.
qks_register_kprobe_any(symbols) ==
  {symbols[i] : i \in {j \in DOMAIN symbols :
     symbols[j] \notin lacks /\ \A k \in 1..(j - 1) : symbols[k] \in lacks}}

Required(i) == ProbeTable[i][1] \notin Optional

\* Required probes that this kernel does not let us register.
Refused == {i \in DOMAIN ProbeTable :
              Required(i) /\ qks_register_kprobe_any(ProbeTable[i]) = {}}

\* What qks_syscalls_init has registered when it returns: the probes before
\* the first one refused.
Placed ==
  UNION {qks_register_kprobe_any(ProbeTable[i]) :
           i \in {j \in DOMAIN ProbeTable : \A k \in Refused : j < k}}

NobodyIn(entries) == inside \cap entries = {}

\* The end of the module's code, after an RCU grace period that waits out
\* whoever is inside.  What is left of its /proc entries, its entry points and
\* its timers leads nowhere.
FreeCode ==
  /\ phase' = "out"
  /\ inside = {} /\ lock = "free"
  /\ proc' = (IF proc = "ours" THEN "orphan" ELSE proc)
  /\ timers' = 0 /\ staleTimers' = staleTimers + timers

\* insmod: log_init.
Insmod ==
  /\ phase = "out" /\ load < MaxLoads
  /\ load' = load + 1
  /\ \/ qks_log_init /\ phase' = "netlink" /\ UNCHANGED failed
     \/ qks_log_init_fails /\ failed' = failed \cup {"log"} /\ UNCHANGED phase
  /\ UNCHANGED <<lacks, registered, dangling, inside, timers, staleTimers, unloads>>

\* qks_netlink_init logs and registers the family.  If that fails, qks_init
\* returns with the log in place.
qks_netlink_init ==
  /\ phase = "netlink"
  /\ qks_log(FALSE)
  /\ phase' = "netfilter" /\ registered' = registered \cup {Family}
  /\ UNCHANGED <<load, lacks, dangling, inside, timers, staleTimers, failed, unloads>>

qks_netlink_init_fails ==
  /\ phase = "netlink"
  /\ FreeCode
  /\ failed' = failed \cup {"netlink"}
  /\ UNCHANGED <<ring, head, lock, harm, load, lacks, registered, dangling, inside, unloads>>

\* qks_netfilter_init does not look at what registering the hooks returns.
qks_netfilter_init ==
  /\ phase = "netfilter" /\ phase' = "syscalls"
  /\ registered' \in {registered, registered \cup {Hooks}}
  /\ UNCHANGED <<logVars, harm, load, lacks, dangling, inside, timers,
                 staleTimers, failed, unloads>>

\* qks_syscalls_init; a probe that fails is logged but for the first one.
qks_syscalls_init ==
  /\ phase = "syscalls"
  /\ qks_log(FALSE)
  /\ registered' = registered \cup Placed
  /\ IF Refused = {} THEN phase' = "live" /\ UNCHANGED failed
     ELSE /\ phase' = "undo_netfilter"
          /\ failed' = failed \cup {IF 1 \in Refused THEN "execve" ELSE "syscalls"}
  /\ UNCHANGED <<load, lacks, dangling, inside, timers, staleTimers, unloads>>

\* qks_netfilter_exit and qks_netlink_exit, called by qks_exit and by qks_init
\* when the probes fail.
qks_netfilter_exit ==
  /\ \/ phase = "undo_netfilter" /\ phase' = "undo_netlink"
     \/ phase = "exit_netfilter" /\ phase' = "exit_netlink"
  /\ NobodyIn({Hooks}) /\ registered' = registered \ {Hooks}
  /\ UNCHANGED <<logVars, harm, load, lacks, dangling, inside, timers,
                 staleTimers, failed, unloads>>

\* Slip: the family of a module that fails to load is left registered.
qks_netlink_exitSlip ==
  /\ phase \in {"undo_netlink", "exit_netlink"}
  /\ NobodyIn({Family})
  /\ LET left == IF phase = "undo_netlink" THEN registered ELSE registered \ {Family} IN
       dangling' = dangling \cup left
  /\ registered' = {}
  /\ FreeCode
  /\ unloads' = IF phase = "exit_netlink" THEN unloads + 1 ELSE unloads
  /\ UNCHANGED <<ring, head, lock, harm, load, lacks, inside, failed>>

\* The last step of both: then the code is freed, with the probes that a
\* failed qks_syscalls_init left in place.
qks_netlink_exit ==
  /\ phase \in {"undo_netlink", "exit_netlink"}
  /\ NobodyIn({Family})
  /\ dangling' = dangling \cup (registered \ {Family})
  /\ registered' = {}
  /\ FreeCode
  /\ unloads' = IF phase = "exit_netlink" THEN unloads + 1 ELSE unloads
  /\ UNCHANGED <<ring, head, lock, harm, load, lacks, inside, failed>>

\* rmmod: qks_exit begins with the log.
Rmmod ==
  /\ phase = "live" /\ phase' = "exit_log"
  /\ UNCHANGED <<logVars, harm, load, lacks, registered, dangling, inside,
                 timers, staleTimers, failed, unloads>>

ExitLog ==
  /\ phase = "exit_log" /\ phase' = "exit_syscalls"
  /\ qks_log_exit
  /\ UNCHANGED <<load, lacks, registered, dangling, inside, timers,
                 staleTimers, failed, unloads>>

qks_syscalls_exit ==
  /\ phase = "exit_syscalls" /\ phase' = "exit_netfilter"
  /\ NobodyIn(Probes) /\ registered' = registered \ Probes
  /\ UNCHANGED <<logVars, harm, load, lacks, dangling, inside, timers,
                 staleTimers, failed, unloads>>

-----------------------------------------------------------------------------
\* A process runs into a probe or a packet into a hook.
Call(e) ==
  /\ e \notin inside
  /\ IF e \in dangling THEN Hurt("freed_code") /\ UNCHANGED inside
     ELSE e \in registered /\ inside' = inside \cup {e} /\ UNCHANGED harm
  /\ UNCHANGED <<logVars, phase, load, lacks, registered, dangling, timers,
                 staleTimers, failed, unloads>>

\* Its handler logs, sends the event, and leaves a timer behind if a daemon
\* heard of it.  An incoming packet comes in softirq context.
Handle(e, heard) ==
  /\ e \in inside /\ inside' = inside \ {e}
  /\ qks_log(e = Hooks)
  /\ timers' = IF heard /\ timers + staleTimers < MaxTimers THEN timers + 1 ELSE timers
  /\ UNCHANGED <<phase, load, lacks, registered, dangling, staleTimers, failed, unloads>>

\* qks_verdict_timeout, in softirq context.
qks_verdict_timeout ==
  /\ \/ /\ staleTimers > 0 /\ Hurt("freed_code")
        /\ UNCHANGED <<logVars, timers>>
     \/ /\ timers > 0 /\ timers' = timers - 1
        /\ qks_log(TRUE)
  /\ UNCHANGED <<phase, load, lacks, registered, dangling, inside, staleTimers,
                 failed, unloads>>

\* A reader of /proc/qks/log.
ReadLog(step) ==
  /\ step
  /\ UNCHANGED <<phase, load, lacks, registered, dangling, inside, timers,
                 staleTimers, failed, unloads>>

\* The steps that qks_init and qks_exit go on with by themselves.
Loading == qks_netlink_init \/ qks_netfilter_init \/ qks_syscalls_init
Unloading == \/ qks_netfilter_exit \/ qks_netlink_exit \/ ExitLog \/ qks_syscalls_exit

=============================================================================
