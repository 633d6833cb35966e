------------------------------ MODULE LifeCycle ------------------------------
(***************************************************************************)
(* The kernel module and the daemon over their lives: the module is loaded *)
(* and unloaded while the daemon starts, joins the multicast group,        *)
(* answers, stops, dies and is started again by systemd                    *)
(* (daemon/qks_daemon.c main, qks-daemon.service), with keys that may      *)
(* change meanwhile, on top of KernelModule and Keys.                      *)
(*                                                                         *)
(* The daemon looks the netlink family up once.  A module that is loaded   *)
(* again has a family of its own, and the kernel drops the members of the  *)
(* group of the old one: the daemon is deaf from then on and does not      *)
(* know it.                                                                *)
(***************************************************************************)
EXTENDS KernelModule, Keys

\* Settings and bounds that go together: is the daemon run by systemd; how often
\* the module is loaded and on which kernels, which of its entry points are
\* called, whether the log is read, how often keys are made, the daemon dies,
\* a policy is PUT, and policy.json is replaced by one that loads or does not.
CONSTANT Lives

ASSUME LifeAssumption ==
  Lives \subseteq [unit : BOOLEAN, loads : 0..MaxLoads, kernels : SUBSET Kernels,
                   called : SUBSET Entries, dumps : BOOLEAN,
                   keygens : 0..MaxKeygens, crashes : Nat, signals : Nat, edits : Nat]

VARIABLES
  life,          \* the bounds at hand
  daemon,        \* where main is
  fam_id,        \* the load whose family the daemon sends to; 0: none yet
  member,        \* the load whose group it joined
  pidFile,       \* whom /run/qks_daemon.pid names
  policyFile,    \* whether qks_policy_load accepts policy/policy.json
  crashes, signals, edits,
  \* what happened, for the properties
  unclean        \* did a daemon end that had written the file, and leave it?

daemonVars == <<life, daemon, fam_id, member, pidFile, policyFile,
                crashes, signals, edits, unclean>>
vars == <<moduleVars, harm, keyVars, daemonVars>>

Booting == {"private_key", "public_key", "pid_file", "signals", "resolve", "join"}

LifeInit ==
  /\ life \in Lives
  /\ ModuleInit /\ KeysInit /\ lacks \in life.kernels
  /\ daemon = "stopped" /\ fam_id = 0 /\ member = 0
  /\ pidFile = "absent" /\ policyFile = "good"
  /\ crashes = 0 /\ signals = 0 /\ edits = 0 /\ unclean = FALSE

Listening == daemon = "ready" /\ member = load /\ Family \in registered

-----------------------------------------------------------------------------
(* The daemon.                                                              *)

operatorVars == <<policyFile, edits>>
daemonOnly == UNCHANGED <<moduleVars, harm, life, crashes, signals, operatorVars>>

\* The end of the process: on the way out of main only the last return, after
\* the worker ended, removes the pid file.
End(state) ==
  /\ daemon' = state /\ fam_id' = 0 /\ member' = 0
  /\ pidFile' = IF pidFile = "daemon" THEN "stale" ELSE pidFile
  /\ unclean' = (unclean \/ pidFile = "daemon")

Advance(from, to) ==
  /\ daemon = from /\ daemon' = to
  /\ UNCHANGED <<fam_id, member, pidFile, unclean>>

\* The operator starts the daemon; systemd restarts it after a failure.
Start ==
  /\ daemon \in {"stopped", "failed"} /\ daemon' = "private_key"
  /\ UNCHANGED <<keyVars, fam_id, member, pidFile, unclean>> /\ daemonOnly

\* Return code 1, which Restart=on-failure is about.
Fails == End("failed") /\ UNCHANGED keyVars /\ daemonOnly

LoadPrivateKey ==
  \/ Advance("private_key", "public_key") /\ load_private_key /\ daemonOnly
  \/ daemon = "private_key" /\ ~SecretKeyLoads /\ Fails

LoadPublicKey ==
  \/ Advance("public_key", "pid_file") /\ load_public_key /\ daemonOnly
  \/ daemon = "public_key" /\ ~PublicKeyLoads /\ Fails

\* write_pid_file, before the policy is read and the handlers are installed.
\* A file that cannot be opened is a warning; under the unit none can, for /run
\* is read-only there (ProtectSystem=strict).
write_pid_file ==
  /\ daemon = "pid_file" /\ daemon' = "signals"
  /\ \/ UNCHANGED pidFile
     \/ ~life.unit /\ pidFile' = "daemon"
  /\ UNCHANGED <<keyVars, fam_id, member, unclean>> /\ daemonOnly

\* The policy is read (what it says: module PolicyReload), and the handlers are
\* installed.  A policy.json that does not load ends the daemon, which leaves
\* its pid file.  A daemon that gets no netlink socket is one that crashes.
InstallHandlers ==
  \/ policyFile = "good" /\ Advance("signals", "resolve") /\ UNCHANGED keyVars /\ daemonOnly
  \/ daemon = "signals" /\ policyFile = "bad" /\ Fails

\* genl_ctrl_resolve.
ResolveFamily ==
  /\ daemon = "resolve"
  /\ IF Family \in registered
     THEN /\ daemon' = "join" /\ fam_id' = load
          /\ UNCHANGED <<keyVars, member, pidFile, unclean>> /\ daemonOnly
     ELSE Fails

\* Slip: the error of nl_socket_add_membership is only printed.
JoinGroupSlip ==
  /\ daemon = "join" /\ daemon' = "ready"
  /\ member' = IF Family \in registered THEN load ELSE 0
  /\ UNCHANGED <<keyVars, fam_id, pidFile, unclean>> /\ daemonOnly

\* genl_ctrl_resolve_grp and nl_socket_add_membership look for the group by
\* the name of the family, whichever load registered that by now.
JoinGroup ==
  /\ daemon = "join"
  /\ IF Family \in registered
     THEN /\ daemon' = "ready" /\ member' = load
          /\ UNCHANGED <<keyVars, fam_id, pidFile, unclean>> /\ daemonOnly
     ELSE Fails

\* systemctl stop.  Before its handlers are there SIGTERM ends the daemon; with
\* them it ends in good order if an event wakes its receive thread, and is
\* killed after the timeout of the unit if none does.
Stop ==
  /\ daemon \in Booting \cup {"ready"}
  /\ \/ End("stopped")
     \/ /\ daemon \in {"resolve", "join", "ready"} /\ daemon' = "stopped" /\ fam_id' = 0 /\ member' = 0
        /\ pidFile' = "absent" /\ UNCHANGED unclean
  /\ UNCHANGED keyVars /\ daemonOnly

\* The daemon dies, or returns 1 because nl_socket_alloc or genl_connect failed.
Crash ==
  /\ daemon \in Booting \cup {"ready"} /\ crashes < life.crashes
  /\ crashes' = crashes + 1
  /\ End("failed")
  /\ UNCHANGED <<keyVars, moduleVars, harm, life, signals, operatorVars>>

\* Somebody installs another policy.json.
EditPolicy ==
  /\ edits < life.edits /\ edits' = edits + 1
  /\ policyFile' \in {"good", "bad"} \ {policyFile}
  /\ UNCHANGED <<keyVars, moduleVars, harm, life, daemon, fam_id, member, pidFile,
                 crashes, signals, unclean>>

\* policyreload.Signal: SIGUSR1 to whatever has the pid of the file by now.  It
\* ends a process that does not expect it.
Signal ==
  /\ pidFile # "absent" /\ signals < life.signals
  /\ signals' = signals + 1
  /\ \/ pidFile = "stale" /\ Hurt("stranger") /\ UNCHANGED <<daemon, fam_id, member, pidFile, unclean>>
     \/ pidFile = "daemon" /\ UNCHANGED harm
        /\ IF daemon = "signals" THEN End("failed")
           ELSE UNCHANGED <<daemon, fam_id, member, pidFile, unclean>>
  /\ UNCHANGED <<moduleVars, keyVars, life, crashes, operatorVars>>

\* The verdict on an event that waits, which frees its timer.  One that is
\* sent to the family of an earlier load goes nowhere.
CanAnswer == Listening /\ fam_id = load
Answer ==
  /\ CanAnswer /\ timers > 0
  /\ timers' = timers - 1
  /\ qks_log(FALSE)
  /\ UNCHANGED <<phase, load, lacks, registered, dangling, inside, staleTimers,
                 failed, unloads, keyVars, daemonVars>>

-----------------------------------------------------------------------------
DaemonStep ==
  \/ LoadPrivateKey \/ LoadPublicKey \/ write_pid_file \/ InstallHandlers
  \/ ResolveFamily \/ JoinGroup

KeyStep ==
  \/ keygens < life.keygens /\ Keygen
  \/ OpenKeyFile \/ WriteKeyFile \/ KeygenDies \/ BuildModule

\* insmod takes the module that was built last.
LoadModule ==
  /\ load < life.loads
  /\ Insmod
  /\ kernelKey' = header
  /\ UNCHANGED <<daemonVars, keyFile, keygen, keygens, header, g_pk, qks_sk>>

ModuleStep ==
  \/ Loading \/ qks_netlink_init_fails \/ Rmmod \/ Unloading
  \/ \E e \in life.called : Call(e) \/ Handle(e, Listening)
  \/ qks_verdict_timeout
  \/ life.dumps /\ ReadLog(BeginDump)
  \/ ReadLog(EndDump)

LifeNext ==
  /\ harm = {}
  /\ \/ LoadModule
     \/ ModuleStep /\ UNCHANGED <<keyVars, daemonVars>>
     \/ KeyStep /\ UNCHANGED <<moduleVars, harm, daemonVars>>
     \/ Start \/ DaemonStep \/ Stop \/ Crash \/ EditPolicy \/ Signal \/ Answer

\* A process that can go on does, systemd restarts what failed, and qks_init
\* and qks_exit run on.  Nobody has to load, unload, stop or start anything.
LifeSpec ==
  /\ LifeInit /\ [][LifeNext]_vars
  /\ WF_vars(harm = {} /\ DaemonStep)
  /\ WF_vars(harm = {} /\ daemon = "failed" /\ life.unit /\ Start)
  /\ WF_vars(harm = {} /\ Loading /\ UNCHANGED <<keyVars, daemonVars>>)
  /\ WF_vars(harm = {} /\ ReadLog(EndDump) /\ UNCHANGED <<keyVars, daemonVars>>)

-----------------------------------------------------------------------------
TypeOK ==
  /\ ModuleTypeOK /\ KeysTypeOK
  /\ daemon \in {"stopped", "failed", "ready"} \cup Booting
  /\ fam_id \in 0..MaxLoads /\ member \in 0..MaxLoads
  /\ pidFile \in {"absent", "daemon", "stale"} /\ policyFile \in {"good", "bad"}
  /\ life \in Lives /\ unclean \in BOOLEAN
  /\ crashes \in 0..life.crashes /\ signals \in 0..life.signals /\ edits \in 0..life.edits

\* Each of the things that must not happen has one way to happen: the log is
\* written after it was freed only while qks_exit takes the probes and hooks
\* down (qks_main.c 46-49); code that was freed is called only through a timer
\* that was armed at an unload, or through what a qks_init that failed left -
\* its files in /proc or its probes, never the hooks or the family
\* (qks_main.c 25-38, qks_syscalls.c 491-494) -, and then the module does not
\* load again; a stranger gets SIGUSR1 only after a daemon that wrote the pid
\* file ended without removing it (qks_daemon.c 605-687, reload.go 30).
HarmConfined ==
  /\ "freed_ring" \in harm => phase \in {"exit_syscalls", "exit_netfilter", "exit_netlink"}
  /\ "freed_code" \in harm =>
       \/ staleTimers > 0 /\ unloads > 0
       \/ proc = "orphan" /\ failed \cap {"netlink", "execve", "syscalls"} # {}
  /\ dangling # {} => "syscalls" \in failed /\ dangling \subseteq Probes
  /\ proc = "orphan" => phase = "out"
  /\ "stranger" \in harm => unclean

\* Whatever the policy decides, an event is let through only if the daemon's two
\* keys and the kernel's are of one pair, whole.  If they are, and the kernel
\* has the memory to check, it is let through unless a rule denies it that is
\* not hidden from the log: the message of a DENY with suppress_log is the
\* ALLOW the worker had signed before it looked (qks_daemon.c 524, 539-592).
\* Until qks_keygen is run once more the three keys are always of one pair
\* (qks_sigverify.c 65-107, qks_netlink.c 133-150).
OneKey ==
  CanAnswer =>
    LET onePair == qks_sk = g_pk /\ g_pk = kernelKey IN
    /\ \A pol \in {"ALLOW", "DENY", "UNKNOWN"}, suppress \in BOOLEAN, hashed \in BOOLEAN :
         Applied(SignedVerdict(pol, suppress), hashed) = "ALLOW"
           <=> (pol = "DENY" => suppress) /\ hashed /\ onePair
    /\ keygens = 0 => onePair

\* The module stays, nobody stops the unit, the key files can be read and the
\* policy loads.
Settled ==
  /\ harm = {} /\ phase = "live" /\ daemon # "stopped" /\ life.unit
  /\ SecretKeyLoads /\ PublicKeyLoads /\ policyFile = "good"
\* A daemon that joined the group of an earlier load does not notice.
Deaf == daemon = "ready" /\ member \in 1..(load - 1)

\* A daemon that started before the module, died, or could not read its keys or
\* its policy comes up once they are good, and listens for good - unless it had
\* joined the group of a module that was loaded again since (qks_daemon.c
\* 605-663, qks-daemon.service Restart=on-failure).  It may still be mute: if
\* the module was loaded again between ResolveFamily and JoinGroup, it hears
\* every event and answers to a family that is gone.
ComesUp == <>[]Settled => <>[](Listening \/ Deaf)

-----------------------------------------------------------------------------
(***************************************************************************)
(* The inductive invariant TypeOK, HarmConfined and OneKey follow from     *)
(* (LifeCycleProofs): what is registered and whose the log is in each      *)
(* phase, what a module may have left behind when its code goes, and that  *)
(* the installed keys are everywhere until qks_keygen runs.                *)
(***************************************************************************)
PhaseInv ==
  /\ phase \in {"out", "netlink"} => registered = {} /\ timers = 0
  /\ phase \in {"netfilter", "exit_netlink"} => registered \subseteq {Family}
  /\ phase \in {"syscalls", "exit_netfilter"} => registered \subseteq {Family, Hooks}
  /\ phase = "undo_netlink" => Hooks \notin registered
  /\ phase \in {"undo_netfilter", "undo_netlink"} =>
       /\ failed \cap {"execve", "syscalls"} # {}
       /\ registered \cap Probes # {} => "syscalls" \in failed
  /\ phase = "out" => proc # "ours"
  /\ phase \in {"exit_syscalls", "exit_netfilter", "exit_netlink"} => proc = "none"
  /\ phase \notin {"out", "exit_syscalls", "exit_netfilter", "exit_netlink"} =>
       ring = "mapped" /\ proc = "ours"

LeftInv ==
  /\ proc = "orphan" => failed \cap {"netlink", "execve", "syscalls"} # {}
  /\ dangling # {} => proc = "orphan"
  /\ staleTimers > 0 => unloads > 0 \/ proc = "orphan"

CountInv ==
  /\ timers + staleTimers <= MaxTimers
  /\ unloads <= load /\ (phase # "out" => unloads < load)

InstalledKeys ==
  keygens = 0 =>
    /\ keygen = "idle" /\ header = 0 /\ kernelKey = 0
    /\ \A f \in KeyFiles : keyFile[f] = 0
    /\ daemon \in (Booting \cup {"ready"}) \ {"private_key"} => qks_sk = 0
    /\ daemon \in (Booting \cup {"ready"}) \ {"private_key", "public_key"} => g_pk = 0

LifeInv ==
  /\ TypeOK /\ HarmConfined /\ PhaseInv /\ LeftInv /\ CountInv /\ InstalledKeys
  /\ pidFile = "stale" => unclean

=============================================================================
