------------------------------- MODULE Probes -------------------------------
(***************************************************************************)
(* What the probes of the kernel module report of a call                   *)
(* (kernel/qks_syscalls.c; the two hooks of kernel/qks_netfilter.c that    *)
(* run in the context of a process).                                       *)
(*                                                                         *)
(* A probe runs before the call does.  cur is the task that makes the call *)
(* (current), ts the time, call its arguments; the result is the set of    *)
(* events the probe sends, none or one.  Bit fields are sets of names and  *)
(* the arguments rules ask about are named as in PolicyEngine; addresses,  *)
(* lengths, strings and the number of the call are left out.               *)
(***************************************************************************)
EXTENDS SequencesExt, Integers

CONSTANT VscodeServer   \* the prefix handler_pre_exec knows

\* A call without arguments.
NoArgs == [nr |-> "", file |-> <<>>, setuid |-> FALSE, prot |-> {}, flags |-> {},
           arg0 |-> "", arg1 |-> "", arg2 |-> "", port |-> 0]

ExecEvent(cur, ts, path) ==
  [type |-> "EXEC", pid |-> cur.pid, uid |-> cur.uid, ts |-> ts, exec_path |-> path]

\* qks_fill_common
Common(cur, ts, subtype) ==
  [type |-> "SYSCALL", subtype |-> subtype, pid |-> cur.pid, uid |-> cur.uid,
   ts |-> ts, prot |-> {}, flags |-> {}, arg0 |-> "", arg1 |-> "", arg2 |-> ""]

\* The path is that of the program that makes the call.
handler_pre_exec(cur, ts, call) ==
  IF IsPrefix(VscodeServer, cur.exe) THEN {} ELSE {ExecEvent(cur, ts, cur.exe)}

\* The path is that of the file to be executed.
handler_pre_bprm(cur, ts, call) == {ExecEvent(cur, ts, call.file)}

handler_pre_memfd(cur, ts, call) ==
  {[Common(cur, ts, "MEMFD_CREATE") EXCEPT !.flags = call.flags]}

handler_pre_mprotect(cur, ts, call) ==
  {ev \in {[Common(cur, ts, "MPROTECT_X") EXCEPT !.prot = call.prot]} : "PROT_EXEC" \in ev.prot}

handler_pre_mmap(cur, ts, call) ==
  {ev \in {[Common(cur, ts, "MMAP_X") EXCEPT !.prot = call.prot, !.flags = call.flags]} :
     "PROT_EXEC" \in ev.prot}

\* setuid, setgid, setresuid, setresgid and capset; no rule sees the new ids.
handler_pre_priv(cur, ts, call) == {Common(cur, ts, "PRIV_CHANGE")}

handler_pre_kernel_clone(cur, ts, call) ==
  {[Common(cur, ts, "CLONE_FAMILY") EXCEPT !.flags = call.flags]}

\* clone3 ends in kernel_clone, which is probed too: one call, two events.
handler_pre_clone3(cur, ts, call) ==
  {[Common(cur, ts, "CLONE_FAMILY") EXCEPT !.flags = call.flags]}

handler_pre_unshare(cur, ts, call) ==
  {[Common(cur, ts, "UNSHARE") EXCEPT !.flags = call.flags]}

handler_pre_setns(cur, ts, call) ==
  {[Common(cur, ts, "SETNS") EXCEPT !.arg1 = call.arg1]}

handler_pre_socket(cur, ts, call) ==
  {[Common(cur, ts, "SOCKET_CREATE") EXCEPT
      !.arg0 = call.arg0, !.arg1 = call.arg1, !.arg2 = call.arg2]}

-----------------------------------------------------------------------------
\* The hooks fill pkt_pid and leave pid 0.  What they drop and which packets
\* they look at is in DropList: the packets here are reported.
PacketEvent(type, pid, uid, ts, call) ==
  [type |-> type, pid |-> 0, uid |-> 0, pkt_pid |-> pid, pkt_uid |-> uid, ts |-> ts,
   protocol |-> "", tcp_flags |-> {}, src_port |-> 0, src_ip |-> <<>>,
   dst_port |-> call.port, dst_ip |-> <<call.arg0>>, len |-> 60, dns_qname |-> <<>>]

\* A SYN.  cur is not always the process that connects: a SYN that is sent
\* again is sent from a timer, in the context of whatever runs (SentAgain in
\* ProcessPath).
qks_nf_hook(cur, ts, call) ==
  {[PacketEvent("PACKET", cur.pid, cur.uid, ts, call) EXCEPT
      !.protocol = "tcp", !.tcp_flags = {"syn"}]}

qks_dns_hook(cur, ts, call) ==
  {[PacketEvent("DNS", cur.pid, cur.uid, ts, call) EXCEPT
      !.protocol = "udp", !.dns_qname = call.file]}

\* A packet that comes in has no process.
qks_nf_hook_in(ts, call) ==
  [PacketEvent("PACKET_IN", 0, 0, ts, call) EXCEPT
     !.protocol = "tcp", !.tcp_flags = {"syn"}, !.src_port = call.port,
     !.src_ip = <<call.arg0>>]

-----------------------------------------------------------------------------
\* The calls that are probed, and the probes.
Probed == {"execve", "execveat", "memfd_create", "mprotect", "mmap", "setuid", "setgid",
  "setresuid", "setresgid", "capset", "clone", "clone3", "fork", "vfork", "unshare",
  "setns", "socket", "connect", "sendto"}
ProbeNames == {"exec", "bprm", "memfd_create", "mprotect", "mmap", "priv", "kernel_clone",
  "clone3", "unshare", "setns", "socket", "connect", "sendto"}

\* The probes a call passes, in order (qks_syscalls_init).
ProbesOf(call) ==
  CASE call.nr \in {"execve", "execveat"} -> <<"exec", "bprm">>
    [] call.nr = "clone3" -> <<"clone3", "kernel_clone">>
    [] call.nr \in {"clone", "fork", "vfork"} -> <<"kernel_clone">>
    [] call.nr \in {"setuid", "setgid", "setresuid", "setresgid", "capset"} -> <<"priv">>
    [] OTHER -> <<call.nr>>

Report(probe, cur, ts, call) ==
  CASE probe = "exec"         -> handler_pre_exec(cur, ts, call)
    [] probe = "bprm"         -> handler_pre_bprm(cur, ts, call)
    [] probe = "memfd_create" -> handler_pre_memfd(cur, ts, call)
    [] probe = "mprotect"     -> handler_pre_mprotect(cur, ts, call)
    [] probe = "mmap"         -> handler_pre_mmap(cur, ts, call)
    [] probe = "priv"         -> handler_pre_priv(cur, ts, call)
    [] probe = "kernel_clone" -> handler_pre_kernel_clone(cur, ts, call)
    [] probe = "clone3"       -> handler_pre_clone3(cur, ts, call)
    [] probe = "unshare"      -> handler_pre_unshare(cur, ts, call)
    [] probe = "setns"        -> handler_pre_setns(cur, ts, call)
    [] probe = "socket"       -> handler_pre_socket(cur, ts, call)
    [] probe = "connect"      -> qks_nf_hook(cur, ts, call)
    [] probe = "sendto"       -> qks_dns_hook(cur, ts, call)

=============================================================================
