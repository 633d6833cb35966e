--------------------------- MODULE MCProcessPath ---------------------------
(***************************************************************************)
(* Calls, packets and a policy for TLC: each probe has a call.  The policy *)
(* denies files under /tmp and one clone flag, and leaves the rest to the  *)
(* model.                                                                  *)
(***************************************************************************)
EXTENDS ProcessPath

Call(nr) == [NoArgs EXCEPT !.nr = nr]
Open(f)  == [Call("execve") EXCEPT !.file = f]

\* Calls after which a process is not what it was: its user changes, or which
\* tasks there are.
UserCalls   == {[Open(<<"/bin", "/su">>) EXCEPT !.setuid = TRUE], Call("setuid")}
ForkCalls   == {Open(<<"/tmp", "/x">>), Call("clone")}
ThreadCalls == {Open(<<"/tmp", "/x">>), [Call("clone3") EXCEPT !.flags = {"CLONE_THREAD"}]}

OtherCalls ==
  {Open(<<"/home/admin/.vscode-server/", "node">>),
   Call("memfd_create"), [Call("mprotect") EXCEPT !.prot = {"PROT_EXEC"}],
   [Call("mprotect") EXCEPT !.prot = {"PROT_READ"}],
   [Call("mmap") EXCEPT !.prot = {"PROT_EXEC"}, !.flags = {"MAP_PRIVATE"}],
   [Call("unshare") EXCEPT !.flags = {"CLONE_NEWUSER"}],
   [Call("setns") EXCEPT !.arg1 = "CLONE_NEWNS"],
   [Call("socket") EXCEPT !.arg0 = "AF_INET", !.arg1 = "SOCK_RAW", !.arg2 = "IPPROTO_ICMP"],
   [Call("connect") EXCEPT !.port = 256, !.arg0 = "10.0.0.1"],
   [Call("sendto") EXCEPT !.port = 53, !.arg0 = "10.0.0.1", !.file = <<"a", ".bad">>]}

PacketIn == [NoArgs EXCEPT !.port = 443, !.arg0 = "10.0.0.2"]

Mix(calls, packets, n, time) ==
  [calls |-> calls, packets |-> packets, events |-> n, time |-> time]
MCMixes == {Mix(UserCalls, {}, 3, 0), Mix(ForkCalls, {}, 3, 0), Mix(ThreadCalls, {}, 3, 0),
            Mix(OtherCalls, {PacketIn}, 2, 0),
            Mix({Call("memfd_create")}, {PacketIn}, 3, 2)}

Key(k, text) == <<k, text>>
MCPolicyText ==
  Obj(<<Key("default_action", Str(<<"ml">>)),
        Key("exec", Obj(<<Key("deny", Arr(<<Obj(<<Key("path_prefix", Str(<<"/tmp">>))>>)>>))>>)),
        Key("syscall", Obj(<<Key("deny", Arr(<<
          Obj(<<Key("subtype", Str(<<"MMAP_X">>)), Key("suppress_log", True)>>),
          Obj(<<Key("flags_any", Arr(<<Str(<<"CLONE_NEWUSER">>)>>))>>)>>))>>))>>)
MCLowerCase == <<>>
MCVscodeServer == <<"/home/admin/.vscode-server/">>

=============================================================================
