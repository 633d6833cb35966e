----------------------------- MODULE MCLifeCycle -----------------------------
(* Two loads of the module, one more pair of keys, one crash, one PUT, a bad *)
(* policy.json and its repair.                                               *)
EXTENDS LifeCycle

\* All symbols are there; one that may fail is not; one in the middle of the
\* list is not; the first is not; the socket probe takes its second choice, or
\* finds none.
MCKernels ==
  LET socket == ProbeTable[Len(ProbeTable)] IN
  { {}, {"__x64_sys_capset"}, {"__x64_sys_setns"}, {"__x64_sys_execve"},
    {socket[1]}, {socket[i] : i \in DOMAIN socket} }

MCLineLens == {1, 2}

Life(u, l, k, c, d, g, x, s, e) ==
  [unit |-> u, loads |-> l, kernels |-> k, called |-> c, dumps |-> d,
   keygens |-> g, crashes |-> x, signals |-> s, edits |-> e]

\* Kernels of all kinds; packets and a reader of the log; the module loaded
\* again under a daemon that dies or has no policy; new keys; a daemon started
\* by hand.
MCLives == {
  Life(TRUE, 2, MCKernels, {"__x64_sys_mmap", "__x64_sys_socket"}, FALSE, 0, 0, 0, 0),
  Life(TRUE, 2, {{}}, {"__x64_sys_mmap", Hooks}, TRUE, 0, 0, 0, 0),
  Life(TRUE, 2, {{}}, {}, FALSE, 0, 2, 0, 2),
  Life(TRUE, 2, {{}}, {}, FALSE, 1, 0, 0, 0),
  Life(FALSE, 2, {{}}, {Hooks}, FALSE, 0, 1, 1, 1) }

=============================================================================
