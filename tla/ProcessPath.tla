---------------------------- MODULE ProcessPath ----------------------------
(***************************************************************************)
(* What happens to the processes whose calls are judged: the probes of     *)
(* kernel/qks_syscalls.c, the daemon's answer (policy, counters per pid,   *)
(* score) and the kill of kernel/qks_enforce.c.                            *)
(*                                                                         *)
(* An event names its process by pid, and the verdict on it comes later.   *)
(* Meanwhile the process goes on: it executes another file, changes its    *)
(* user, forks or exits, and its pid is given to another process.  A pid   *)
(* here is the kernel's pid of a task: a thread has one of its own, which  *)
(* no kill finds, and exec gives the thread that calls it the pid of the   *)
(* process.  A process has a "life", a number no other process ever has.   *)
(*                                                                         *)
(* The worker judges one event at a time and sends its verdict at once, so *)
(* that is one step here; VerdictPath and DaemonQueue look into it.        *)
(***************************************************************************)
EXTENDS Probes, PolicyEngine, MlBuffer

CONSTANTS
  Pids,          \* pids of tasks; 1 is init
  PolicyText,    \* the policy in force
  Cpus,          \* processors that run softirqs
  Mixes,         \* bound: what occurs together in one behaviour: calls, packets
                 \*   that come in, how many events, and until what time
  MaxLives       \* bound: processes

InitPid == 1

ASSUME PathAssumption ==
  /\ 1..3 \subseteq Pids /\ Pids \subseteq Nat \ {0}
  /\ \A m \in Mixes :
       /\ DOMAIN m = {"calls", "packets", "events", "time"}
       /\ m.events \in Nat /\ m.time \in Nat
       /\ \A call \in m.calls : call.nr \in Probed
       \* 64 bits of nanoseconds are not used up
       /\ m.time + Window < TsModulus
  /\ MaxLives \in Nat \ {0, 1}

VARIABLES
  task,          \* task[p]: the task with pid p
  now,           \* ktime_get_ns
  softirq,       \* softirq[c]: the event of a packet outside any call, not sent yet
  inbox,         \* multicast events, on their way to the worker
  bufs,          \* g_bufs
  events,        \* events so far
  mix,           \* which of the mixes occurs
  \* what happened, for the properties
  lives,         \* processes so far
  owned,         \* owned[p]: the lives of the processes that had pid p
  denied         \* lives of the processes a DENY was to stop

vars == <<task, now, softirq, inbox, bufs, events, mix, lives, owned, denied>>

\* exe and life are those of the process, tgid its pid; left are the probes a
\* call has still to pass, out is the event of one that is not sent yet;
\* killed says that SIGKILL is pending: the call in progress is the last.
Gone == [live |-> FALSE, tgid |-> 0, uid |-> 0, exe |-> <<>>, life |-> 0,
         busy |-> FALSE, call |-> NoArgs, left |-> <<>>, out |-> <<>>, killed |-> FALSE]
Process(p, uid, exe, life) ==
  [Gone EXCEPT !.live = TRUE, !.tgid = p, !.uid = uid, !.exe = exe, !.life = life]

Live         == {p \in Pids : task[p].live}
Group(p)     == {q \in Live : task[q].tgid = task[p].tgid}
IsLeader(p)  == task[p].tgid = p
Resting(S)   == \A p \in S : ~task[p].busy
Cur(p)       == [pid |-> p, uid |-> task[p].uid, exe |-> task[p].exe]
policy_root  == Parse(PolicyText)
Returned(p)  == [task EXCEPT ![p].busy = FALSE, ![p].call = NoArgs, ![p].left = <<>>,
                             ![p].out = <<>>]
Effects      == {"execve", "execveat", "clone", "clone3", "fork", "vfork", "setuid", "setresuid"}
rest         == <<now, softirq, bufs, mix, denied>>

\* A process of a user, with one thread or two.
PathInit ==
  /\ task \in {[p \in Pids |->
       IF p = InitPid THEN Process(p, 0, <<"/bin", "/init">>, 1)
       ELSE IF p \in threads THEN Process(2, 1000, <<"/bin", "/sh">>, 2)
       ELSE Gone] : threads \in {{2}, {2, 3}}}
  /\ now = 0 /\ softirq = [c \in Cpus |-> <<>>] /\ inbox = <<>>
  /\ bufs = [i \in Slots |-> FreeSlot]
  /\ events = 0 /\ mix \in Mixes
  /\ lives = 2
  /\ owned = [p \in Pids |-> IF p \in Live THEN {task[p].life} ELSE {}]
  /\ denied = {}

Tick ==
  /\ now < mix.time /\ now' = now + 1
  /\ UNCHANGED <<task, softirq, inbox, bufs, events, mix, lives, owned, denied>>

-----------------------------------------------------------------------------
(* Calls and the events they are probed for.                                *)

\* An event and who caused it, for the properties.
Caused(ev, life, leader) ==
  [f \in DOMAIN ev \cup {"life", "leader"} |->
     CASE f = "life" -> life [] f = "leader" -> leader [] OTHER -> ev[f]]

\* A call begins, passes a probe and has its event stamped; or the probe has
\* nothing to report and the call goes on.
Pass(p, call, probes) ==
  LET evs == Report(Head(probes), Cur(p), now, call)
      at(out) == [task EXCEPT ![p].busy = TRUE, ![p].call = call,
                              ![p].left = Tail(probes), ![p].out = out]
  IN
  /\ IF evs = {}
     THEN /\ task' = at(<<>>)
          /\ UNCHANGED events
     ELSE \E ev \in evs :
            /\ events < mix.events /\ events' = events + 1
            /\ task' = at(<<Caused(ev, task[p].life, IsLeader(p))>>)
  /\ UNCHANGED <<inbox, lives, owned, rest>>

\* Init does no more than start processes.
Enter(p, call) ==
  /\ p \in Live /\ ~task[p].busy /\ ~task[p].killed /\ (p = InitPid => call.nr = "clone")
  /\ Pass(p, call, ProbesOf(call))

Probe(p) ==
  /\ task[p].busy /\ task[p].left # <<>> /\ task[p].out = <<>>
  /\ Pass(p, task[p].call, task[p].left)

\* Slip: what a listener got is sent again.
MulticastTwice(ev) == inbox' = inbox \o <<ev, ev>>
\* qks_send_msg, with a listener or without.
Multicast(ev) == inbox' = Append(inbox, ev) \/ UNCHANGED inbox

\* A call that changes nothing that matters here is over then.
Send(p) ==
  /\ task[p].out # <<>>
  /\ Multicast(Head(task[p].out))
  /\ task' = IF task[p].call.nr \in Effects THEN [task EXCEPT ![p].out = <<>>] ELSE Returned(p)
  /\ UNCHANGED <<events, lives, owned, rest>>

\* A softirq has its event stamped.  Two, on two processors, are stamped in one
\* order and sent in another.
Stamp(c, ev) ==
  /\ softirq[c] = <<>> /\ events < mix.events /\ events' = events + 1
  /\ softirq' = [softirq EXCEPT ![c] = <<ev>>]
  /\ UNCHANGED <<task, now, inbox, bufs, mix, lives, owned, denied>>

\* Nobody caused a packet that comes in.
CameIn(ts, call) == Caused(qks_nf_hook_in(ts, call), 0, FALSE)
ComesIn(c, call) == Stamp(c, CameIn(now, call))

\* A SYN that the retransmission timer sends again passes the hook too, and
\* current is what the softirq interrupted: the idle task, or whoever runs.
FromTimer == -1
IdleTask  == [pid |-> 0, uid |-> 0, exe |-> <<>>]
SentAgain(c, call) ==
  /\ call.nr = "connect"
  /\ \E cur \in {IdleTask} \cup {Cur(p) : p \in Live} : \E ev \in qks_nf_hook(cur, now, call) :
       Stamp(c, Caused(ev, FromTimer, FALSE))

SendIn(c) ==
  /\ softirq[c] # <<>> /\ softirq' = [softirq EXCEPT ![c] = <<>>]
  /\ Multicast(Head(softirq[c]))
  /\ UNCHANGED <<task, now, bufs, events, mix, lives, owned, denied>>

-----------------------------------------------------------------------------
(* What the calls do.                                                       *)

Through(p) == task[p].busy /\ task[p].left = <<>> /\ task[p].out = <<>>

\* A call that fails, maybe before its second probe, and one whose task is
\* being killed.
Return(p) ==
  /\ task[p].busy /\ task[p].out = <<>>
  /\ task' = Returned(p)
  /\ UNCHANGED <<inbox, events, lives, owned, rest>>

Succeeds(p, calls) == Through(p) /\ ~task[p].killed /\ task[p].call.nr \in calls

\* de_thread: the other threads end and the caller takes the pid of the group.
Exec(p) ==
  LET g == task[p].tgid
      new == [Returned(p)[p] EXCEPT !.exe = task[p].call.file,
                                    !.uid = IF task[p].call.setuid THEN 0 ELSE @]
  IN
  /\ Succeeds(p, {"execve", "execveat"}) /\ Resting(Group(p) \ {p})
  /\ task' = [q \in Pids |-> IF q = g THEN new ELSE IF q \in Group(p) THEN Gone ELSE task[q]]
  /\ UNCHANGED <<inbox, events, lives, owned, rest>>

\* A new process, or a new thread of this one, on a pid nobody has.
Clone(p, q) ==
  LET thread == "CLONE_THREAD" \in task[p].call.flags IN
  /\ Succeeds(p, {"clone", "clone3", "fork", "vfork"})
  /\ q \in Pids \ Live /\ (~thread => lives < MaxLives)
  /\ lives' = IF thread THEN lives ELSE lives + 1
  /\ task' = [Returned(p) EXCEPT ![q] =
       IF thread THEN Returned(p)[p]
       ELSE Process(q, task[p].uid, task[p].exe, lives')]
  /\ owned' = [owned EXCEPT ![q] = @ \cup {task'[q].life}]
  /\ UNCHANGED <<inbox, events, rest>>

\* Only root changes its user here.
SetUid(p) ==
  /\ Succeeds(p, {"setuid", "setresuid"}) /\ task[p].uid = 0
  /\ task' = [Returned(p) EXCEPT ![p].uid = 1000]
  /\ UNCHANGED <<inbox, events, lives, owned, rest>>

\* A thread ends, or with its leader the process, also when it is killed.
Exit(p) ==
  LET ends == IF IsLeader(p) THEN Group(p) ELSE {p} IN
  /\ p \in Live \ {InitPid} /\ Resting(ends)
  /\ task' = [q \in Pids |-> IF q \in ends THEN Gone ELSE task[q]]
  /\ UNCHANGED <<inbox, events, lives, owned, rest>>

-----------------------------------------------------------------------------
(* The answer.                                                              *)

\* Slip: every event names its process in pid.
EvPidSlip(ev) == ev.pid
EvPid(ev) == IF ev.type \in {"PACKET", "DNS"} THEN ev.pkt_pid ELSE ev.pid

\* Slip: root is who is root now.
ShouldNotKillNow(ev) == ev.pid = InitPid \/ (ev.pid \in Live /\ task[ev.pid].uid = 0)
\* Slip: only init is spared.
ShouldNotKillInit(ev) == ev.pid = InitPid
\* qks_should_not_kill, with the user of the time of the event.  current, whose
\* PF_KTHREAD is tested, is the daemon that sends the verdict.
ShouldNotKill(ev) == ev.pid = InitPid \/ ev.uid = 0

\* qks_kill_tgid: the process whose leader has the pid now, if there is one.
Killed(pid) == IF pid \in Live /\ IsLeader(pid) THEN Group(pid) ELSE {}

\* qks_apply_verdict of a DENY; that of a packet is for DropList.
Victims(ev) ==
  IF ev.type \in {"EXEC", "SYSCALL"} /\ ~ShouldNotKill(ev) THEN Killed(ev.pid) ELSE {}

\* What the worker makes of the answer of the policy and of a score.
Judged(answer, score, scored) ==
  IF answer.result # "UNKNOWN" THEN answer.result
  ELSE IF score = "high" /\ scored THEN "DENY" ELSE "ALLOW"
\* A DENY that a rule keeps out of the log is sent as an ALLOW.
Verdict(answer, pol) == IF answer.suppress THEN "ALLOW" ELSE pol

\* The worker takes an event and answers it, the kernel acts on the answer, if
\* it still waits for it (inTime): the event's record is gone after the timeout.
Judge ==
  /\ inbox # <<>>
  /\ LET ev     == Head(inbox)
         answer == Eval(policy_root, ev)
         slot   == SlotOf(bufs, EvPid(ev))
     IN
     /\ bufs' = AfterUpdate(AfterGet(bufs, EvPid(ev), ev.ts), slot, ev)
     /\ \E score \in {"high", "low"}, inTime \in BOOLEAN :
          LET deny == inTime /\ Verdict(answer, Judged(answer, score, slot # NoSlot)) = "DENY" IN
          /\ task' = [p \in Pids |->
               IF deny /\ p \in Victims(ev) THEN [task[p] EXCEPT !.killed = TRUE] ELSE task[p]]
          /\ denied' = IF /\ deny /\ ev.type \in {"EXEC", "SYSCALL"} /\ ev.leader
                          /\ ev.uid # 0 /\ ev.pid # InitPid
                       THEN denied \cup {ev.life} ELSE denied
  /\ inbox' = Tail(inbox)
  /\ UNCHANGED <<now, softirq, events, mix, lives, owned>>

PathNext ==
  \/ Tick
  \/ \E p \in Pids :
       \/ \E call \in mix.calls : Enter(p, call)
       \/ Probe(p) \/ Send(p)
       \/ Return(p) \/ Exec(p) \/ SetUid(p) \/ Exit(p)
       \/ \E q \in Pids : Clone(p, q)
  \/ \E c \in Cpus :
       \/ SendIn(c)
       \/ \E call \in mix.packets : ComesIn(c, call)
       \/ \E call \in mix.calls : SentAgain(c, call)
  \/ Judge

PathSpec == PathInit /\ [][PathNext]_vars

-----------------------------------------------------------------------------
(* Properties.                                                              *)

TasksTypeOK ==
  \A p \in Pids :
    /\ DOMAIN task[p] = DOMAIN Gone
    /\ task[p].live => /\ task[p].tgid \in Live /\ task[p].life \in owned[p]
                       /\ task[task[p].tgid].tgid = task[p].tgid
                       /\ task[task[p].tgid].life = task[p].life
    /\ ~task[p].live => task[p] = Gone

SlotsTypeOK ==
  \A i \in Slots : DOMAIN bufs[i] = DOMAIN FreeSlot /\ bufs[i].count \in [Counters -> Nat]

TypeOK ==
  /\ TasksTypeOK
  /\ mix \in Mixes /\ now \in 0..mix.time /\ events \in 0..mix.events
  /\ Len(inbox) <= events
  /\ SlotsTypeOK
  /\ lives \in 2..MaxLives /\ denied \subseteq 1..lives

\* A kill hits the process that made the call, in whatever program it is by
\* then, or another only if the pid was given away in between: the caller has
\* ended or, a thread, got another pid from exec.  Neither what init does nor
\* what root does is answered with a kill (qks_enforce.c 30-69, 185-214).
KillsConfined == [][
  \A p \in Pids : task'[p].killed /\ ~task[p].killed =>
    LET ev == Head(inbox) IN
    /\ ev.uid # 0 /\ ev.pid # InitPid /\ ev.pid = task[p].tgid
    /\ ev.life = task[p].life \/ {ev.life, task[p].life} \subseteq owned[ev.pid]
  ]_vars

\* A process whose leader made a call that a DENY answered in time does not
\* live on, whatever it executed and whatever user it became in between; the
\* call of another thread may be answered in vain (qks_enforce.c 36-42).
DenyStops == \A p \in Live : task[p].life \in denied => task[p].killed

\* The events a slot counts are of one window, also when they arrive in
\* another order than that of their times: an event from before the window
\* starts a new one (ml_buffer.c 15).
WindowSpan == \A i \in Slots : \A ts \in bufs[i].span :
  ts \in bufs[i].window_start..(bufs[i].window_start + Window)

\* The events a slot counts are of processes that had its pid, a thread's being
\* its own, or came in, for pid 0; but outgoing packets may be anybody's: a SYN
\* that is sent again counts for the task the timer interrupts, for pid 0 if
\* that is the idle task (qks_netfilter.c 155-156, qks_daemon.c 503-508).
Owners(pid) == IF pid = 0 THEN {0} ELSE owned[pid]
SlotIsOfPid == \A i \in Slots : bufs[i].active =>
  /\ bufs[i].lives \subseteq Owners(bufs[i].pid) \cup {FromTimer}
  /\ FromTimer \in bufs[i].lives => bufs[i].count["net_packet_out_count"] > 0

\* An event leaves its pid with a slot that counts it, unless every slot is
\* another pid's: slots are never freed, so later pids are then never scored
\* (ml_buffer.c 24-34).
ScoredUnlessFull == [][
  inbox # <<>> /\ inbox' = Tail(inbox) =>
    LET pid == EvPid(Head(inbox)) IN
    \/ \E i \in Slots : bufs'[i].active /\ bufs'[i].pid = pid /\ Head(inbox).ts \in bufs'[i].span
    \/ \A i \in Slots : bufs[i].active /\ bufs[i].pid # pid
  ]_vars

\* The server finds every feature in the object that the daemon prints, under
\* its own name and with the value of the slot: a name it misses would count
\* as 0.0 without a word (ml_client.c 23-47, ml_server.py 27-28).
ServerReadsCounts == \A i \in Slots : bufs[i].active =>
  ServerReads(PrintUnformatted(Payload(bufs[i]))) = Meaning(bufs[i])

-----------------------------------------------------------------------------
(* An inductive invariant: the properties, and what they rest on.           *)

\* Tasks: who is gone is nothing; a task between two calls has no probe to pass
\* and no event to send; a process keeps its life to itself.
TasksInv ==
  /\ DOMAIN task = Pids
  /\ \A p \in Pids :
       /\ {task[p].live, task[p].busy, task[p].killed} \subseteq BOOLEAN
       /\ task[p].left \in Seq(ProbeNames)
       /\ ~task[p].busy => task[p].left = <<>> /\ task[p].out = <<>>
  /\ \A p, q \in Live : task[p].life = task[q].life => task[p].tgid = task[q].tgid
  /\ owned \in [Pids -> SUBSET (1..lives)]

\* Events that were stamped and not sent, and those on their way.
Stamped  == {p \in Pids : task[p].out # <<>>}
OnCpu    == {c \in Cpus : softirq[c] # <<>>}
InFlight == Range(inbox) \cup {Head(task[p].out) : p \in Stamped}
                        \cup {Head(softirq[c]) : c \in OnCpu}

\* Each was stamped in the past and counts for a pid that a process of its life
\* had, a packet that came in for none, a SYN sent again for any; and as long as a process lives, its
\* leader has the pid that the leader's events name.
EventOK(ev) ==
  LET pid == EvPid(ev) IN
  /\ ev.ts \in 0..now
  /\ ev.type \in {"EXEC", "SYSCALL", "PACKET", "DNS", "PACKET_IN"}
  /\ Counted(ev) \subseteq Counters
  /\ ev.type = "PACKET" => "net_packet_out_count" \in Counted(ev)
  /\ IF ev.life = FromTimer THEN ev.type = "PACKET" /\ pid \in Pids \cup {0}
     ELSE IF ev.type = "PACKET_IN" THEN pid = 0 /\ ev.life = 0
     ELSE pid \in Pids /\ ev.life \in owned[pid]
  /\ ev.type \in {"EXEC", "SYSCALL"} /\ ev.leader =>
       \A p \in Live : task[p].life = ev.life => task[p].tgid = ev.pid

\* No event is in two places: they are no more than were stamped.
EventsInv ==
  /\ \A ev \in InFlight : EventOK(ev)
  /\ inbox \in Seq(Range(inbox)) /\ DOMAIN softirq = Cpus
  /\ IsFiniteSet(Stamped) /\ IsFiniteSet(OnCpu)
  /\ Len(inbox) + Cardinality(Stamped) + Cardinality(OnCpu) <= events

\* A window begins in the past; a slot that is taken is that of a pid.
SlotsInv ==
  /\ DOMAIN bufs = Slots
  /\ \A i \in Slots : bufs[i].window_start \in 0..now
  /\ \A i \in Slots : bufs[i].active => bufs[i].pid \in Pids \cup {0}

PathInv == /\ TypeOK /\ DenyStops /\ WindowSpan /\ SlotIsOfPid
           /\ TasksInv /\ EventsInv /\ SlotsInv

=============================================================================
