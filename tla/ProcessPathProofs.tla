------------------------- MODULE ProcessPathProofs -------------------------
(***************************************************************************)
(* Proofs that the processes whose calls are judged are stopped, counted   *)
(* and killed as ProcessPath says: for any pids, calls, policy and scores, *)
(* any number of events and of processes, and a table of any size; and     *)
(* that the ML server reads what the table counts.                         *)
(***************************************************************************)
EXTENDS ProcessPath, CJsonProofs, FiniteSetTheorems, SequenceTheorems, TLAPS

-----------------------------------------------------------------------------
(* Sequences of any elements.                                               *)

\* What Append does to a sequence and its elements.
LEMMA AppendsTo ==
  ASSUME NEW s, NEW e, s \in Seq(Range(s))
  PROVE  /\ Append(s, e) \in Seq(Range(Append(s, e)))
         /\ Range(Append(s, e)) = Range(s) \cup {e}
         /\ Len(Append(s, e)) = Len(s) + 1
         /\ Append(s, e) # Tail(s)
<1> DEFINE S == Range(s) \cup {e}
           t == Append(s, e)
<1>1. s \in Seq(S) /\ e \in S
  BY DEF Range
<1> HIDE DEF S
<1>2. /\ t \in Seq(S) /\ Len(t) = Len(s) + 1 /\ Len(s) \in Nat
      /\ \A i \in 1..Len(s) : t[i] = s[i]
      /\ t[Len(s) + 1] = e
      /\ DOMAIN s = 1..Len(s) /\ DOMAIN t = 1..(Len(s) + 1)
  BY <1>1, AppendProperties
<1> HIDE DEF t
<1>3. Range(t) = S
  <2>1. ASSUME NEW x \in Range(t) PROVE x \in S
    BY <1>2, <2>1, ElementOfSeq DEF Range
  <2>2. ASSUME NEW x \in Range(s) PROVE x \in Range(t)
    BY <1>2, <2>2 DEF Range
  <2>3. e \in Range(t)
    BY <1>2 DEF Range
  <2>4. QED BY <2>1, <2>2, <2>3 DEF S
<1>4. t # Tail(s)
  <2>1. CASE s = <<>>
    <3>1. Tail(s) = <<>>
      BY <2>1
    <3>2. t # <<>>
      BY <1>2, <2>1
    <3>3. QED BY <3>1, <3>2
  <2>2. CASE s # <<>>
    <3>1. Len(Tail(s)) = Len(s) - 1
      BY <1>1, <2>2, HeadTailProperties
    <3>2. Len(t) # Len(Tail(s))
      BY <3>1, <1>2
    <3>3. QED BY <3>2, Zenon
  <2>3. QED BY <2>1, <2>2
<1>5. QED BY <1>2, <1>3, <1>4 DEF S, t

\* What Tail does to them.
LEMMA TailsOf ==
  ASSUME NEW s, s \in Seq(Range(s)), s # <<>>
  PROVE  /\ Tail(s) \in Seq(Range(Tail(s)))
         /\ Range(Tail(s)) \subseteq Range(s)
         /\ Head(s) \in Range(s)
         /\ Len(Tail(s)) = Len(s) - 1 /\ Len(s) \in Nat \ {0}
         /\ Tail(s) # s
<1> DEFINE t == Tail(s)
<1>1. /\ Head(s) \in Range(s) /\ t \in Seq(Range(s)) /\ Len(t) = Len(s) - 1
      /\ Len(s) \in Nat \ {0}
  BY HeadTailProperties, EmptySeq
<1> HIDE DEF t
<1>2. DOMAIN t = 1..Len(t) /\ Len(t) \in Nat
  BY <1>1
<1>3. \A i \in DOMAIN t : t[i] \in Range(t)
  BY DEF Range
<1>4. t \in Seq(Range(t))
  BY <1>1, <1>2, <1>3
<1>5. Range(t) \subseteq Range(s)
  <2>1. \A i \in DOMAIN t : t[i] \in Range(s)
    BY <1>1, <1>2
  <2>2. QED BY <2>1 DEF Range
<1>6. t # s
  BY <1>1
<1>7. QED BY <1>1, <1>4, <1>5, <1>6 DEF t

-----------------------------------------------------------------------------
(* Events.                                                                  *)

Subtypes_ == {"MEMFD_CREATE", "MPROTECT_X", "MMAP_X", "PRIV_CHANGE", "CLONE_FAMILY",
              "UNSHARE", "SETNS", "SOCKET_CREATE"}

\* Every kind of event has counters of its own.
LEMMA CountersKnown ==
  ASSUME NEW ev, ev.type \in {"EXEC", "SYSCALL", "PACKET", "DNS", "PACKET_IN"},
         ev.type = "SYSCALL" => ev.subtype \in Subtypes_
  PROVE  Counted(ev) \subseteq Counters
  BY DEF Counted, Counters, ScCounters, NetCounters, Subtypes_

\* Who caused an event is added to what a probe fills in.
LEMMA CausedKeeps ==
  ASSUME NEW ev, NEW life, NEW leader
  PROVE  LET e == Caused(ev, life, leader) IN
         /\ e.life = life /\ e.leader = leader
         /\ \A f \in DOMAIN ev \ {"life", "leader"} : e[f] = ev[f]
  BY DEF Caused

\* Whatever a probe reports is stamped with the time and counts for the task
\* that makes the call.
LEMMA ProbeReports ==
  ASSUME NEW probe \in ProbeNames, NEW cur, NEW ts, NEW call,
         NEW ev \in Report(probe, cur, ts, call), NEW life, NEW leader
  PROVE  LET e == Caused(ev, life, leader) IN
         /\ e.life = life /\ e.leader = leader /\ e.ts = ts
         /\ e.type \in {"EXEC", "SYSCALL", "PACKET", "DNS"}
         /\ EvPid(e) = cur.pid
         /\ e.type \in {"EXEC", "SYSCALL"} => e.pid = cur.pid
         /\ e.type = "PACKET" => "net_packet_out_count" \in Counted(e)
         /\ Counted(e) \subseteq Counters
<1> DEFINE e == Caused(ev, life, leader)
<1>1. CASE probe \in {"exec", "bprm"}
  <2>1. \E path : ev = ExecEvent(cur, ts, path)
    BY <1>1 DEF Report, handler_pre_exec, handler_pre_bprm
  <2>2. {"type", "pid", "ts"} \subseteq DOMAIN ev \ {"life", "leader"}
        /\ ev.type = "EXEC" /\ ev.pid = cur.pid /\ ev.ts = ts
    BY <2>1 DEF ExecEvent
  <2>3. QED BY <2>2, CausedKeeps, CountersKnown DEF EvPid
<1>2. CASE probe \in {"connect", "sendto"}
  <2>1. /\ {"type", "pid", "ts", "pkt_pid"} \subseteq DOMAIN ev \ {"life", "leader"}
        /\ ev.type \in {"PACKET", "DNS"} /\ ev.pkt_pid = cur.pid /\ ev.ts = ts
    BY <1>2 DEF Report, qks_nf_hook, qks_dns_hook, PacketEvent
  <2>2. e.type = "PACKET" => "net_packet_out_count" \in Counted(e)
    BY DEF Counted
  <2> HIDE DEF e
  <2>3. e = Caused(ev, life, leader)
    BY DEF e
  <2>4. /\ e.life = life /\ e.leader = leader
        /\ \A f \in DOMAIN ev \ {"life", "leader"} : e[f] = ev[f]
    BY <2>3, CausedKeeps
  <2>5. e.type \in {"PACKET", "DNS"} /\ e.ts = ts /\ EvPid(e) = cur.pid
    BY <2>1, <2>4 DEF EvPid
  <2>6. Counted(e) \subseteq Counters
    BY <2>5, CountersKnown
  <2>7. QED BY <2>2, <2>4, <2>5, <2>6 DEF e
<1>3. CASE probe \in ProbeNames \ {"exec", "bprm", "connect", "sendto"}
  <2> USE DEF Subtypes_
  <2> DEFINE Filled(v, sub) ==
        /\ {"type", "pid", "ts", "subtype"} \subseteq DOMAIN v \ {"life", "leader"}
        /\ v.type = "SYSCALL" /\ v.subtype = sub /\ v.pid = cur.pid /\ v.ts = ts
  <2>1. ASSUME probe = "memfd_create" PROVE \E sub \in Subtypes_ : Filled(ev, sub)
    <3>1. Filled(ev, "MEMFD_CREATE")
      BY <2>1 DEF Report, handler_pre_memfd, Common
    <3>2. QED BY <3>1
  <2>2. ASSUME probe \in {"mprotect", "mmap"} PROVE \E sub \in Subtypes_ : Filled(ev, sub)
    <3>1. Filled(ev, "MPROTECT_X") \/ Filled(ev, "MMAP_X")
      BY <2>2 DEF Report, handler_pre_mprotect, handler_pre_mmap, Common
    <3>2. QED BY <3>1
  <2>3. ASSUME probe = "priv" PROVE \E sub \in Subtypes_ : Filled(ev, sub)
    <3>1. ev = Common(cur, ts, "PRIV_CHANGE")
      BY <2>3 DEF Report, handler_pre_priv
    <3>2. Filled(ev, "PRIV_CHANGE")
      BY <3>1 DEF Common
    <3>3. QED BY <3>2
  <2>4. ASSUME probe \in {"kernel_clone", "clone3"} PROVE \E sub \in Subtypes_ : Filled(ev, sub)
    <3>1. Filled(ev, "CLONE_FAMILY")
      BY <2>4 DEF Report, handler_pre_kernel_clone, handler_pre_clone3, Common
    <3>2. QED BY <3>1
  <2>5. ASSUME probe \in {"unshare", "setns"} PROVE \E sub \in Subtypes_ : Filled(ev, sub)
    <3>1. Filled(ev, "UNSHARE") \/ Filled(ev, "SETNS")
      BY <2>5 DEF Report, handler_pre_unshare, handler_pre_setns, Common
    <3>2. QED BY <3>1
  <2>6. ASSUME probe = "socket" PROVE \E sub \in Subtypes_ : Filled(ev, sub)
    <3>1. Filled(ev, "SOCKET_CREATE")
      BY <2>6 DEF Report, handler_pre_socket, Common
    <3>2. QED BY <3>1
  <2>7. \E sub \in Subtypes_ : Filled(ev, sub)
    BY <1>3, <2>1, <2>2, <2>3, <2>4, <2>5, <2>6 DEF ProbeNames
  <2>8. QED BY <2>7, CausedKeeps, CountersKnown DEF EvPid
<1>4. QED BY <1>1, <1>2, <1>3

\* The event of a SYN that a timer sends again.
Resent(e, cur, ts, call) ==
  \E ev \in qks_nf_hook(cur, ts, call) : e = Caused(ev, FromTimer, FALSE)

\* A SYN that is sent again counts for whoever runs (qks_nf_hook).
LEMMA SentAgainReports ==
  ASSUME NEW cur, NEW ts, NEW call, NEW e, Resent(e, cur, ts, call)
  PROVE  /\ e.life = FromTimer /\ e.ts = ts /\ e.type = "PACKET"
         /\ EvPid(e) = cur.pid
         /\ "net_packet_out_count" \in Counted(e) /\ Counted(e) \subseteq Counters
<1>0. PICK ev \in qks_nf_hook(cur, ts, call) : e = Caused(ev, FromTimer, FALSE)
  BY DEF Resent
<1>1. /\ {"type", "ts", "pkt_pid"} \subseteq DOMAIN ev \ {"life", "leader"}
      /\ ev.type = "PACKET" /\ ev.pkt_pid = cur.pid /\ ev.ts = ts
  BY DEF qks_nf_hook, PacketEvent
<1>2. e.life = FromTimer /\ e.type = "PACKET" /\ e.pkt_pid = cur.pid /\ e.ts = ts
  BY <1>0, <1>1 DEF Caused
<1>3. EvPid(e) = cur.pid
  BY <1>2 DEF EvPid
<1>4. "net_packet_out_count" \in Counted(e)
  BY <1>2 DEF Counted
<1>5. Counted(e) \subseteq Counters
  BY <1>2 DEF Counted, Counters, NetCounters
<1>6. QED BY <1>2, <1>3, <1>4, <1>5

\* A packet that comes in counts for nobody.
LEMMA HookReports ==
  ASSUME NEW ts, NEW call, NEW e, e = CameIn(ts, call)
  PROVE  /\ e.life = 0 /\ e.ts = ts /\ e.type = "PACKET_IN"
         /\ EvPid(e) = 0 /\ Counted(e) \subseteq Counters
<1> DEFINE ev == qks_nf_hook_in(ts, call)
<1>1. /\ {"type", "pid", "ts"} \subseteq DOMAIN ev \ {"life", "leader"}
      /\ ev.type = "PACKET_IN" /\ ev.pid = 0 /\ ev.ts = ts
  BY DEF qks_nf_hook_in, PacketEvent
<1>2. e = Caused(ev, 0, FALSE)
  BY DEF CameIn
<1> HIDE DEF ev
<1>3. e.life = 0 /\ e.type = "PACKET_IN" /\ e.pid = 0 /\ e.ts = ts
  BY <1>1, <1>2 DEF Caused
<1>4. EvPid(e) = 0
  BY <1>3 DEF EvPid
<1>5. Counted(e) \subseteq Counters
  BY <1>3, CountersKnown
<1>6. QED BY <1>3, <1>4, <1>5

\* A call that is probed passes probes that exist, at least one.
LEMMA ProbesExist ==
  ASSUME NEW call, call.nr \in Probed
  PROVE  ProbesOf(call) \in Seq(ProbeNames) /\ ProbesOf(call) # <<>>
<1>1. CASE call.nr \in {"execve", "execveat"}
  <2>1. ProbesOf(call) = <<"exec", "bprm">>
    BY <1>1 DEF ProbesOf
  <2>2. QED BY <2>1 DEF ProbeNames
<1>2. CASE call.nr = "clone3"
  <2>1. ProbesOf(call) = <<"clone3", "kernel_clone">>
    BY <1>2 DEF ProbesOf
  <2>2. QED BY <2>1 DEF ProbeNames
<1>3. CASE call.nr \in {"clone", "fork", "vfork", "setuid", "setgid", "setresuid",
                       "setresgid", "capset"}
  <2>1. ProbesOf(call) = <<"kernel_clone">> \/ ProbesOf(call) = <<"priv">>
    BY <1>3 DEF ProbesOf
  <2>2. /\ <<"kernel_clone">> \in Seq(ProbeNames) /\ <<"priv">> \in Seq(ProbeNames)
        /\ <<"kernel_clone">> # <<>> /\ <<"priv">> # <<>>
    BY DEF ProbeNames
  <2>3. QED BY <2>1, <2>2
<1>4. CASE call.nr \in ProbeNames \ {"clone3"}
  <2>1. ProbesOf(call) = <<call.nr>>
    BY <1>4 DEF ProbesOf, ProbeNames
  <2>2. QED BY <2>1, <1>4
<1>5. QED BY <1>1, <1>2, <1>3, <1>4 DEF Probed, ProbeNames

-----------------------------------------------------------------------------
(* Tasks.                                                                   *)

\* A task is what it was, or is at another point of its call.
Alike(p) ==
  \/ task'[p] = task[p]
  \/ /\ task[p].live /\ task'[p].live /\ DOMAIN task'[p] = DOMAIN Gone
     /\ task'[p].tgid = task[p].tgid /\ task'[p].life = task[p].life
     /\ {task'[p].live, task'[p].busy, task'[p].killed} \subseteq BOOLEAN
     /\ task[p].killed => task'[p].killed
     /\ task'[p].left \in Seq(ProbeNames)
     /\ ~task'[p].busy => task'[p].left = <<>> /\ task'[p].out = <<>>

\* Who lives continues a process that lived, under its pid, or is a new one.
Lineage ==
  \A p \in Live' :
    \/ \E q \in Live : task[q].life = task'[p].life /\ task[q].tgid = task'[p].tgid
    \/ task'[p].life = lives + 1

\* Nobody is killed who was not.
NobodyKilled == \A p \in Pids : task'[p].killed => task[p].killed

\* If all tasks are alike the same live, in the same groups, and the killed
\* stay killed.
LEMMA TasksAlike ==
  ASSUME TasksTypeOK, TasksInv, DOMAIN task' = Pids, \A p \in Pids : Alike(p),
         UNCHANGED <<lives, owned>>
  PROVE  /\ TasksTypeOK' /\ TasksInv' /\ Lineage
         /\ Live' = Live
         /\ \A p \in Pids : task'[p].life = task[p].life /\ task'[p].tgid = task[p].tgid
         /\ \A p \in Pids : task[p].killed => task'[p].killed
<1>1. \A p \in Pids : /\ task'[p].live <=> task[p].live
                      /\ task'[p].life = task[p].life /\ task'[p].tgid = task[p].tgid
  BY DEF Alike
<1>2. Live' = Live
  BY <1>1 DEF Live
<1>3. \A p \in Pids : task[p].killed => task'[p].killed
  BY DEF Alike
<1>4. ASSUME NEW p \in Pids
      PROVE  /\ DOMAIN task'[p] = DOMAIN Gone
             /\ task'[p].live => /\ task'[p].tgid \in Live' /\ task'[p].life \in owned'[p]
                                 /\ task'[task'[p].tgid].tgid = task'[p].tgid
                                 /\ task'[task'[p].tgid].life = task'[p].life
             /\ ~task'[p].live => task'[p] = Gone
  <2>1. DOMAIN task'[p] = DOMAIN Gone /\ (~task'[p].live => task'[p] = Gone)
    BY DEF Alike, TasksTypeOK
  <2>2. ASSUME task'[p].live PROVE /\ task[p].tgid \in Live /\ task[p].life \in owned[p]
                                  /\ task[task[p].tgid].tgid = task[p].tgid
                                  /\ task[task[p].tgid].life = task[p].life
    BY <2>2, <1>1 DEF TasksTypeOK
  <2>3. task[p].tgid \in Live => task[p].tgid \in Pids
    BY DEF Live
  <2>4. QED BY <2>1, <2>2, <2>3, <1>1, <1>2
<1>5. TasksTypeOK'
  BY <1>4 DEF TasksTypeOK
<1>6. TasksInv'
  <2>1. ASSUME NEW p \in Pids
        PROVE  /\ {task'[p].live, task'[p].busy, task'[p].killed} \subseteq BOOLEAN
               /\ task'[p].left \in Seq(ProbeNames)
               /\ ~task'[p].busy => task'[p].left = <<>> /\ task'[p].out = <<>>
    BY DEF Alike, TasksInv
  <2>2. \A p, q \in Live' : task'[p].life = task'[q].life => task'[p].tgid = task'[q].tgid
    BY <1>1, <1>2 DEF TasksInv, Live
  <2>3. QED BY <2>1, <2>2 DEF TasksInv
<1>7. Lineage
  BY <1>1, <1>2 DEF Lineage, Live
<1>8. QED BY <1>1, <1>2, <1>3, <1>5, <1>6, <1>7

\* Nobody is denied anew: who was to stop is still stopped.
LEMMA DenyStopsAlike ==
  ASSUME TasksTypeOK, TasksInv, DOMAIN task' = Pids, \A p \in Pids : Alike(p),
         UNCHANGED <<lives, owned, denied>>, DenyStops
  PROVE  DenyStops'
  BY TasksAlike DEF DenyStops, Live

-----------------------------------------------------------------------------
(* Events in flight.                                                        *)

\* Time goes on, pids are given to processes, processes go on as they are or are
\* new: what was said of an event is still true of it.
LEMMA EventKept ==
  ASSUME NEW ev, EventOK(ev), Lineage, TasksInv,
         lives \in Nat, now \in Nat, now' \in Nat, now <= now',
         \A p \in Pids : owned[p] \subseteq owned'[p]
  PROVE  EventOK(ev)'
<1>1. ev.ts \in 0..now'
  BY DEF EventOK
<1>2. IF ev.life = FromTimer THEN ev.type = "PACKET" /\ EvPid(ev) \in Pids \cup {0}
      ELSE IF ev.type = "PACKET_IN" THEN EvPid(ev) = 0 /\ ev.life = 0
      ELSE EvPid(ev) \in Pids /\ ev.life \in owned'[EvPid(ev)]
  BY DEF EventOK
<1>3. ASSUME ev.type \in {"EXEC", "SYSCALL"}, ev.leader,
             NEW p \in Live', task'[p].life = ev.life
      PROVE  task'[p].tgid = ev.pid
  <2>1. ev.life \in 1..lives
    BY <1>3 DEF EventOK, TasksInv
  <2>2. ev.life # lives + 1
    BY <2>1
  <2>3. PICK q \in Live : task[q].life = task'[p].life /\ task[q].tgid = task'[p].tgid
    BY <1>3, <2>2 DEF Lineage
  <2>4. QED BY <1>3, <2>3 DEF EventOK
<1>4. QED BY <1>1, <1>2, <1>3 DEF EventOK

\* The same, of every event.
EventsStay == \A ev : EventOK(ev) => EventOK(ev)'

\* Nothing is stamped or sent.
LEMMA FlightStays ==
  ASSUME EventsInv, EventsStay, \A p \in Pids : task'[p].out = task[p].out,
         UNCHANGED <<softirq, inbox, events>>
  PROVE  EventsInv'
<1>1. Stamped' = Stamped /\ OnCpu' = OnCpu /\ InFlight' = InFlight
  BY DEF Stamped, OnCpu, InFlight
<1>2. QED BY <1>1 DEF EventsInv, EventsStay

\* A probe stamps an event.
LEMMA Stamping ==
  ASSUME EventsInv, EventsStay, NEW p \in Pids, NEW e, EventOK(e)',
         task[p].out = <<>>, task'[p].out = <<e>>,
         \A q \in Pids \ {p} : task'[q].out = task[q].out,
         UNCHANGED <<softirq, inbox>>, events' = events + 1, events \in Nat
  PROVE  EventsInv'
<1>1. Stamped' = Stamped \cup {p} /\ p \notin Stamped /\ OnCpu' = OnCpu
  BY DEF Stamped, OnCpu
<1>2. \A ev \in InFlight' : ev \in InFlight \/ ev = e
  BY <1>1 DEF InFlight, Stamped
<1>3. \A ev \in InFlight' : EventOK(ev)'
  BY <1>2 DEF EventsInv, EventsStay
<1>4. IsFiniteSet(Stamped') /\ Cardinality(Stamped') = Cardinality(Stamped) + 1
      /\ Cardinality(Stamped) \in Nat /\ Cardinality(OnCpu) \in Nat
  BY <1>1, FS_AddElement, FS_CardinalityType DEF EventsInv
<1>5. Len(inbox) \in Nat
  BY DEF EventsInv
<1>6. Len(inbox') + Cardinality(Stamped') + Cardinality(OnCpu') <= events'
  BY <1>1, <1>4, <1>5 DEF EventsInv
<1>7. QED BY <1>1, <1>3, <1>4, <1>6 DEF EventsInv

\* An event is sent, to a listener or to none.
LEMMA Sending ==
  ASSUME EventsInv, EventsStay, NEW p \in Pids,
         task[p].out # <<>>, task'[p].out = <<>>,
         \A q \in Pids \ {p} : task'[q].out = task[q].out,
         UNCHANGED <<softirq, events>>, events \in Nat, Multicast(Head(task[p].out))
  PROVE  EventsInv'
<1> DEFINE e == Head(task[p].out)
<1>1. Stamped' = Stamped \ {p} /\ p \in Stamped /\ OnCpu' = OnCpu
  BY DEF Stamped, OnCpu
<1>2. e \in InFlight
  BY <1>1 DEF InFlight
<1> HIDE DEF e
<1>3. /\ inbox' \in Seq(Range(inbox')) /\ Range(inbox') \subseteq Range(inbox) \cup {e}
      /\ Len(inbox') <= Len(inbox) + 1 /\ Len(inbox) \in Nat /\ Len(inbox') \in Nat
  <2>1. CASE inbox' = Append(inbox, e)
    BY <2>1, AppendsTo DEF EventsInv
  <2>2. CASE inbox' = inbox
    BY <2>2 DEF EventsInv
  <2>3. QED BY <2>1, <2>2 DEF Multicast, e
<1>4. \A q \in Stamped' : q \in Stamped /\ task'[q].out = task[q].out
  BY <1>1 DEF Stamped
<1>5. \A ev \in InFlight' : ev \in InFlight
  BY <1>1, <1>2, <1>3, <1>4 DEF InFlight
<1>6. \A ev \in InFlight' : EventOK(ev)'
  BY <1>5 DEF EventsInv, EventsStay
<1>7. IsFiniteSet(Stamped') /\ Cardinality(Stamped') = Cardinality(Stamped) - 1
      /\ Cardinality(Stamped) \in Nat /\ Cardinality(OnCpu) \in Nat
  BY <1>1, FS_RemoveElement, FS_CardinalityType DEF EventsInv
<1>8. Len(inbox') + Cardinality(Stamped') + Cardinality(OnCpu') <= events'
  BY <1>1, <1>3, <1>7 DEF EventsInv
<1>9. QED BY <1>1, <1>3, <1>6, <1>7, <1>8 DEF EventsInv

\* A packet comes in and is stamped.
LEMMA ComingIn ==
  ASSUME EventsInv, EventsStay, NEW c \in Cpus, NEW e, EventOK(e)',
         softirq[c] = <<>>, softirq' = [softirq EXCEPT ![c] = <<e>>],
         UNCHANGED <<task, inbox>>, events' = events + 1, events \in Nat
  PROVE  EventsInv'
<1>1. /\ Stamped' = Stamped /\ OnCpu' = OnCpu \cup {c} /\ c \notin OnCpu
      /\ DOMAIN softirq' = Cpus
  BY DEF Stamped, OnCpu, EventsInv
<1>2. softirq'[c] = <<e>> /\ \A d \in OnCpu : softirq'[d] = softirq[d]
  BY DEF OnCpu, EventsInv
<1>3. \A ev \in InFlight' : ev \in InFlight \/ ev = e
  BY <1>1, <1>2 DEF InFlight
<1>4. \A ev \in InFlight' : EventOK(ev)'
  BY <1>3 DEF EventsInv, EventsStay
<1>5. IsFiniteSet(OnCpu') /\ Cardinality(OnCpu') = Cardinality(OnCpu) + 1
      /\ Cardinality(Stamped) \in Nat /\ Cardinality(OnCpu) \in Nat
  BY <1>1, FS_AddElement, FS_CardinalityType DEF EventsInv
<1>6. Len(inbox) \in Nat
  BY DEF EventsInv
<1>7. Len(inbox') + Cardinality(Stamped') + Cardinality(OnCpu') <= events'
  BY <1>1, <1>5, <1>6 DEF EventsInv
<1>8. QED BY <1>1, <1>4, <1>5, <1>7 DEF EventsInv

\* It is sent.
LEMMA SendingIn ==
  ASSUME EventsInv, EventsStay, NEW c \in Cpus,
         softirq[c] # <<>>, softirq' = [softirq EXCEPT ![c] = <<>>],
         UNCHANGED <<task, events>>, events \in Nat, Multicast(Head(softirq[c]))
  PROVE  EventsInv'
<1> DEFINE e == Head(softirq[c])
<1>1. /\ Stamped' = Stamped /\ OnCpu' = OnCpu \ {c} /\ c \in OnCpu
      /\ DOMAIN softirq' = Cpus
  BY DEF Stamped, OnCpu, EventsInv
<1>2. e \in InFlight
  BY <1>1 DEF InFlight
<1> HIDE DEF e
<1>3. /\ inbox' \in Seq(Range(inbox')) /\ Range(inbox') \subseteq Range(inbox) \cup {e}
      /\ Len(inbox') <= Len(inbox) + 1 /\ Len(inbox) \in Nat /\ Len(inbox') \in Nat
  <2>1. CASE inbox' = Append(inbox, e)
    BY <2>1, AppendsTo DEF EventsInv
  <2>2. CASE inbox' = inbox
    BY <2>2 DEF EventsInv
  <2>3. QED BY <2>1, <2>2 DEF Multicast, e
<1>4. \A d \in OnCpu' : d \in OnCpu /\ softirq'[d] = softirq[d]
  BY <1>1 DEF OnCpu, EventsInv
<1>5. \A ev \in InFlight' : ev \in InFlight
  BY <1>1, <1>2, <1>3, <1>4 DEF InFlight
<1>6. \A ev \in InFlight' : EventOK(ev)'
  BY <1>5 DEF EventsInv, EventsStay
<1>7. IsFiniteSet(OnCpu') /\ Cardinality(OnCpu') = Cardinality(OnCpu) - 1
      /\ Cardinality(Stamped) \in Nat /\ Cardinality(OnCpu) \in Nat
  BY <1>1, FS_RemoveElement, FS_CardinalityType DEF EventsInv
<1>8. Len(inbox') + Cardinality(Stamped') + Cardinality(OnCpu') <= events'
  BY <1>1, <1>3, <1>7 DEF EventsInv
<1>9. QED BY <1>1, <1>3, <1>6, <1>7, <1>8 DEF EventsInv

\* The worker takes an event.
LEMMA Taking ==
  ASSUME EventsInv, EventsStay, \A p \in Pids : task'[p].out = task[p].out,
         inbox # <<>>, inbox' = Tail(inbox), UNCHANGED <<softirq, events>>, events \in Nat
  PROVE  EventsInv' /\ EventOK(Head(inbox)) /\ inbox' # inbox
<1>1. Stamped' = Stamped /\ OnCpu' = OnCpu
  BY DEF Stamped, OnCpu
<1>2. /\ inbox' \in Seq(Range(inbox')) /\ Range(inbox') \subseteq Range(inbox)
      /\ Head(inbox) \in Range(inbox) /\ inbox' # inbox
      /\ Len(inbox') = Len(inbox) - 1 /\ Len(inbox) \in Nat
  BY TailsOf DEF EventsInv
<1>3. Head(inbox) \in InFlight /\ \A ev \in InFlight' : ev \in InFlight
  BY <1>1, <1>2 DEF InFlight, Stamped
<1>4. EventOK(Head(inbox)) /\ \A ev \in InFlight' : EventOK(ev)'
  BY <1>3 DEF EventsInv, EventsStay
<1>5. Cardinality(Stamped) \in Nat /\ Cardinality(OnCpu) \in Nat
  BY FS_CardinalityType DEF EventsInv
<1>6. Len(inbox') + Cardinality(Stamped') + Cardinality(OnCpu') <= events'
  <2> DEFINE n == Len(inbox)
             m == Len(inbox')
             k == Cardinality(Stamped)
             l == Cardinality(OnCpu)
  <2>1. n + k + l <= events
    BY DEF EventsInv
  <2>2. m = n - 1 /\ n \in Nat /\ k \in Nat /\ l \in Nat
    BY <1>2, <1>5
  <2> HIDE DEF n, m, k, l
  <2>3. m + k + l <= events
    BY <2>1, <2>2
  <2>4. QED BY <2>3, <1>1 DEF n, m, k, l
<1>7. QED BY <1>1, <1>2, <1>4, <1>6 DEF EventsInv

-----------------------------------------------------------------------------
(* The table of windows.                                                    *)

\* If some slot is in a set, one is the first.
LEMMA FirstExists ==
  ASSUME NEW S, S \subseteq Slots, S # {}
  PROVE  \E i \in S : \A j \in 1..(i - 1) : j \notin S
<1>1. S \in SUBSET Nat
  BY BufferAssumption DEF Slots
<1>2. PICK n \in S : \A m \in S : n <= m
  BY <1>1, Least
<1>3. n \in Nat
  BY <1>1
<1>4. ASSUME NEW j \in 1..(n - 1) PROVE j \notin S
  BY <1>2, <1>3
<1>5. QED BY <1>4

\* Find gives a slot of the pid if there is one.
LEMMA Finds ==
  ASSUME NEW b, NEW pid
  PROVE  \/ Find(b, pid) = NoSlot /\ \A i \in Slots : ~(b[i].active /\ b[i].pid = pid)
         \/ /\ Find(b, pid) \in Slots /\ b[Find(b, pid)].active
            /\ b[Find(b, pid)].pid = pid
<1> DEFINE S == {i \in Slots : b[i].active /\ b[i].pid = pid}
<1>1. CASE S = {}
  BY <1>1 DEF Find, First
<1>2. CASE S # {}
  <2>1. \E i \in S : \A j \in 1..(i - 1) : j \notin S
    BY <1>2, FirstExists
  <2>2. \A i \in S : \A j \in 1..(i - 1) : j \in Slots
    BY BufferAssumption DEF Slots
  <2>3. \E i \in Slots : /\ b[i].active /\ b[i].pid = pid
                        /\ \A j \in 1..(i - 1) : ~(b[j].active /\ b[j].pid = pid)
    BY <2>1, <2>2
  <2>4. QED BY <2>3 DEF Find, First
<1>3. QED BY <1>1, <1>2

\* FreeIndex gives a free slot if there is one.
LEMMA FindsFree ==
  ASSUME NEW b
  PROVE  \/ FreeIndex(b) = NoSlot /\ \A i \in Slots : b[i].active
         \/ FreeIndex(b) \in Slots /\ ~b[FreeIndex(b)].active
<1> DEFINE S == {i \in Slots : ~b[i].active}
<1>1. CASE S = {}
  BY <1>1 DEF FreeIndex, First
<1>2. CASE S # {}
  <2>1. \E i \in S : \A j \in 1..(i - 1) : j \notin S
    BY <1>2, FirstExists
  <2>2. \A i \in S : \A j \in 1..(i - 1) : j \in Slots
    BY BufferAssumption DEF Slots
  <2>3. \E i \in Slots : ~b[i].active /\ \A j \in 1..(i - 1) : ~~b[j].active
    BY <2>1, <2>2
  <2>4. QED BY <2>3 DEF FreeIndex, First
<1>3. QED BY <1>1, <1>2

\* The unsigned difference is small only inside the window: an event from
\* before the window is almost 2^64 away from it.
LEMMA InWindow ==
  ASSUME NEW n \in Nat, NEW t \in 0..n, NEW w \in 0..n, n + Window < TsModulus,
         (t - w) % TsModulus <= Window
  PROVE  t \in w..(w + Window)
<1> USE BufferAssumption
<1>1. CASE t >= w
  <2>1. t - w \in 0..(TsModulus - 1)
    BY <1>1
  <2>2. (t - w) % TsModulus = t - w
    BY <2>1
  <2>3. QED BY <2>2, <1>1
<1>2. CASE t < w
  <2>1. t - w \in Int /\ t - w < 0 /\ -TsModulus < t - w
    BY <1>2
  <2>2. (t - w) % TsModulus = t - w + TsModulus
    BY <2>1
  <2>3. t - w + TsModulus > Window
    BY <1>2
  <2>4. QED BY <2>2, <2>3
<1>3. QED BY <1>1, <1>2

\* As time goes on and pids are given away the slots stay as they are.
LEMMA SlotsStay ==
  ASSUME SlotsTypeOK, WindowSpan, SlotIsOfPid, SlotsInv, bufs' = bufs,
         now \in Nat, now' \in Nat, now <= now',
         \A p \in Pids : owned[p] \subseteq owned'[p]
  PROVE  SlotsTypeOK' /\ WindowSpan' /\ SlotIsOfPid' /\ SlotsInv'
<1>1. SlotsTypeOK' /\ WindowSpan'
  BY DEF SlotsTypeOK, WindowSpan
<1>2. SlotsInv'
  <2>1. ASSUME NEW i \in Slots PROVE bufs[i].window_start \in 0..now'
    <3>1. bufs[i].window_start \in 0..now
      BY DEF SlotsInv
    <3>2. QED BY <3>1
  <2>2. QED BY <2>1 DEF SlotsInv
<1>3. SlotIsOfPid'
  <2>1. ASSUME NEW i \in Slots, bufs[i].active
        PROVE  /\ bufs[i].lives \subseteq Owners(bufs[i].pid)' \cup {FromTimer}
               /\ FromTimer \in bufs[i].lives => bufs[i].count["net_packet_out_count"] > 0
    <3> USE DEF Owners
    <3>1. CASE bufs[i].pid = 0
      BY <2>1, <3>1 DEF SlotIsOfPid
    <3>2. CASE bufs[i].pid # 0
      <4>1. bufs[i].pid \in Pids
        BY <2>1, <3>2 DEF SlotsInv
      <4>2. QED BY <2>1, <3>2, <4>1 DEF SlotIsOfPid
    <3>3. QED BY <3>1, <3>2
  <2>2. QED BY <2>1 DEF SlotIsOfPid, Owners
<1>4. QED BY <1>1, <1>2, <1>3

\* Who an event may be from that a slot counts for a pid.
MayCount(ev, pid) ==
  \/ ev.life \in Owners(pid)
  \/ ev.life = FromTimer /\ "net_packet_out_count" \in Counted(ev)

\* A slot of a pid, that counts events of one window and of owners of the pid,
\* and of the timer only where it counts packets.
SlotOK(s) ==
  /\ DOMAIN s = DOMAIN FreeSlot /\ s.count \in [Counters -> Nat]
  /\ s.window_start \in 0..now
  /\ s.span \subseteq s.window_start..(s.window_start + Window)
  /\ s.active => /\ s.pid \in Pids \cup {0}
                 /\ s.lives \subseteq Owners(s.pid) \cup {FromTimer}
                 /\ FromTimer \in s.lives => s.count["net_packet_out_count"] > 0

\* ml_buf_get leaves a slot of the pid, whose window the time is in.
LEMMA GetsSlot ==
  ASSUME NEW pid \in Pids \cup {0}, NEW ts \in 0..now, NEW i \in Slots, i = SlotOf(bufs, pid),
         DOMAIN bufs = Slots, \A j \in Slots : SlotOK(bufs[j]),
         now \in Nat, now + Window < TsModulus
  PROVE  LET b == AfterGet(bufs, pid, ts) IN
         /\ DOMAIN b = Slots /\ \A j \in Slots : SlotOK(b[j])
         /\ b[i].active /\ b[i].pid = pid
         /\ ts \in b[i].window_start..(b[i].window_start + Window)
<1> USE BufferAssumption
<1>1. i # NoSlot
  BY DEF Slots, NoSlot
<1>2. CASE bufs[i].active /\ ~Expired(bufs[i], ts)
  <2>1. AfterGet(bufs, pid, ts) = bufs
    BY <1>1, <1>2 DEF AfterGet
  <2>2. bufs[i].pid = pid
    BY <1>1, <1>2, Finds, FindsFree DEF SlotOf
  <2>3. bufs[i].window_start \in 0..now
    BY DEF SlotOK
  <2>4. (ts - bufs[i].window_start) % TsModulus <= Window
    BY <1>2, <2>3 DEF Expired
  <2>5. ts \in bufs[i].window_start..(bufs[i].window_start + Window)
    BY <2>3, <2>4, InWindow
  <2>6. QED BY <1>2, <2>1, <2>2, <2>5
<1>3. CASE ~(bufs[i].active /\ ~Expired(bufs[i], ts))
  <2> DEFINE new == NewSlot(pid, ts)
  <2>1. AfterGet(bufs, pid, ts) = [bufs EXCEPT ![i] = new]
    BY <1>1, <1>3 DEF AfterGet
  <2>2. /\ DOMAIN new = DOMAIN FreeSlot /\ new.active = TRUE /\ new.pid = pid
        /\ new.window_start = ts /\ new.span = {} /\ new.lives = {}
        /\ new.count = [c \in Counters |-> 0]
    BY DEF NewSlot, FreeSlot
  <2> HIDE DEF new
  <2>c. new.count \in [Counters -> Nat]
    BY <2>2
  <2>3. SlotOK(new)
    BY <2>2, <2>c DEF SlotOK
  <2>4. ts \in ts..(ts + Window)
    OBVIOUS
  <2>5. QED BY <2>1, <2>2, <2>3, <2>4
<1>4. QED BY <1>2, <1>3

\* No process has the number that stands for the timer.
LEMMA TimerOwnsNothing ==
  ASSUME lives \in Nat, owned \in [Pids -> SUBSET (1..lives)], NEW pid \in Pids \cup {0}
  PROVE  FromTimer \notin Owners(pid)
<1>1. FromTimer # 0 /\ FromTimer \notin 1..lives
  BY DEF FromTimer
<1>2. CASE pid = 0
  BY <1>1, <1>2 DEF Owners
<1>3. CASE pid # 0
  BY <1>1, <1>3 DEF Owners
<1>4. QED BY <1>2, <1>3

\* ml_buf_update counts the event there.
LEMMA UpdatesSlot ==
  ASSUME lives \in Nat, owned \in [Pids -> SUBSET (1..lives)], NEW s, SlotOK(s), s.active, NEW ev, ev.ts \in s.window_start..(s.window_start + Window),
         MayCount(ev, s.pid)
  PROVE  LET u == Updated(s, ev) IN
         SlotOK(u) /\ u.active /\ u.pid = s.pid /\ ev.ts \in u.span
<1> DEFINE u == Updated(s, ev)
<1>1. {"active", "pid", "window_start", "count", "net_total_packet_len", "span", "lives"} = DOMAIN s
  BY DEF SlotOK, FreeSlot
<1>2. /\ DOMAIN u = DOMAIN s /\ u.active = s.active /\ u.pid = s.pid
      /\ u.window_start = s.window_start
      /\ u.span = s.span \cup {ev.ts} /\ u.lives = s.lives \cup {ev.life}
      /\ u.count = [c \in Counters |-> IF c \in Counted(ev) THEN s.count[c] + 1 ELSE s.count[c]]
  BY <1>1 DEF Updated
<1> HIDE DEF u
<1>3. u.count \in [Counters -> Nat]
  BY <1>2 DEF SlotOK
<1>4. u.lives \subseteq Owners(u.pid) \cup {FromTimer}
  BY <1>2 DEF SlotOK, MayCount
<1>5. FromTimer \in u.lives => u.count["net_packet_out_count"] > 0
  <2> DEFINE c == "net_packet_out_count"
  <2>1. c \in Counters /\ s.count[c] \in Nat
    BY DEF Counters, NetCounters, SlotOK
  <2>2. u.count[c] = IF c \in Counted(ev) THEN s.count[c] + 1 ELSE s.count[c]
    BY <1>2, <2>1
  <2> HIDE DEF c
  <2>3. CASE c \in Counted(ev)
    BY <2>1, <2>2, <2>3 DEF c
  <2>4. CASE c \notin Counted(ev)
    <3>1. FromTimer \in u.lives => FromTimer \in s.lives
      BY <1>2, <2>4, TimerOwnsNothing DEF MayCount, SlotOK, c
    <3>2. QED BY <2>2, <2>4, <3>1 DEF SlotOK, c
  <2>5. QED BY <2>3, <2>4
<1>6. SlotOK(u)
  BY <1>2, <1>3, <1>4, <1>5 DEF SlotOK
<1>7. QED BY <1>2, <1>6 DEF u

\* What the worker does to the table for an event in flight, and that the event
\* is counted then unless every slot is another pid's.
LEMMA Counting ==
  ASSUME SlotsTypeOK, WindowSpan, SlotIsOfPid, SlotsInv,
         now \in Nat, now + Window < TsModulus, UNCHANGED <<now, owned>>,
         lives \in Nat, owned \in [Pids -> SUBSET (1..lives)],
         NEW ev, EventOK(ev),
         bufs' = AfterUpdate(AfterGet(bufs, EvPid(ev), ev.ts), SlotOf(bufs, EvPid(ev)), ev)
  PROVE  /\ SlotsTypeOK' /\ WindowSpan' /\ SlotIsOfPid' /\ SlotsInv'
         /\ \/ \E i \in Slots : bufs'[i].active /\ bufs'[i].pid = EvPid(ev) /\ ev.ts \in bufs'[i].span
            \/ \A i \in Slots : bufs[i].active /\ bufs[i].pid # EvPid(ev)
<1> DEFINE pid == EvPid(ev)
           i == SlotOf(bufs, pid)
           b == AfterGet(bufs, pid, ev.ts)
<1>1. DOMAIN bufs = Slots /\ \A j \in Slots : SlotOK(bufs[j])
  <2>1. DOMAIN bufs = Slots
    BY DEF SlotsInv
  <2>2. ASSUME NEW j \in Slots PROVE SlotOK(bufs[j])
    <3>1. /\ DOMAIN bufs[j] = DOMAIN FreeSlot /\ bufs[j].count \in [Counters -> Nat]
          /\ bufs[j].window_start \in 0..now
      BY DEF SlotsTypeOK, SlotsInv
    <3>2. bufs[j].span \subseteq bufs[j].window_start..(bufs[j].window_start + Window)
      BY DEF WindowSpan
    <3>3. ASSUME bufs[j].active
          PROVE  /\ bufs[j].pid \in Pids \cup {0}
                 /\ bufs[j].lives \subseteq Owners(bufs[j].pid) \cup {FromTimer}
                 /\ FromTimer \in bufs[j].lives => bufs[j].count["net_packet_out_count"] > 0
      BY <3>3 DEF SlotIsOfPid, SlotsInv
    <3>4. QED BY <3>1, <3>2, <3>3 DEF SlotOK
  <2>3. QED BY <2>1, <2>2
<1>2. /\ pid \in Pids \cup {0} /\ ev.ts \in 0..now
      /\ MayCount(ev, pid)
  BY PathAssumption DEF EventOK, MayCount, Owners
<1>3. CASE i = NoSlot
  <2>1. bufs' = bufs
    BY <1>3 DEF AfterUpdate, AfterGet
  <2>2. \A j \in Slots : bufs[j].active /\ bufs[j].pid # pid
    <3>1. NoSlot \notin Slots
      BY DEF NoSlot, Slots
    <3>2. Find(bufs, pid) = NoSlot /\ FreeIndex(bufs) = NoSlot
      BY <1>3, <3>1, Finds DEF SlotOf
    <3>3. QED BY <3>1, <3>2, Finds, FindsFree
  <2>3. SlotsTypeOK' /\ WindowSpan' /\ SlotIsOfPid' /\ SlotsInv'
    BY <2>1 DEF SlotsTypeOK, WindowSpan, SlotIsOfPid, SlotsInv, Owners
  <2>4. QED BY <2>2, <2>3
<1>4. CASE i # NoSlot
  <2>1. i \in Slots
    BY <1>4, Finds, FindsFree DEF SlotOf
  <2> HIDE DEF pid
  <2>2. /\ DOMAIN b = Slots /\ \A j \in Slots : SlotOK(b[j])
        /\ b[i].active /\ b[i].pid = pid
        /\ ev.ts \in b[i].window_start..(b[i].window_start + Window)
    BY <1>1, <1>2, <2>1, GetsSlot
  <2>3. bufs' = [b EXCEPT ![i] = Updated(b[i], ev)]
    BY <1>4 DEF AfterUpdate, pid
  <2> HIDE DEF b, i
  <2>4. LET u == Updated(b[i], ev) IN
        SlotOK(u) /\ u.active /\ u.pid = pid /\ ev.ts \in u.span
    BY <1>2, <2>1, <2>2, UpdatesSlot
  <2>5. DOMAIN bufs' = Slots /\ \A j \in Slots : SlotOK(bufs'[j])
    BY <2>1, <2>2, <2>3, <2>4
  <2>6. SlotsTypeOK' /\ WindowSpan' /\ SlotIsOfPid' /\ SlotsInv'
    BY <2>5 DEF SlotsTypeOK, WindowSpan, SlotIsOfPid, SlotsInv, SlotOK, Owners
  <2>7. bufs'[i].active /\ bufs'[i].pid = pid /\ ev.ts \in bufs'[i].span
    BY <2>1, <2>2, <2>3, <2>4
  <2>8. QED BY <2>1, <2>6, <2>7 DEF pid
<1>5. QED BY <1>3, <1>4


-----------------------------------------------------------------------------
(* Steps.                                                                   *)

\* The numbers are numbers.
LEMMA Numbers ==
  ASSUME TypeOK
  PROVE  /\ now \in Nat /\ events \in Nat /\ lives \in Nat \ {0}
         /\ mix \in Mixes /\ mix.time \in Nat /\ mix.events \in Nat
         /\ now + Window < TsModulus
<1>1. mix \in Mixes /\ mix.time \in Nat /\ mix.events \in Nat /\ mix.time + Window < TsModulus
  BY PathAssumption DEF TypeOK
<1>2. now \in 0..mix.time /\ events \in 0..mix.events /\ lives \in 2..MaxLives
  BY DEF TypeOK
<1>3. QED BY <1>1, <1>2, PathAssumption, BufferAssumption

\* A step that leaves the table and the denied alone and goes on with the tasks
\* as they are, or with new ones.
LEMMA Renews ==
  ASSUME PathInv, TasksTypeOK', TasksInv', Lineage, DenyStops',
         UNCHANGED <<bufs, mix, denied>>,
         now' \in now..mix.time, events' \in 0..mix.events, lives' \in lives..MaxLives,
         \A p \in Pids : owned[p] \subseteq owned'[p],
         EventsStay => EventsInv'
  PROVE  PathInv'
<1>1. /\ TypeOK /\ WindowSpan /\ SlotIsOfPid /\ TasksInv /\ EventsInv /\ SlotsInv
  BY DEF PathInv
<1>2. /\ now \in Nat /\ events \in Nat /\ lives \in Nat \ {0} /\ mix.time \in Nat
      /\ mix.events \in Nat /\ mix \in Mixes
  BY <1>1, Numbers
<1>3. now' \in Nat /\ now <= now' /\ events' \in Nat /\ lives' \in Nat /\ lives <= lives'
  BY <1>2, PathAssumption
<1>4. EventsStay
  BY <1>1, <1>2, <1>3, EventKept DEF EventsStay
<1>5. EventsInv'
  BY <1>4
<1>6. SlotsTypeOK
  BY <1>1 DEF TypeOK
<1>7. SlotsTypeOK' /\ WindowSpan' /\ SlotIsOfPid' /\ SlotsInv'
  BY <1>1, <1>2, <1>3, <1>6, SlotsStay
<1>8. Len(inbox') <= events'
  <2>1. IsFiniteSet(Stamped') /\ IsFiniteSet(OnCpu')
        /\ Len(inbox') + Cardinality(Stamped') + Cardinality(OnCpu') <= events'
        /\ Len(inbox') \in Nat
    BY <1>5 DEF EventsInv
  <2>2. Cardinality(Stamped') \in Nat /\ Cardinality(OnCpu') \in Nat
    BY <2>1, FS_CardinalityType
  <2>3. QED BY <1>3, <2>1, <2>2
<1>9. denied' \subseteq 1..lives'
  BY <1>1, <1>2, <1>3 DEF TypeOK
<1>10. now' \in 0..mix'.time /\ events' \in 0..mix'.events /\ mix' \in Mixes
       /\ lives' \in 2..MaxLives
  <2>1. lives \in 2..MaxLives /\ MaxLives \in Nat
    BY <1>1, PathAssumption DEF TypeOK
  <2>2. QED BY <1>2, <1>3, <2>1
<1>11. TypeOK'
  BY <1>7, <1>8, <1>9, <1>10 DEF TypeOK
<1>12. QED BY <1>5, <1>7, <1>11 DEF PathInv

\* One that goes on with the tasks as they are.
LEMMA GoesOn ==
  ASSUME PathInv, DOMAIN task' = Pids, \A p \in Pids : Alike(p),
         UNCHANGED <<lives, owned, denied, bufs, mix>>,
         now' \in now..mix.time, events' \in 0..mix.events,
         EventsStay => EventsInv'
  PROVE  PathInv'
<1>1. TasksTypeOK /\ TasksInv /\ DenyStops /\ lives \in lives..MaxLives
  BY PathAssumption DEF PathInv, TypeOK
<1>2. TasksTypeOK' /\ TasksInv' /\ Lineage
  BY <1>1, TasksAlike
<1>3. DenyStops'
  BY <1>1, DenyStopsAlike
<1>4. lives' \in lives..MaxLives /\ \A p \in Pids : owned[p] \subseteq owned'[p]
  BY <1>1
<1>5. QED BY <1>2, <1>3, <1>4, Renews


\* A task that is at another point of its call, the others as they were.
LEMMA AtAnotherPoint ==
  ASSUME TasksTypeOK, TasksInv, NEW p \in Live, NEW busy \in BOOLEAN, NEW call,
         NEW left \in Seq(ProbeNames), NEW out,
         ~busy => left = <<>> /\ out = <<>>,
         task' = [task EXCEPT ![p].busy = busy, ![p].call = call, ![p].left = left, ![p].out = out]
  PROVE  /\ DOMAIN task' = Pids /\ \A q \in Pids : Alike(q)
         /\ task'[p].out = out /\ \A q \in Pids \ {p} : task'[q].out = task[q].out
         /\ NobodyKilled
<1>1. p \in Pids /\ task[p].live /\ DOMAIN task = Pids /\ DOMAIN task[p] = DOMAIN Gone
  BY DEF Live, TasksTypeOK, TasksInv
<1>2. {"live", "tgid", "life", "killed", "busy", "call", "left", "out"} \subseteq DOMAIN task[p]
  BY <1>1 DEF Gone
<1>3. /\ DOMAIN task' = Pids /\ \A q \in Pids \ {p} : task'[q] = task[q]
      /\ DOMAIN task'[p] = DOMAIN task[p]
      /\ task'[p].left = left /\ task'[p].out = out
      /\ task'[p].tgid = task[p].tgid /\ task'[p].life = task[p].life
  BY <1>1, <1>2
<1>4. task'[p].live = task[p].live /\ task'[p].busy = busy /\ task'[p].killed = task[p].killed
  BY <1>1, <1>2
<1>5. {task[p].live, task[p].killed} \subseteq BOOLEAN
  BY <1>1 DEF TasksInv
<1>6. Alike(p)
  <2>1. task'[p].live /\ (task[p].killed => task'[p].killed)
        /\ {task'[p].live, task'[p].busy, task'[p].killed} \subseteq BOOLEAN
        /\ (~task'[p].busy => task'[p].left = <<>> /\ task'[p].out = <<>>)
    BY <1>1, <1>3, <1>4, <1>5, Zenon
  <2>2. QED BY <1>1, <1>3, <2>1 DEF Alike
<1>7. ASSUME NEW q \in Pids, q # p PROVE Alike(q)
  BY <1>3, <1>7 DEF Alike
<1>8. ASSUME NEW q \in Pids, task'[q].killed PROVE task[q].killed
  BY <1>3, <1>4, <1>8
<1>9. QED BY <1>3, <1>6, <1>7, <1>8 DEF NobodyKilled

\* An event that is stamped is what EventOK says.
LEMMA StampedOK ==
  ASSUME TasksTypeOK, TasksInv, NEW p \in Live, now \in Nat,
         NEW probe \in ProbeNames, NEW call, NEW ev \in Report(probe, Cur(p), now, call),
         DOMAIN task' = Pids, \A q \in Pids : Alike(q), UNCHANGED <<now, owned, lives>>,
         NEW e, e = Caused(ev, task[p].life, IsLeader(p))
  PROVE  EventOK(e)'
<1>1. p \in Pids /\ task[p].life \in owned[p]
  BY DEF Live, TasksTypeOK
<1>2. Cur(p).pid = p
  BY DEF Cur
<1>3. /\ e.life = task[p].life /\ e.leader = IsLeader(p) /\ e.ts = now
      /\ e.type \in {"EXEC", "SYSCALL", "PACKET", "DNS"}
      /\ EvPid(e) = p
      /\ e.type \in {"EXEC", "SYSCALL"} => e.pid = p
      /\ e.type = "PACKET" => "net_packet_out_count" \in Counted(e)
      /\ Counted(e) \subseteq Counters
  BY <1>2, ProbeReports
<1>4. e.leader => task[p].tgid = p
  BY <1>3 DEF IsLeader
<1>5. ASSUME NEW q \in Live', task'[q].life = e.life, e.leader PROVE task'[q].tgid = p
  <2>1. q \in Live /\ q \in Pids /\ task'[q].life = task[q].life /\ task'[q].tgid = task[q].tgid
    BY TasksAlike DEF Live
  <2>2. QED BY <1>3, <1>4, <1>5, <2>1 DEF TasksInv
<1>6. e.type \in {"EXEC", "SYSCALL"} /\ e.leader =>
        \A q \in Live' : task'[q].life = e.life => task'[q].tgid = e.pid
  BY <1>3, <1>5
<1>7. e.ts \in 0..now' /\ EvPid(e) \in Pids /\ e.life \in owned'[EvPid(e)]
      /\ e.type # "PACKET_IN" /\ e.life # FromTimer
  <2>1. FromTimer \notin owned[p]
    BY <1>1 DEF TasksInv, FromTimer
  <2>2. QED BY <1>1, <1>3, <2>1
<1>8. QED BY <1>3, <1>6, <1>7 DEF EventOK

\* A probe is passed.
LEMMA PassStep ==
  ASSUME PathInv, NEW p \in Live, NEW call, NEW probes \in Seq(ProbeNames), probes # <<>>,
         task[p].out = <<>>, Pass(p, call, probes)
  PROVE  PathInv' /\ NobodyKilled
<1>1. /\ TypeOK /\ TasksTypeOK /\ TasksInv /\ EventsInv /\ p \in Pids
      /\ now \in Nat /\ events \in Nat /\ mix.events \in Nat
      /\ now \in now..mix.time /\ events \in 0..mix.events
  BY Numbers DEF PathInv, TypeOK, Live
<1>2. Head(probes) \in ProbeNames /\ Tail(probes) \in Seq(ProbeNames)
  BY HeadTailProperties
<1>3. UNCHANGED <<inbox, lives, owned, now, softirq, bufs, mix, denied>>
  BY DEF Pass, rest
<1>4. CASE Report(Head(probes), Cur(p), now, call) = {}
  <2>1. /\ UNCHANGED events
        /\ task' = [task EXCEPT ![p].busy = TRUE, ![p].call = call,
                                ![p].left = Tail(probes), ![p].out = <<>>]
    BY <1>4 DEF Pass
  <2>2. /\ DOMAIN task' = Pids /\ \A q \in Pids : Alike(q)
        /\ task'[p].out = <<>> /\ \A q \in Pids \ {p} : task'[q].out = task[q].out
        /\ NobodyKilled
    BY <1>1, <1>2, <2>1, AtAnotherPoint
  <2>3. \A q \in Pids : task'[q].out = task[q].out
    BY <2>2
  <2>4. EventsStay => EventsInv'
    BY <1>1, <1>3, <2>1, <2>3, FlightStays
  <2>5. QED BY <1>1, <1>3, <2>1, <2>2, <2>4, GoesOn
<1>5. CASE Report(Head(probes), Cur(p), now, call) # {}
  <2>1. PICK ev \in Report(Head(probes), Cur(p), now, call) :
          /\ events < mix.events /\ events' = events + 1
          /\ task' = [task EXCEPT ![p].busy = TRUE, ![p].call = call, ![p].left = Tail(probes),
                                  ![p].out = <<Caused(ev, task[p].life, IsLeader(p))>>]
    BY <1>5 DEF Pass
  <2>2. PICK e : e = Caused(ev, task[p].life, IsLeader(p))
    OBVIOUS
  <2> DEFINE out == <<e>>
  <2>3. /\ DOMAIN task' = Pids /\ \A q \in Pids : Alike(q)
        /\ task'[p].out = out /\ \A q \in Pids \ {p} : task'[q].out = task[q].out
        /\ NobodyKilled
    <3>1. task' = [task EXCEPT ![p].busy = TRUE, ![p].call = call, ![p].left = Tail(probes),
                               ![p].out = out]
      BY <2>1, <2>2
    <3> HIDE DEF out
    <3>2. QED BY <1>1, <1>2, <3>1, AtAnotherPoint
  <2>4. EventOK(e)'
    BY <1>1, <1>2, <1>3, <2>2, <2>3, StampedOK
  <2>5. EventsStay => EventsInv'
    BY <1>1, <1>3, <2>1, <2>3, <2>4, Stamping
  <2>6. events' \in 0..mix.events
    BY <1>1, <2>1
  <2>7. QED BY <1>1, <1>3, <2>3, <2>5, <2>6, GoesOn
<1>6. QED BY <1>4, <1>5

\* A call begins.
LEMMA EnterStep ==
  ASSUME PathInv, NEW p \in Pids, NEW call \in mix.calls, Enter(p, call)
  PROVE  PathInv' /\ NobodyKilled
<1>1. TypeOK /\ TasksInv /\ mix \in Mixes
  BY DEF PathInv, TypeOK
<1>2. call.nr \in Probed
  BY <1>1, PathAssumption
<1>3. p \in Live /\ ~task[p].busy /\ Pass(p, call, ProbesOf(call))
  BY DEF Enter
<1>4. task[p].out = <<>>
  BY <1>1, <1>3 DEF TasksInv
<1>5. QED BY <1>2, <1>3, <1>4, ProbesExist, PassStep

\* It passes another probe.
LEMMA ProbeStep ==
  ASSUME PathInv, NEW p \in Pids, Probe(p)
  PROVE  PathInv' /\ NobodyKilled
<1>1. TasksTypeOK /\ TasksInv
  BY DEF PathInv, TypeOK
<1>2. task[p].live
  BY <1>1 DEF Probe, TasksTypeOK, Gone
<1>3. p \in Live /\ task[p].left \in Seq(ProbeNames)
  BY <1>1, <1>2 DEF Live, TasksInv
<1>4. QED BY <1>3, PassStep DEF Probe

\* A call that is over leaves its task between two calls.
LEMMA Returns ==
  ASSUME TasksTypeOK, TasksInv, NEW p \in Live, task' = Returned(p)
  PROVE  /\ DOMAIN task' = Pids /\ \A q \in Pids : Alike(q)
         /\ task'[p].out = <<>> /\ \A q \in Pids \ {p} : task'[q].out = task[q].out
         /\ NobodyKilled
<1>1. <<>> \in Seq(ProbeNames)
  OBVIOUS
<1>2. task' = [task EXCEPT ![p].busy = FALSE, ![p].call = NoArgs, ![p].left = <<>>,
                           ![p].out = <<>>]
  BY DEF Returned
<1>3. QED BY <1>1, <1>2, AtAnotherPoint

\* The event of a probe is sent.
LEMMA SendStep ==
  ASSUME PathInv, NEW p \in Pids, Send(p)
  PROVE  PathInv' /\ NobodyKilled
<1>1. /\ TypeOK /\ TasksTypeOK /\ TasksInv /\ EventsInv
      /\ now \in Nat /\ events \in Nat /\ now \in now..mix.time /\ events \in 0..mix.events
  BY Numbers DEF PathInv, TypeOK
<1>2. task[p].out # <<>> /\ Multicast(Head(task[p].out))
      /\ UNCHANGED <<events, lives, owned, now, softirq, bufs, mix, denied>>
  BY DEF Send, rest
<1>3. task[p].live /\ p \in Live
  BY <1>1, <1>2 DEF TasksTypeOK, Gone, Live
<1>4. /\ DOMAIN task' = Pids /\ \A q \in Pids : Alike(q)
      /\ task'[p].out = <<>> /\ \A q \in Pids \ {p} : task'[q].out = task[q].out
      /\ NobodyKilled
  <2>1. CASE task[p].call.nr \notin Effects
    <3>1. task' = Returned(p)
      BY <2>1 DEF Send
    <3>2. QED BY <1>1, <1>3, <3>1, Returns
  <2>2. CASE task[p].call.nr \in Effects
    <3>1. task' = [task EXCEPT ![p].out = <<>>]
      BY <2>2 DEF Send
    <3>2. DOMAIN task[p] = DOMAIN Gone /\ "out" \in DOMAIN task[p] /\ DOMAIN task = Pids
      BY <1>1 DEF TasksTypeOK, TasksInv, Gone
    <3>3. /\ DOMAIN task' = Pids /\ \A q \in Pids \ {p} : task'[q] = task[q]
          /\ DOMAIN task'[p] = DOMAIN task[p] /\ task'[p].out = <<>>
          /\ \A f \in DOMAIN task[p] \ {"out"} : task'[p][f] = task[p][f]
      BY <3>1, <3>2
    <3>4. {"live", "busy", "killed", "left", "tgid", "life"} \subseteq DOMAIN task[p] \ {"out"}
      BY <3>2 DEF Gone
    <3>5. Alike(p)
      BY <1>1, <1>3, <3>2, <3>3, <3>4 DEF Alike, TasksInv
    <3>6. \A q \in Pids : Alike(q)
      BY <3>3, <3>5 DEF Alike
    <3>7. ASSUME NEW q \in Pids, task'[q].killed PROVE task[q].killed
      BY <3>3, <3>4, <3>7
    <3>8. QED BY <3>3, <3>6, <3>7 DEF NobodyKilled
  <2>3. QED BY <2>1, <2>2
<1>5. EventsStay => EventsInv'
  BY <1>1, <1>2, <1>4, Sending
<1>6. QED BY <1>1, <1>2, <1>4, <1>5, GoesOn

\* A call that has no event to send is over.
LEMMA ReturnStep ==
  ASSUME PathInv, NEW p \in Pids, Return(p)
  PROVE  PathInv' /\ NobodyKilled
<1>1. /\ TypeOK /\ TasksTypeOK /\ TasksInv /\ EventsInv
      /\ now \in Nat /\ events \in Nat /\ now \in now..mix.time /\ events \in 0..mix.events
  BY Numbers DEF PathInv, TypeOK
<1>2. task[p].out = <<>> /\ task' = Returned(p)
      /\ UNCHANGED <<inbox, events, lives, owned, now, softirq, bufs, mix, denied>>
  BY DEF Return, rest
<1>3. p \in Live
  BY <1>1 DEF Return, TasksTypeOK, Gone, Live
<1>4. /\ DOMAIN task' = Pids /\ \A q \in Pids : Alike(q)
      /\ \A q \in Pids : task'[q].out = task[q].out
      /\ NobodyKilled
  BY <1>1, <1>2, <1>3, Returns
<1>5. EventsStay => EventsInv'
  BY <1>1, <1>2, <1>4, FlightStays
<1>6. QED BY <1>1, <1>2, <1>4, <1>5, GoesOn

\* A process changes its user.
LEMMA SetUidStep ==
  ASSUME PathInv, NEW p \in Pids, SetUid(p)
  PROVE  PathInv' /\ NobodyKilled
<1>1. /\ TypeOK /\ TasksTypeOK /\ TasksInv /\ EventsInv
      /\ now \in Nat /\ events \in Nat /\ now \in now..mix.time /\ events \in 0..mix.events
  BY Numbers DEF PathInv, TypeOK
<1>2. task[p].busy /\ task[p].out = <<>> /\ task' = [Returned(p) EXCEPT ![p].uid = 1000]
      /\ UNCHANGED <<inbox, events, lives, owned, now, softirq, bufs, mix, denied>>
  BY DEF SetUid, Succeeds, Through, rest
<1>3. p \in Live /\ task[p].live /\ DOMAIN task = Pids /\ DOMAIN task[p] = DOMAIN Gone
  BY <1>1, <1>2 DEF TasksTypeOK, TasksInv, Gone, Live
<1>4. {"live", "tgid", "life", "killed", "busy", "call", "left", "out", "uid"} \subseteq DOMAIN task[p]
  BY <1>3 DEF Gone
<1>5. /\ DOMAIN task' = Pids /\ \A q \in Pids \ {p} : task'[q] = task[q]
      /\ DOMAIN task'[p] = DOMAIN task[p]
      /\ task'[p].left = <<>> /\ task'[p].out = <<>>
      /\ task'[p].tgid = task[p].tgid /\ task'[p].life = task[p].life
  BY <1>2, <1>3, <1>4 DEF Returned
<1>6. task'[p].live = task[p].live /\ task'[p].busy = FALSE /\ task'[p].killed = task[p].killed
  <2>1. PICK r : r = Returned(p)
    OBVIOUS
  <2>2. /\ r[p].live = task[p].live /\ r[p].busy = FALSE /\ r[p].killed = task[p].killed
        /\ DOMAIN r = Pids /\ {"live", "busy", "killed", "uid"} \subseteq DOMAIN r[p]
    BY <2>1, <1>3, <1>4 DEF Returned
  <2>3. task' = [r EXCEPT ![p].uid = 1000]
    BY <1>2, <2>1, Zenon
  <2>4. \A f \in DOMAIN r[p] \ {"uid"} : task'[p][f] = r[p][f]
    BY <1>3, <2>2, <2>3
  <2>5. /\ task'[p].live = r[p].live /\ task'[p].busy = r[p].busy
        /\ task'[p].killed = r[p].killed
    <3>1. "live" # "uid" /\ "busy" # "uid" /\ "killed" # "uid"
      OBVIOUS
    <3>2. {"live", "busy", "killed"} \subseteq DOMAIN r[p] \ {"uid"}
      BY <2>2, <3>1
    <3>3. QED BY <2>4, <3>2, Zenon
  <2>6. QED BY <2>2, <2>5, Zenon
<1>7. {task[p].live, task[p].killed} \subseteq BOOLEAN
  BY <1>1 DEF TasksInv
<1>8. Alike(p)
  <2>1. task'[p].live /\ (task[p].killed => task'[p].killed)
        /\ {task'[p].live, task'[p].busy, task'[p].killed} \subseteq BOOLEAN
    BY <1>3, <1>6, <1>7, Zenon
  <2>2. QED BY <1>3, <1>5, <2>1 DEF Alike
<1>9. ASSUME NEW q \in Pids PROVE Alike(q) /\ task'[q].out = task[q].out
  <2>1. CASE q = p
    BY <2>1, <1>2, <1>5, <1>8
  <2>2. CASE q # p
    BY <2>2, <1>5 DEF Alike
  <2>3. QED BY <2>1, <2>2
<1>10. EventsStay => EventsInv'
  BY <1>1, <1>2, <1>9, FlightStays
<1>11. NobodyKilled
  BY <1>5, <1>6 DEF NobodyKilled
<1>12. QED BY <1>1, <1>2, <1>5, <1>9, <1>10, <1>11, GoesOn

\* Time goes on.
LEMMA TickStep ==
  ASSUME PathInv, Tick
  PROVE  PathInv' /\ NobodyKilled
<1>1. /\ TypeOK /\ TasksInv /\ EventsInv
      /\ now \in Nat /\ events \in 0..mix.events /\ mix.time \in Nat
  BY Numbers DEF PathInv, TypeOK
<1>2. now < mix.time /\ now' = now + 1
      /\ UNCHANGED <<task, softirq, inbox, bufs, events, mix, lives, owned, denied>>
  BY DEF Tick
<1>3. DOMAIN task' = Pids /\ \A p \in Pids : Alike(p) /\ task'[p].out = task[p].out
  BY <1>1, <1>2 DEF Alike, TasksInv
<1>4. EventsStay => EventsInv'
  BY <1>1, <1>2, <1>3, FlightStays
<1>5. now' \in now..mix.time
  BY <1>1, <1>2
<1>6. NobodyKilled
  BY <1>2 DEF NobodyKilled
<1>7. QED BY <1>1, <1>2, <1>3, <1>4, <1>5, <1>6, GoesOn

\* A softirq has an event stamped that is what EventOK says.
LEMMA StampStep ==
  ASSUME PathInv, NEW c \in Cpus, NEW e, Stamp(c, e), EventOK(e)'
  PROVE  PathInv' /\ NobodyKilled
<1>1. /\ TypeOK /\ TasksInv /\ EventsInv
      /\ now \in Nat /\ events \in Nat /\ mix.events \in Nat /\ now \in now..mix.time
  BY Numbers DEF PathInv, TypeOK
<1>2. /\ softirq[c] = <<>> /\ events < mix.events /\ events' = events + 1
      /\ softirq' = [softirq EXCEPT ![c] = <<e>>]
      /\ UNCHANGED <<task, now, inbox, bufs, mix, lives, owned, denied>>
  BY DEF Stamp
<1>3. DOMAIN task' = Pids /\ \A p \in Pids : Alike(p)
  BY <1>1, <1>2 DEF Alike, TasksInv
<1>4. EventsStay => EventsInv'
  BY <1>1, <1>2, ComingIn
<1>5. events' \in 0..mix.events
  BY <1>1, <1>2
<1>6. NobodyKilled
  BY <1>2 DEF NobodyKilled
<1>7. QED BY <1>1, <1>2, <1>3, <1>4, <1>5, <1>6, GoesOn

\* A packet comes in.
LEMMA ComesInStep ==
  ASSUME PathInv, NEW c \in Cpus, NEW call, ComesIn(c, call)
  PROVE  PathInv' /\ NobodyKilled
<1>1. PICK e : e = CameIn(now, call)
  OBVIOUS
<1>2. Stamp(c, e)
  BY <1>1 DEF ComesIn
<1>3. EventOK(e)'
  <2>1. /\ e.life = 0 /\ e.ts = now /\ e.type = "PACKET_IN"
        /\ EvPid(e) = 0 /\ Counted(e) \subseteq Counters
    BY <1>1, HookReports
  <2>2. e.ts \in 0..now'
    <3>1. now' = now /\ now \in Nat
      BY <1>2, Numbers DEF PathInv, Stamp
    <3>2. QED BY <2>1, <3>1
  <2>3. QED BY <2>1, <2>2 DEF EventOK, FromTimer
<1>4. QED BY <1>2, <1>3, StampStep

\* A SYN is sent again.
LEMMA SentAgainStep ==
  ASSUME PathInv, NEW c \in Cpus, NEW call, SentAgain(c, call)
  PROVE  PathInv' /\ NobodyKilled
<1>1. PICK cur \in {IdleTask} \cup {Cur(p) : p \in Live} :
        \E ev \in qks_nf_hook(cur, now, call) : Stamp(c, Caused(ev, FromTimer, FALSE))
  BY DEF SentAgain
<1>2. PICK ev \in qks_nf_hook(cur, now, call) : Stamp(c, Caused(ev, FromTimer, FALSE))
  BY <1>1
<1>3. PICK e : e = Caused(ev, FromTimer, FALSE)
  OBVIOUS
<1>4. Stamp(c, e)
  BY <1>2, <1>3
<1>5. cur.pid \in Pids \cup {0}
  BY DEF IdleTask, Cur, Live
<1>6. EventOK(e)'
  <2>1. /\ e.life = FromTimer /\ e.ts = now /\ e.type = "PACKET"
        /\ EvPid(e) = cur.pid
        /\ "net_packet_out_count" \in Counted(e) /\ Counted(e) \subseteq Counters
    <3>1. Resent(e, cur, now, call)
      BY <1>2, <1>3 DEF Resent
    <3>2. QED BY <3>1, SentAgainReports
  <2>2. e.ts \in 0..now'
    <3>1. now' = now /\ now \in Nat
      BY <1>4, Numbers DEF PathInv, Stamp
    <3>2. QED BY <2>1, <3>1
  <2>3. QED BY <1>5, <2>1, <2>2 DEF EventOK
<1>7. QED BY <1>4, <1>6, StampStep

\* Its event is sent.
LEMMA SendInStep ==
  ASSUME PathInv, NEW c \in Cpus, SendIn(c)
  PROVE  PathInv' /\ NobodyKilled
<1>1. /\ TypeOK /\ TasksInv /\ EventsInv
      /\ now \in Nat /\ events \in Nat /\ now \in now..mix.time /\ events \in 0..mix.events
  BY Numbers DEF PathInv, TypeOK
<1>2. /\ softirq[c] # <<>> /\ softirq' = [softirq EXCEPT ![c] = <<>>]
      /\ Multicast(Head(softirq[c]))
      /\ UNCHANGED <<task, now, bufs, events, mix, lives, owned, denied>>
  BY DEF SendIn
<1>3. DOMAIN task' = Pids /\ \A p \in Pids : Alike(p)
  BY <1>1, <1>2 DEF Alike, TasksInv
<1>4. EventsStay => EventsInv'
  BY <1>1, <1>2, SendingIn
<1>5. NobodyKilled
  BY <1>2 DEF NobodyKilled
<1>6. QED BY <1>1, <1>2, <1>3, <1>4, <1>5, GoesOn

-----------------------------------------------------------------------------
(* Tasks that come and go.                                                  *)

\* A task between two calls, of a process nobody kills.
Ready(t, tgid, life) ==
  /\ DOMAIN t = DOMAIN Gone
  /\ t.live = TRUE /\ t.busy = FALSE /\ t.killed = FALSE
  /\ t.left = <<>> /\ t.out = <<>>
  /\ t.tgid = tgid /\ t.life = life

\* A call that succeeds leaves such a task.
LEMMA SucceedsReady ==
  ASSUME TasksTypeOK, TasksInv, NEW p \in Pids, NEW calls, Succeeds(p, calls),
         NEW r, r = Returned(p)
  PROVE  /\ p \in Live /\ ~task[p].killed /\ task[p].out = <<>>
         /\ DOMAIN r = Pids /\ \A q \in Pids \ {p} : r[q] = task[q]
         /\ Ready(r[p], task[p].tgid, task[p].life)
<1>1. task[p].busy /\ ~task[p].killed /\ task[p].out = <<>>
  BY DEF Succeeds, Through
<1>2. task[p].live /\ p \in Live /\ DOMAIN task = Pids /\ DOMAIN task[p] = DOMAIN Gone
  BY <1>1 DEF TasksTypeOK, TasksInv, Gone, Live
<1>3. {task[p].live, task[p].killed} \subseteq BOOLEAN
  BY DEF TasksInv
<1>4. {"live", "tgid", "life", "killed", "busy", "call", "left", "out"} \subseteq DOMAIN task[p]
  BY <1>2 DEF Gone
<1>5. /\ DOMAIN r = Pids /\ \A q \in Pids \ {p} : r[q] = task[q]
      /\ DOMAIN r[p] = DOMAIN task[p] /\ r[p].left = <<>> /\ r[p].out = <<>>
      /\ r[p].tgid = task[p].tgid /\ r[p].life = task[p].life
  BY <1>2, <1>4 DEF Returned
<1>6. r[p].live = task[p].live /\ r[p].busy = FALSE /\ r[p].killed = task[p].killed
  BY <1>2, <1>4 DEF Returned
<1>7. task[p].live = TRUE /\ task[p].killed = FALSE
  BY <1>1, <1>2, <1>3
<1>8. Ready(r[p], task[p].tgid, task[p].life)
  BY <1>2, <1>5, <1>6, <1>7 DEF Ready
<1>9. QED BY <1>1, <1>2, <1>5, <1>8

\* The leader of a task is of its group, and whoever is not of the group has
\* a leader that is not.
LEMMA Leaders ==
  ASSUME TasksTypeOK, NEW p \in Live
  PROVE  /\ task[p].tgid \in Group(p) /\ p \in Group(p) /\ Group(p) \subseteq Live
         /\ task[task[p].tgid].life = task[p].life
         /\ \A q \in Live \ Group(p) : task[q].tgid \in Live \ Group(p)
<1>1. \A q \in Live : q \in Pids /\ task[q].live
  BY DEF Live
<1>2. \A q \in Live : /\ task[q].tgid \in Live
                      /\ task[task[q].tgid].tgid = task[q].tgid
                      /\ task[task[q].tgid].life = task[q].life
  BY <1>1 DEF TasksTypeOK
<1>3. QED BY <1>2 DEF Group

\* Nobody makes a call.
LEMMA NobodyIs ==
  /\ {Gone.live, Gone.busy, Gone.killed} \subseteq BOOLEAN
  /\ Gone.left \in Seq(ProbeNames) /\ Gone.left = <<>> /\ Gone.out = <<>>
<1>1. Gone.live = FALSE /\ Gone.busy = FALSE /\ Gone.killed = FALSE
  BY DEF Gone
<1>2. {Gone.live, Gone.busy, Gone.killed} \subseteq BOOLEAN
  BY <1>1, Zenon
<1>3. Gone.left = <<>> /\ Gone.out = <<>>
  BY DEF Gone
<1>4. <<>> \in Seq(ProbeNames)
  OBVIOUS
<1>5. QED BY <1>2, <1>3, <1>4

\* Tasks that are gone leave the others as they were, if nobody loses a leader.
LEMMA TasksGo ==
  ASSUME TasksTypeOK, TasksInv, DenyStops, NEW S, S \subseteq Live, Resting(S),
         \A q \in Live \ S : task[q].tgid \notin S,
         task' = [q \in Pids |-> IF q \in S THEN Gone ELSE task[q]],
         UNCHANGED <<lives, owned, denied>>
  PROVE  /\ TasksTypeOK' /\ TasksInv' /\ DenyStops' /\ Lineage
         /\ \A q \in Pids : task'[q].out = task[q].out
         /\ NobodyKilled
<1>1. /\ DOMAIN task' = Pids /\ S \subseteq Pids
      /\ \A q \in S : task'[q] = Gone
      /\ \A q \in Pids \ S : task'[q] = task[q]
  BY DEF Live
<1>2. Live' = Live \ S
  BY <1>1 DEF Live, Gone
<1>3. \A q \in Live \ S : q \in Pids \ S /\ task[q].tgid \in Live \ S /\ task[q].tgid \in Pids \ S
  BY DEF TasksTypeOK, Live
<1>4. ASSUME NEW q \in Pids
      PROVE  /\ DOMAIN task'[q] = DOMAIN Gone
             /\ task'[q].live => /\ task'[q].tgid \in Live' /\ task'[q].life \in owned'[q]
                                 /\ task'[task'[q].tgid].tgid = task'[q].tgid
                                 /\ task'[task'[q].tgid].life = task'[q].life
             /\ ~task'[q].live => task'[q] = Gone
  <2>1. CASE q \in S
    BY <1>1, <2>1 DEF Gone
  <2>2. CASE q \notin S
    <3>1. task'[q] = task[q]
      BY <1>1, <2>2
    <3>2. DOMAIN task[q] = DOMAIN Gone /\ (~task[q].live => task[q] = Gone)
      BY DEF TasksTypeOK
    <3>3. ASSUME task[q].live
          PROVE  /\ task[q].tgid \in Live' /\ task[q].life \in owned'[q]
                 /\ task'[task[q].tgid].tgid = task[q].tgid
                 /\ task'[task[q].tgid].life = task[q].life
      <4>1. q \in Live \ S
        BY <3>3, <2>2 DEF Live
      <4>2. task'[task[q].tgid] = task[task[q].tgid] /\ task[q].tgid \in Live'
        BY <1>1, <1>2, <1>3, <4>1
      <4>3. QED BY <3>3, <4>2 DEF TasksTypeOK
    <3>4. QED BY <3>1, <3>2, <3>3
  <2>3. QED BY <2>1, <2>2
<1>5. TasksTypeOK'
  BY <1>4 DEF TasksTypeOK
<1>6. TasksInv'
  <2>1. ASSUME NEW q \in Pids
        PROVE  /\ {task'[q].live, task'[q].busy, task'[q].killed} \subseteq BOOLEAN
               /\ task'[q].left \in Seq(ProbeNames)
               /\ ~task'[q].busy => task'[q].left = <<>> /\ task'[q].out = <<>>
    <3>1. CASE q \in S
      BY <1>1, <3>1, NobodyIs
    <3>2. CASE q \notin S
      BY <1>1, <3>2 DEF TasksInv
    <3>3. QED BY <3>1, <3>2
  <2>2. \A q, r \in Live' : task'[q].life = task'[r].life => task'[q].tgid = task'[r].tgid
    BY <1>1, <1>2, <1>3 DEF TasksInv
  <2>3. QED BY <1>1, <2>1, <2>2 DEF TasksInv
<1>7. DenyStops' /\ Lineage
  BY <1>1, <1>2, <1>3 DEF DenyStops, Lineage
<1>8. ASSUME NEW q \in Pids PROVE task'[q].out = task[q].out
  <2>1. CASE q \in S
    BY <1>1, <2>1 DEF Resting, TasksInv, Gone
  <2>2. CASE q \notin S
    BY <1>1, <2>2
  <2>3. QED BY <2>1, <2>2
<1>9. NobodyKilled
  BY <1>1 DEF NobodyKilled, Gone
<1>10. QED BY <1>5, <1>6, <1>7, <1>8, <1>9

\* A thread ends, or a process.
LEMMA ExitStep ==
  ASSUME PathInv, NEW p \in Pids, Exit(p)
  PROVE  PathInv' /\ NobodyKilled
<1> DEFINE ends == IF IsLeader(p) THEN Group(p) ELSE {p}
<1>1. /\ TypeOK /\ TasksTypeOK /\ TasksInv /\ EventsInv /\ DenyStops
      /\ now \in Nat /\ events \in Nat /\ now \in now..mix.time /\ events \in 0..mix.events
      /\ lives \in lives..MaxLives
  BY Numbers, PathAssumption DEF PathInv, TypeOK
<1>2. /\ p \in Live /\ Resting(ends)
      /\ task' = [q \in Pids |-> IF q \in ends THEN Gone ELSE task[q]]
      /\ UNCHANGED <<inbox, events, lives, owned, now, softirq, bufs, mix, denied>>
  BY DEF Exit, rest
<1>3. ends \subseteq Live
  BY <1>1, <1>2, Leaders
<1>4. \A q \in Live \ ends : task[q].tgid \notin ends
  <2>1. CASE IsLeader(p)
    BY <1>1, <1>2, <2>1, Leaders
  <2>2. CASE ~IsLeader(p)
    <3>1. \A q \in Live : task[task[q].tgid].tgid = task[q].tgid
      BY <1>1 DEF TasksTypeOK, Live
    <3>2. QED BY <2>2, <3>1 DEF IsLeader
  <2>3. QED BY <2>1, <2>2
<1> HIDE DEF ends
<1>5. /\ TasksTypeOK' /\ TasksInv' /\ DenyStops' /\ Lineage
      /\ \A q \in Pids : task'[q].out = task[q].out
      /\ NobodyKilled
  BY <1>1, <1>2, <1>3, <1>4, TasksGo
<1>6. EventsStay => EventsInv'
  BY <1>1, <1>2, <1>5, FlightStays
<1>7. QED BY <1>1, <1>2, <1>5, <1>6, Renews

\* The calls' tasks are again tasks between two calls.
LEMMA ReadyIs ==
  ASSUME NEW t, NEW tgid, NEW life, Ready(t, tgid, life)
  PROVE  /\ {t.live, t.busy, t.killed} \subseteq BOOLEAN
         /\ t.left \in Seq(ProbeNames) /\ t.left = <<>> /\ t.out = <<>>
<1>1. <<>> \in Seq(ProbeNames)
  OBVIOUS
<1>2. QED BY <1>1 DEF Ready

\* A process executes a file: the thread that calls is all that is left.
LEMMA ExecStep ==
  ASSUME PathInv, NEW p \in Pids, Exec(p)
  PROVE  PathInv' /\ NobodyKilled
<1> DEFINE g == task[p].tgid
           G == Group(p)
<1>1. /\ TypeOK /\ TasksTypeOK /\ TasksInv /\ EventsInv /\ DenyStops
      /\ now \in Nat /\ events \in Nat /\ now \in now..mix.time /\ events \in 0..mix.events
      /\ lives \in lives..MaxLives
  BY Numbers, PathAssumption DEF PathInv, TypeOK
<1>2. PICK r : r = Returned(p)
  OBVIOUS
<1>3. /\ p \in Live /\ ~task[p].killed /\ task[p].out = <<>>
      /\ Ready(r[p], g, task[p].life)
  BY <1>1, <1>2, SucceedsReady DEF Exec
<1>4. PICK new : /\ Ready(new, g, task[p].life)
                 /\ task' = [q \in Pids |-> IF q = g THEN new ELSE IF q \in G THEN Gone ELSE task[q]]
  <2> DEFINE n == [r[p] EXCEPT !.exe = task[p].call.file,
                               !.uid = IF task[p].call.setuid THEN 0 ELSE @]
  <2>1. /\ DOMAIN n = DOMAIN r[p]
        /\ \A f \in DOMAIN r[p] \ {"exe", "uid"} : n[f] = r[p][f]
    OBVIOUS
  <2>2. {"live", "tgid", "life", "killed", "busy", "left", "out"} \subseteq DOMAIN r[p] \ {"exe", "uid"}
    BY <1>3 DEF Ready, Gone
  <2>3. task' = [q \in Pids |-> IF q = g THEN n ELSE IF q \in G THEN Gone ELSE task[q]]
    BY <1>2 DEF Exec
  <2> HIDE DEF n
  <2>4. Ready(n, g, task[p].life)
    BY <1>3, <2>1, <2>2 DEF Ready
  <2>5. QED BY <2>3, <2>4
<1>5. Resting(G \ {p}) /\ UNCHANGED <<inbox, events, lives, owned, now, softirq, bufs, mix, denied>>
  BY DEF Exec, rest
<1>6. /\ g \in G /\ p \in G /\ G \subseteq Live /\ task[g].life = task[p].life
      /\ \A q \in Live \ G : task[q].tgid \in Live \ G
  BY <1>1, <1>3, Leaders
<1>7. \A q \in Live : q \in Pids /\ task[q].live
  BY DEF Live
<1> DEFINE life == task[p].life
<1>8. life \in owned[g] /\ g \in Live
  BY <1>1, <1>6, <1>7 DEF TasksTypeOK
<1>9. \A q \in Live : task[q].life = life => q \in G
  BY <1>1, <1>3 DEF TasksInv, Group
<1> HIDE DEF g, G, life
<1>10. /\ DOMAIN task' = Pids /\ task'[g] = new
       /\ \A q \in G \ {g} : task'[q] = Gone
       /\ \A q \in Pids \ G : task'[q] = task[q]
       /\ Ready(new, g, life)
  BY <1>4, <1>6, <1>7 DEF life
<1>11. Live' = (Live \ G) \cup {g}
  BY <1>6, <1>7, <1>8, <1>10 DEF Live, Gone, Ready
<1>12. ASSUME NEW q \in Pids
       PROVE  /\ DOMAIN task'[q] = DOMAIN Gone
              /\ task'[q].live => /\ task'[q].tgid \in Live' /\ task'[q].life \in owned'[q]
                                  /\ task'[task'[q].tgid].tgid = task'[q].tgid
                                  /\ task'[task'[q].tgid].life = task'[q].life
              /\ ~task'[q].live => task'[q] = Gone
  <2>1. CASE q = g
    BY <1>5, <1>8, <1>10, <1>11, <2>1 DEF Ready
  <2>2. CASE q \in G \ {g}
    BY <1>10, <2>2 DEF Gone
  <2>3. CASE q \in Pids \ G
    <3>1. task'[q] = task[q] /\ DOMAIN task[q] = DOMAIN Gone /\ (~task[q].live => task[q] = Gone)
      BY <1>1, <1>10, <2>3 DEF TasksTypeOK
    <3>2. ASSUME task[q].live
          PROVE  /\ task[q].tgid \in Live' /\ task[q].life \in owned'[q]
                 /\ task'[task[q].tgid].tgid = task[q].tgid
                 /\ task'[task[q].tgid].life = task[q].life
      <4>1. q \in Live \ G
        BY <3>2, <2>3 DEF Live
      <4>2. task'[task[q].tgid] = task[task[q].tgid] /\ task[q].tgid \in Live'
        BY <1>6, <1>7, <1>10, <1>11, <4>1
      <4>3. QED BY <1>1, <1>5, <2>3, <3>2, <4>2 DEF TasksTypeOK
    <3>3. QED BY <3>1, <3>2
  <2>4. QED BY <2>1, <2>2, <2>3
<1>13. TasksTypeOK'
  BY <1>12 DEF TasksTypeOK
<1>14. TasksInv'
  <2>1. ASSUME NEW q \in Pids
        PROVE  /\ {task'[q].live, task'[q].busy, task'[q].killed} \subseteq BOOLEAN
               /\ task'[q].left \in Seq(ProbeNames)
               /\ ~task'[q].busy => task'[q].left = <<>> /\ task'[q].out = <<>>
    <3>1. CASE q = g
      BY <1>10, <3>1, ReadyIs
    <3>2. CASE q \in G \ {g}
      BY <1>10, <3>2, NobodyIs
    <3>3. CASE q \in Pids \ G
      BY <1>1, <1>10, <3>3 DEF TasksInv
    <3>4. QED BY <3>1, <3>2, <3>3
  <2>2. \A q \in Live' : \/ q \in Live \ G /\ task'[q] = task[q]
                         \/ q = g /\ task'[q].life = life /\ task'[q].tgid = g
    BY <1>7, <1>10, <1>11 DEF Ready
  <2>3. \A q, s \in Live' : task'[q].life = task'[s].life => task'[q].tgid = task'[s].tgid
    BY <1>1, <1>9, <2>2 DEF TasksInv
  <2>4. QED BY <1>1, <1>5, <1>10, <2>1, <2>3 DEF TasksInv
<1>15. Lineage
  <2>1. task[g].tgid = g /\ task[g].life = life
    BY <1>1, <1>3, <1>6, <1>7 DEF TasksTypeOK, g, life
  <2>2. QED BY <1>7, <1>8, <1>10, <1>11, <2>1 DEF Lineage, Ready
<1>16. DenyStops'
  <2>1. life \notin denied
    BY <1>1, <1>3 DEF DenyStops, life
  <2>2. QED BY <1>1, <1>5, <1>7, <1>10, <1>11, <2>1 DEF DenyStops, Ready
<1>17. ASSUME NEW q \in Pids PROVE task'[q].out = task[q].out
  <2>1. CASE q \in G
    <3>1. task[q].out = <<>>
      BY <1>1, <1>3, <1>5, <2>1 DEF Resting, TasksInv
    <3>2. task'[q].out = <<>>
      BY <1>10, <2>1, ReadyIs DEF Gone
    <3>3. QED BY <3>1, <3>2
  <2>2. CASE q \notin G
    BY <1>10, <2>2
  <2>3. QED BY <2>1, <2>2
<1>18. EventsStay => EventsInv'
  BY <1>1, <1>5, <1>17, FlightStays
<1>19. NobodyKilled
  BY <1>10 DEF NobodyKilled, Gone, Ready
<1>20. QED BY <1>1, <1>5, <1>13, <1>14, <1>15, <1>16, <1>18, <1>19, Renews

\* A process or a thread begins, on a pid nobody has.
LEMMA CloneStep ==
  ASSUME PathInv, NEW p \in Pids, NEW q \in Pids, Clone(p, q)
  PROVE  PathInv' /\ NobodyKilled
<1> DEFINE thread == "CLONE_THREAD" \in task[p].call.flags
<1>1. /\ TypeOK /\ TasksTypeOK /\ TasksInv /\ EventsInv /\ DenyStops
      /\ now \in Nat /\ events \in Nat /\ now \in now..mix.time /\ events \in 0..mix.events
      /\ lives \in Nat \ {0} /\ lives \in lives..MaxLives /\ lives <= MaxLives
      /\ denied \subseteq 1..lives /\ owned \in [Pids -> SUBSET (1..lives)]
  BY Numbers, PathAssumption DEF PathInv, TypeOK, TasksInv
<1>2. PICK r : r = Returned(p)
  OBVIOUS
<1>3. /\ p \in Live /\ ~task[p].killed /\ task[p].out = <<>>
      /\ DOMAIN r = Pids /\ \A s \in Pids \ {p} : r[s] = task[s]
      /\ Ready(r[p], task[p].tgid, task[p].life)
  BY <1>1, <1>2, SucceedsReady DEF Clone
<1>4. /\ q \in Pids \ Live /\ (~thread => lives < MaxLives)
      /\ lives' = IF thread THEN lives ELSE lives + 1
      /\ task' = [r EXCEPT ![q] = IF thread THEN r[p] ELSE Process(q, task[p].uid, task[p].exe, lives')]
      /\ owned' = [owned EXCEPT ![q] = @ \cup {task'[q].life}]
      /\ UNCHANGED <<inbox, events, now, softirq, bufs, mix, denied>>
  BY <1>2 DEF Clone, rest
<1>5. task[q] = Gone /\ task[p].life \in owned[p] /\ p # q
  BY <1>1, <1>3, <1>4 DEF TasksTypeOK, Live
<1>6. task[p].life \in 1..lives
  BY <1>1, <1>5
<1> DEFINE tgid == IF thread THEN task[p].tgid ELSE q
           life == IF thread THEN task[p].life ELSE lives + 1
<1>7. /\ DOMAIN task' = Pids /\ \A s \in Pids \ {p, q} : task'[s] = task[s]
      /\ Ready(task'[p], task[p].tgid, task[p].life)
      /\ Ready(task'[q], tgid, life)
  <2>1. /\ DOMAIN task' = Pids /\ \A s \in Pids \ {p, q} : task'[s] = task[s]
        /\ task'[p] = r[p]
        /\ task'[q] = IF thread THEN r[p] ELSE Process(q, task[p].uid, task[p].exe, lives')
    BY <1>3, <1>4, <1>5
  <2>2. CASE thread
    BY <1>3, <2>1, <2>2
  <2>3. CASE ~thread
    <3>1. Ready(Process(q, task[p].uid, task[p].exe, lives + 1), q, lives + 1)
      BY DEF Ready, Process, Gone
    <3>2. task'[q] = Process(q, task[p].uid, task[p].exe, lives + 1)
      BY <1>4, <2>1, <2>3
    <3>3. Ready(task'[q], q, lives + 1)
      BY <3>1, <3>2, Zenon
    <3>4. QED BY <1>3, <2>1, <2>3, <3>3
  <2>4. QED BY <2>2, <2>3
<1>8. /\ lives' \in lives..MaxLives /\ lives' \in Nat /\ life \in 1..lives' /\ 1..lives \subseteq 1..lives'
  BY <1>1, <1>4, <1>6, PathAssumption
<1>9. /\ DOMAIN owned' = Pids /\ \A s \in Pids \ {q} : owned'[s] = owned[s]
      /\ owned'[q] = owned[q] \cup {life}
  BY <1>1, <1>4, <1>7 DEF Ready
<1>10. owned' \in [Pids -> SUBSET (1..lives')] /\ \A s \in Pids : owned[s] \subseteq owned'[s]
  <2>1. ASSUME NEW s \in Pids PROVE owned[s] \subseteq owned'[s] /\ owned'[s] \subseteq 1..lives'
    <3> HIDE DEF life
    <3>1. owned[s] \subseteq 1..lives'
      BY <1>1, <1>8
    <3>2. CASE s = q
      BY <1>8, <1>9, <3>1, <3>2
    <3>3. CASE s # q
      BY <1>9, <3>1, <3>3
    <3>4. QED BY <3>2, <3>3
  <2>2. owned' = [s \in Pids |-> owned'[s]]
    BY <1>1, <1>4
  <2>3. QED BY <2>1, <2>2
<1>11. Live' = Live \cup {q}
  BY <1>3, <1>4, <1>7 DEF Live, Ready
\* What each of those who live is, in terms of those who lived.
<1>12. \A s \in Live : /\ s \in Pids \ {q} /\ s \in Live'
                       /\ task'[s].tgid = task[s].tgid /\ task'[s].life = task[s].life
  BY <1>4, <1>7, <1>11 DEF Live, Ready
<1>13. task'[q].tgid = tgid /\ task'[q].life = life
  BY <1>7 DEF Ready
<1>14. \A s \in Live : /\ task[s].tgid \in Live /\ task[s].life \in owned[s]
                       /\ task[task[s].tgid].tgid = task[s].tgid
                       /\ task[task[s].tgid].life = task[s].life
                       /\ task[s].life \in 1..lives
  BY <1>1 DEF TasksTypeOK, Live
<1>15. ASSUME NEW s \in Live'
       PROVE  /\ task'[s].tgid \in Live' /\ task'[s].life \in owned'[s]
              /\ task'[task'[s].tgid].tgid = task'[s].tgid
              /\ task'[task'[s].tgid].life = task'[s].life
  <2>1. CASE s \in Live
    BY <1>10, <1>12, <1>14, <2>1
  <2>2. CASE s = q
    <3>1. CASE thread
      BY <1>3, <1>9, <1>12, <1>13, <1>14, <2>2, <3>1
    <3>2. CASE ~thread
      BY <1>9, <1>11, <1>13, <2>2, <3>2
    <3>3. QED BY <3>1, <3>2
  <2>3. QED BY <1>11, <2>1, <2>2
<1> HIDE DEF tgid, life
<1>16. ASSUME NEW s \in Pids
       PROVE  DOMAIN task'[s] = DOMAIN Gone /\ (~task'[s].live => task'[s] = Gone)
  <2>1. CASE s \in {p, q}
    BY <1>7, <2>1 DEF Ready
  <2>2. CASE s \notin {p, q}
    BY <1>1, <1>7, <2>2 DEF TasksTypeOK
  <2>3. QED BY <2>1, <2>2
<1>17. TasksTypeOK'
  BY <1>15, <1>16 DEF TasksTypeOK, Live
<1>18. TasksInv'
  <2>1. ASSUME NEW s \in Pids
        PROVE  /\ {task'[s].live, task'[s].busy, task'[s].killed} \subseteq BOOLEAN
               /\ task'[s].left \in Seq(ProbeNames)
               /\ ~task'[s].busy => task'[s].left = <<>> /\ task'[s].out = <<>>
    <3>1. CASE s = p
      BY <1>7, <3>1, ReadyIs
    <3>2. CASE s = q
      BY <1>7, <3>2, ReadyIs
    <3>3. CASE s \notin {p, q}
      BY <1>1, <1>7, <3>3 DEF TasksInv
    <3>4. QED BY <3>1, <3>2, <3>3
  <2>2. \A s \in Live : task[s].life = life => task[s].tgid = tgid
    <3>1. CASE thread
      BY <1>1, <1>3, <3>1 DEF TasksInv, tgid, life
    <3>2. CASE ~thread
      BY <1>1, <1>14, <3>2 DEF life
    <3>3. QED BY <3>1, <3>2
  <2>3. ASSUME NEW s \in Live', NEW t \in Live', task'[s].life = task'[t].life
        PROVE  task'[s].tgid = task'[t].tgid
    <3>1. CASE s \in Live /\ t \in Live
      BY <1>1, <1>12, <2>3, <3>1 DEF TasksInv
    <3>2. CASE s = q \/ t = q
      BY <1>11, <1>12, <1>13, <2>2, <2>3, <3>2
    <3>3. QED BY <1>11, <3>1, <3>2
  <2>4. QED BY <1>7, <1>10, <2>1, <2>3 DEF TasksInv
<1>19. Lineage
  <2>1. ASSUME NEW s \in Live'
        PROVE  \/ \E t \in Live : task[t].life = task'[s].life /\ task[t].tgid = task'[s].tgid
               \/ task'[s].life = lives + 1
    <3>1. CASE s \in Live
      BY <1>12, <3>1
    <3>2. CASE s = q
      BY <1>3, <1>13, <3>2 DEF tgid, life
    <3>3. QED BY <1>11, <3>1, <3>2
  <2>2. QED BY <2>1 DEF Lineage
<1>20. DenyStops'
  <2>1. task[p].life \notin denied
    BY <1>1, <1>3 DEF DenyStops
  <2>2. life \notin denied
    BY <1>1, <2>1 DEF life
  <2>3. ASSUME NEW s \in Live', task'[s].life \in denied PROVE task'[s].killed
    <3>1. s \notin {p, q}
      BY <1>7, <2>1, <2>2, <2>3 DEF Ready
    <3>2. s \in Live /\ task'[s] = task[s]
      BY <1>7, <1>11, <3>1 DEF Live
    <3>3. QED BY <1>1, <2>3, <3>2 DEF DenyStops
  <2>4. QED BY <1>4, <2>3 DEF DenyStops
<1>21. ASSUME NEW s \in Pids PROVE task'[s].out = task[s].out
  <2>1. CASE s = p
    BY <1>3, <1>7, <2>1, ReadyIs
  <2>2. CASE s = q
    BY <1>5, <1>7, <2>2, ReadyIs, NobodyIs
  <2>3. CASE s \notin {p, q}
    BY <1>7, <2>3
  <2>4. QED BY <2>1, <2>2, <2>3
<1>22. EventsStay => EventsInv'
  BY <1>1, <1>4, <1>21, FlightStays
<1>23. NobodyKilled
  BY <1>7 DEF NobodyKilled, Ready
<1>24. QED BY <1>1, <1>4, <1>8, <1>10, <1>17, <1>18, <1>19, <1>20, <1>22, <1>23, Renews

-----------------------------------------------------------------------------
(* The answer.                                                              *)

\* Who is killed, in which process: what the worker's step does to the tasks
\* and to the denied, if it denies.
LEMMA JudgeTasks ==
  ASSUME TasksTypeOK, TasksInv, inbox # <<>>, Judge
  PROVE  \E deny \in BOOLEAN :
           LET ev == Head(inbox) IN
           /\ task' = [p \in Pids |->
                IF deny /\ p \in Victims(ev) THEN [task[p] EXCEPT !.killed = TRUE] ELSE task[p]]
           /\ denied' = IF /\ deny /\ ev.type \in {"EXEC", "SYSCALL"} /\ ev.leader
                           /\ ev.uid # 0 /\ ev.pid # InitPid
                        THEN denied \cup {ev.life} ELSE denied
<1> DEFINE Sent(score, inTime) ==
      /\ inTime
      /\ Verdict(Eval(policy_root, Head(inbox)),
                 Judged(Eval(policy_root, Head(inbox)), score,
                        SlotOf(bufs, EvPid(Head(inbox))) # NoSlot)) = "DENY"
<1>1. PICK score \in {"high", "low"}, inTime \in BOOLEAN :
        LET ev == Head(inbox)
            deny == Sent(score, inTime)
        IN /\ task' = [p \in Pids |->
                IF deny /\ p \in Victims(ev) THEN [task[p] EXCEPT !.killed = TRUE] ELSE task[p]]
           /\ denied' = IF /\ deny /\ ev.type \in {"EXEC", "SYSCALL"} /\ ev.leader
                           /\ ev.uid # 0 /\ ev.pid # InitPid
                        THEN denied \cup {ev.life} ELSE denied
  BY DEF Judge
<1> HIDE DEF Sent
<1>2. CASE Sent(score, inTime)
  BY <1>1, <1>2
<1>3. CASE ~Sent(score, inTime)
  BY <1>1, <1>3
<1>4. QED BY <1>2, <1>3

\* Who is killed is of the process whose leader has the pid of the event, which
\* was neither init's nor root's.
LEMMA VictimsAre ==
  ASSUME TasksTypeOK, NEW ev, NEW p \in Victims(ev)
  PROVE  /\ ev.type \in {"EXEC", "SYSCALL"} /\ ev.uid # 0 /\ ev.pid # InitPid
         /\ p \in Live /\ ev.pid \in Live /\ task[p].tgid = ev.pid
         /\ task[p].life \in owned[ev.pid]
<1>1. /\ ev.type \in {"EXEC", "SYSCALL"} /\ ev.uid # 0 /\ ev.pid # InitPid
      /\ p \in Killed(ev.pid)
  BY DEF Victims, ShouldNotKill
<1>2. ev.pid \in Live /\ IsLeader(ev.pid) /\ p \in Group(ev.pid)
  BY <1>1 DEF Killed
<1>3. p \in Live /\ task[p].tgid = ev.pid
  BY <1>2 DEF Group, IsLeader
<1>4. task[p].life \in owned[ev.pid]
  BY <1>2, <1>3 DEF TasksTypeOK, Live
<1>5. QED BY <1>1, <1>2, <1>3, <1>4

\* The worker judges an event.
LEMMA JudgeStep ==
  ASSUME PathInv, Judge
  PROVE  PathInv'
<1> DEFINE ev == Head(inbox)
<1>1. /\ TypeOK /\ TasksTypeOK /\ TasksInv /\ EventsInv /\ DenyStops /\ SlotsTypeOK
      /\ WindowSpan /\ SlotIsOfPid /\ SlotsInv
      /\ now \in Nat /\ events \in Nat /\ lives \in Nat \ {0}
      /\ now + Window < TsModulus
      /\ denied \subseteq 1..lives /\ owned \in [Pids -> SUBSET (1..lives)]
  BY Numbers DEF PathInv, TypeOK, TasksInv
<1>2. /\ inbox # <<>> /\ inbox' = Tail(inbox)
      /\ UNCHANGED <<now, softirq, events, mix, lives, owned>>
      /\ bufs' = AfterUpdate(AfterGet(bufs, EvPid(ev), ev.ts), SlotOf(bufs, EvPid(ev)), ev)
  BY DEF Judge
<1>3. PICK deny \in BOOLEAN :
        /\ task' = [p \in Pids |->
             IF deny /\ p \in Victims(ev) THEN [task[p] EXCEPT !.killed = TRUE] ELSE task[p]]
        /\ denied' = IF /\ deny /\ ev.type \in {"EXEC", "SYSCALL"} /\ ev.leader
                        /\ ev.uid # 0 /\ ev.pid # InitPid
                     THEN denied \cup {ev.life} ELSE denied
  BY <1>1, <1>2, JudgeTasks
<1>4. EventOK(ev)
  <2>1. ev \in Range(inbox)
    BY <1>1, <1>2, TailsOf DEF EventsInv
  <2>2. QED BY <1>1, <2>1 DEF EventsInv, InFlight
<1> HIDE DEF ev
<1>5. ASSUME NEW p \in Pids, deny, p \in Victims(ev)
      PROVE  Alike(p) /\ task'[p].out = task[p].out /\ task'[p].killed
  <2>1. task'[p] = [task[p] EXCEPT !.killed = TRUE]
    BY <1>3, <1>5
  <2>2. p \in Live /\ task[p].live /\ DOMAIN task[p] = DOMAIN Gone
    BY <1>1, <1>5, VictimsAre DEF Live, TasksTypeOK
  <2>3. "killed" \in DOMAIN task[p]
    BY <2>2 DEF Gone
  <2>4. /\ DOMAIN task'[p] = DOMAIN task[p] /\ task'[p].killed = TRUE
        /\ \A f \in DOMAIN task[p] \ {"killed"} : task'[p][f] = task[p][f]
    BY <2>1, <2>3
  <2>5. {"live", "tgid", "life", "busy", "left", "out"} \subseteq DOMAIN task[p] \ {"killed"}
    BY <2>2 DEF Gone
  <2>6. /\ task'[p].tgid = task[p].tgid /\ task'[p].life = task[p].life
        /\ task'[p].left = task[p].left /\ task'[p].out = task[p].out
        /\ task'[p].live = task[p].live /\ task'[p].busy = task[p].busy
    BY <2>4, <2>5, Zenon
  <2>7. {task'[p].live, task'[p].busy, task'[p].killed} \subseteq BOOLEAN /\ task'[p].live
    <3>1. {task[p].live, task[p].busy} \subseteq BOOLEAN
      BY <1>1 DEF TasksInv
    <3>2. QED BY <2>2, <2>4, <2>6, <3>1, Zenon
  <2>8. task'[p].left \in Seq(ProbeNames) /\ (~task'[p].busy => task'[p].left = <<>> /\ task'[p].out = <<>>)
    <3>1. task[p].left \in Seq(ProbeNames) /\ (~task[p].busy => task[p].left = <<>> /\ task[p].out = <<>>)
      BY <1>1 DEF TasksInv
    <3>2. QED BY <2>6, <3>1, Zenon
  <2>9. Alike(p)
    BY <2>2, <2>4, <2>6, <2>7, <2>8 DEF Alike
  <2>10. QED BY <2>4, <2>6, <2>9
<1>6. ASSUME NEW p \in Pids PROVE Alike(p) /\ task'[p].out = task[p].out
  <2>1. CASE deny /\ p \in Victims(ev)
    BY <1>5, <2>1
  <2>2. CASE ~(deny /\ p \in Victims(ev))
    BY <1>3, <2>2 DEF Alike
  <2>3. QED BY <2>1, <2>2
<1>7. /\ TasksTypeOK' /\ TasksInv' /\ Lineage /\ Live' = Live
      /\ \A p \in Pids : task'[p].life = task[p].life /\ task'[p].tgid = task[p].tgid
      /\ \A p \in Pids : task[p].killed => task'[p].killed
  <2>1. DOMAIN task' = Pids
    BY <1>3
  <2>2. QED BY <1>1, <1>2, <1>6, <2>1, TasksAlike
<1>8. DenyStops'
  <2>1. ASSUME NEW p \in Live, p \in Pids, task[p].life \in denied PROVE task'[p].killed
    BY <1>1, <1>7, <2>1 DEF DenyStops
  <2>2. ASSUME deny, ev.type \in {"EXEC", "SYSCALL"}, ev.leader, ev.uid # 0, ev.pid # InitPid,
               NEW p \in Live, p \in Pids, task[p].life = ev.life
        PROVE  task'[p].killed
    <3>1. task[p].tgid = ev.pid
      BY <1>4, <2>2 DEF EventOK
    <3>2. ev.pid \in Live /\ IsLeader(ev.pid)
      BY <1>1, <2>2, <3>1 DEF TasksTypeOK, IsLeader, Live
    <3>3. p \in Victims(ev)
      BY <2>2, <3>1, <3>2 DEF Victims, Killed, Group, IsLeader, ShouldNotKill
    <3>4. QED BY <1>5, <2>2, <3>3
  <2>3. ASSUME NEW p \in Live', task'[p].life \in denied' PROVE task'[p].killed
    <3>1. p \in Live /\ p \in Pids /\ task[p].life \in denied'
      BY <1>7, <2>3 DEF Live
    <3>2. CASE task[p].life \in denied
      BY <2>1, <3>1, <3>2
    <3>3. CASE task[p].life \notin denied
      <4>1. /\ deny /\ ev.type \in {"EXEC", "SYSCALL"} /\ ev.leader
            /\ ev.uid # 0 /\ ev.pid # InitPid /\ task[p].life = ev.life
        BY <1>3, <3>1, <3>3
      <4>2. QED BY <2>2, <3>1, <4>1
    <3>4. QED BY <3>2, <3>3
  <2>4. QED BY <2>3 DEF DenyStops
<1>9. denied' \subseteq 1..lives
  <2>1. ev.type \in {"EXEC", "SYSCALL"} => ev.life \in 1..lives
    BY <1>1, <1>4 DEF EventOK
  <2>2. QED BY <1>1, <1>3, <2>1
<1>10. EventsStay
  <2>1. now <= now' /\ \A p \in Pids : owned[p] \subseteq owned'[p]
    BY <1>1, <1>2
  <2>2. QED BY <1>1, <1>2, <1>7, <2>1, EventKept DEF EventsStay
<1>11. EventsInv'
  BY <1>1, <1>2, <1>6, <1>10, Taking
<1>12. SlotsTypeOK' /\ WindowSpan' /\ SlotIsOfPid' /\ SlotsInv'
  BY <1>1, <1>2, <1>4, Counting
<1>13. Len(inbox') <= events'
  <2>1. Len(inbox') = Len(inbox) - 1 /\ Len(inbox) \in Nat
    BY <1>1, <1>2, TailsOf DEF EventsInv
  <2>2. Len(inbox) <= events
    BY <1>1 DEF TypeOK
  <2>3. QED BY <1>1, <1>2, <2>1, <2>2
<1>14. TypeOK'
  BY <1>1, <1>2, <1>7, <1>9, <1>12, <1>13 DEF TypeOK
<1>15. QED BY <1>7, <1>8, <1>11, <1>12, <1>14 DEF PathInv

-----------------------------------------------------------------------------
(* The invariant.                                                           *)

\* It holds at the start.
LEMMA InitHolds ==
  ASSUME PathInit
  PROVE  PathInv
<1>1. PICK threads \in {{2}, {2, 3}} :
        task = [p \in Pids |->
          IF p = InitPid THEN Process(p, 0, <<"/bin", "/init">>, 1)
          ELSE IF p \in threads THEN Process(2, 1000, <<"/bin", "/sh">>, 2)
          ELSE Gone]
  BY DEF PathInit
<1>2. /\ now = 0 /\ softirq = [c \in Cpus |-> <<>>] /\ inbox = <<>>
      /\ bufs = [i \in Slots |-> FreeSlot]
      /\ events = 0 /\ mix \in Mixes /\ lives = 2
      /\ owned = [p \in Pids |-> IF p \in Live THEN {task[p].life} ELSE {}]
      /\ denied = {}
  BY DEF PathInit
<1>3. /\ 1 \in Pids /\ threads \subseteq Pids \ {1} /\ 2 \in threads
      /\ Pids \subseteq Nat \ {0} /\ DOMAIN task = Pids
  BY <1>1, PathAssumption
<1>4. Ready(task[1], 1, 1)
  <2>1. task[1] = Process(1, 0, <<"/bin", "/init">>, 1)
    BY <1>1, <1>3 DEF InitPid
  <2>2. Ready(Process(1, 0, <<"/bin", "/init">>, 1), 1, 1)
    BY DEF Ready, Process, Gone
  <2>3. QED BY <2>1, <2>2, Zenon
<1>5. ASSUME NEW p \in threads PROVE p \in Pids /\ Ready(task[p], 2, 2)
  <2>1. task[p] = Process(2, 1000, <<"/bin", "/sh">>, 2)
    BY <1>1, <1>3, <1>5 DEF InitPid
  <2>2. Ready(Process(2, 1000, <<"/bin", "/sh">>, 2), 2, 2)
    BY DEF Ready, Process, Gone
  <2>3. Ready(task[p], 2, 2)
    BY <2>1, <2>2, Zenon
  <2>4. QED BY <1>3, <2>3
<1>6. \A p \in Pids \ ({1} \cup threads) : task[p] = Gone
  BY <1>1 DEF InitPid
<1>7. Live = {1} \cup threads
  <2>1. \A p \in {1} \cup threads : p \in Pids /\ task[p].live
    BY <1>3, <1>4, <1>5 DEF Ready
  <2>2. \A p \in Pids \ ({1} \cup threads) : ~task[p].live
    BY <1>6 DEF Gone
  <2>3. QED BY <2>1, <2>2 DEF Live
<1>8. \A p \in Live : /\ task[p].live /\ ~task[p].killed
                      /\ task[p].tgid = task[p].life /\ task[p].tgid \in Live
                      /\ task[p].life \in {1, 2}
                      /\ task[task[p].tgid].tgid = task[p].tgid
                      /\ task[task[p].tgid].life = task[p].life
  BY <1>3, <1>4, <1>5, <1>7 DEF Ready
<1>9. ASSUME NEW p \in Pids
      PROVE  /\ DOMAIN task[p] = DOMAIN Gone /\ (~task[p].live => task[p] = Gone)
             /\ {task[p].live, task[p].busy, task[p].killed} \subseteq BOOLEAN
             /\ task[p].left \in Seq(ProbeNames) /\ task[p].left = <<>> /\ task[p].out = <<>>
  <2>1. CASE p \in Live
    <3>1. Ready(task[p], task[p].tgid, task[p].life)
      BY <1>4, <1>5, <1>7, <2>1 DEF Ready
    <3>2. QED BY <1>8, <2>1, <3>1, ReadyIs DEF Ready
  <2>2. CASE p \notin Live
    BY <1>6, <1>7, <2>2, NobodyIs
  <2>3. QED BY <2>1, <2>2
<1>10. \A p \in Pids : owned[p] = IF p \in Live THEN {task[p].life} ELSE {}
  BY <1>2
<1>11. TasksTypeOK
  <2>1. ASSUME NEW p \in Pids, task[p].live
        PROVE  /\ task[p].tgid \in Live /\ task[p].life \in owned[p]
               /\ task[task[p].tgid].tgid = task[p].tgid
               /\ task[task[p].tgid].life = task[p].life
    <3>1. p \in Live
      BY <2>1 DEF Live
    <3>2. owned[p] = {task[p].life}
      BY <1>10, <3>1
    <3>3. QED BY <1>8, <3>1, <3>2
  <2>2. QED BY <1>9, <2>1 DEF TasksTypeOK
<1>12. owned \in [Pids -> SUBSET (1..lives)]
  <2>1. \A p \in Pids : owned[p] \subseteq 1..lives
    BY <1>2, <1>8, <1>10
  <2>2. owned = [p \in Pids |-> owned[p]]
    BY <1>2
  <2>3. QED BY <2>1, <2>2
<1>13. TasksInv
  BY <1>3, <1>8, <1>9, <1>12 DEF TasksInv
<1>14. DenyStops
  BY <1>2 DEF DenyStops
<1>15. EventsInv
  <2>1. Stamped = {} /\ OnCpu = {} /\ Range(inbox) = {} /\ DOMAIN softirq = Cpus
    BY <1>2, <1>9 DEF Stamped, OnCpu, Range
  <2>2. InFlight = {}
    BY <2>1 DEF InFlight
  <2>3. inbox \in Seq(Range(inbox)) /\ Len(inbox) = 0
    BY <1>2
  <2>4. IsFiniteSet(Stamped) /\ IsFiniteSet(OnCpu)
        /\ Cardinality(Stamped) = 0 /\ Cardinality(OnCpu) = 0
    BY <2>1, FS_EmptySet
  <2>5. QED BY <1>2, <2>1, <2>2, <2>3, <2>4 DEF EventsInv
<1>16. \A i \in Slots : bufs[i] = FreeSlot
  BY <1>2
<1>17. /\ FreeSlot.count \in [Counters -> Nat] /\ FreeSlot.window_start = 0
       /\ FreeSlot.span = {} /\ FreeSlot.lives = {} /\ ~FreeSlot.active
  BY DEF FreeSlot
<1>18. SlotsTypeOK /\ WindowSpan /\ SlotIsOfPid /\ SlotsInv
  <2>1. DOMAIN bufs = Slots /\ 0 \in 0..now
    BY <1>2
  <2>2. QED BY <1>16, <1>17, <2>1 DEF SlotsTypeOK, WindowSpan, SlotIsOfPid, SlotsInv
<1>19. TypeOK
  <2>1. mix.time \in Nat /\ mix.events \in Nat /\ MaxLives \in Nat \ {0, 1}
    BY <1>2, PathAssumption
  <2>2. now \in 0..mix.time /\ events \in 0..mix.events /\ Len(inbox) <= events
        /\ lives \in 2..MaxLives /\ denied \subseteq 1..lives
    BY <1>2, <2>1
  <2>3. QED BY <1>2, <1>11, <1>18, <2>2 DEF TypeOK
<1>20. QED BY <1>11, <1>13, <1>14, <1>15, <1>18, <1>19 DEF PathInv

\* Every step keeps it, and only the worker kills.
LEMMA StepKeeps ==
  ASSUME PathInv, [PathNext]_vars
  PROVE  PathInv' /\ (Judge \/ NobodyKilled)
<1>1. CASE UNCHANGED vars
  <2>1. /\ task' = task /\ now' = now /\ softirq' = softirq /\ inbox' = inbox /\ bufs' = bufs
        /\ events' = events /\ mix' = mix /\ lives' = lives /\ owned' = owned /\ denied' = denied
    BY <1>1 DEF vars
  <2>2. NobodyKilled
    BY <2>1 DEF NobodyKilled
  <2>3. /\ TypeOK /\ TasksInv /\ EventsInv /\ now \in now..mix.time /\ events \in 0..mix.events
    BY Numbers DEF PathInv, TypeOK
  <2>4. DOMAIN task' = Pids /\ \A p \in Pids : Alike(p) /\ task'[p].out = task[p].out
    BY <2>1, <2>3 DEF Alike, TasksInv
  <2>5. EventsStay => EventsInv'
    BY <2>1, <2>3, <2>4, FlightStays
  <2>6. QED BY <2>1, <2>2, <2>3, <2>4, <2>5, GoesOn
<1>2. CASE Tick
  BY <1>2, TickStep
<1>3. CASE \E p \in Pids : \E call \in mix.calls : Enter(p, call)
  BY <1>3, EnterStep
<1>4. CASE \E p \in Pids : Probe(p)
  BY <1>4, ProbeStep
<1>5. CASE \E p \in Pids : Send(p)
  BY <1>5, SendStep
<1>6. CASE \E p \in Pids : Return(p)
  BY <1>6, ReturnStep
<1>7. CASE \E p \in Pids : Exec(p)
  BY <1>7, ExecStep
<1>8. CASE \E p \in Pids : SetUid(p)
  BY <1>8, SetUidStep
<1>9. CASE \E p \in Pids : Exit(p)
  BY <1>9, ExitStep
<1>10. CASE \E p, q \in Pids : Clone(p, q)
  BY <1>10, CloneStep
<1>11. CASE \E c \in Cpus : SendIn(c)
  BY <1>11, SendInStep
<1>12. CASE \E c \in Cpus : \E call \in mix.packets : ComesIn(c, call)
  BY <1>12, ComesInStep
<1>13. CASE \E c \in Cpus : \E call \in mix.calls : SentAgain(c, call)
  BY <1>13, SentAgainStep
<1>14. CASE Judge
  BY <1>14, JudgeStep
<1>15. QED
  BY <1>1, <1>2, <1>3, <1>4, <1>5, <1>6, <1>7, <1>8, <1>9, <1>10, <1>11, <1>12, <1>13, <1>14
  DEF PathNext

\* The invariant holds, for any pids, calls and policy and whatever the scores
\* are: in every interleaving of the probes, the calls' effects and the answers.
THEOREM PathInvariance == PathSpec => []PathInv
<1>1. PathInit => PathInv
  BY InitHolds
<1>2. PathInv /\ [PathNext]_vars => PathInv'
  BY StepKeeps
<1>3. QED BY <1>1, <1>2, PTL DEF PathSpec

\* Every task has a leader of its own process that lives, and there are no more
\* events on their way than were stamped.
THEOREM PathTypeCorrect == PathSpec => []TypeOK
<1>1. PathInv => TypeOK
  BY DEF PathInv
<1>2. QED BY <1>1, PathInvariance, PTL

\* A process whose leader a DENY answered in time does not go on, in whatever
\* program and as whatever user it runs by then.
THEOREM DeniedIsStopped == PathSpec => []DenyStops
<1>1. PathInv => DenyStops
  BY DEF PathInv
<1>2. QED BY <1>1, PathInvariance, PTL

\* A slot never counts events of more than one window, in whatever order they
\* arrive.
THEOREM OneWindow == PathSpec => []WindowSpan
<1>1. PathInv => WindowSpan
  BY DEF PathInv
<1>2. QED BY <1>1, PathInvariance, PTL

\* A slot never counts events of a process that did not have its pid, but for
\* SYNs the timer sends again: and then it counts outgoing packets.
THEOREM OwnCounts == PathSpec => []SlotIsOfPid
<1>1. PathInv => SlotIsOfPid
  BY DEF PathInv
<1>2. QED BY <1>1, PathInvariance, PTL

\* A kill hits who made the call, or who has its pid since.
THEOREM KillsAreConfined == PathSpec => KillsConfined
<1> DEFINE Hit(p) ==
      LET ev == Head(inbox) IN
      /\ ev.uid # 0 /\ ev.pid # InitPid /\ ev.pid = task[p].tgid
      /\ ev.life = task[p].life \/ {ev.life, task[p].life} \subseteq owned[ev.pid]
<1>1. ASSUME PathInv, [PathNext]_vars, NEW p \in Pids, task'[p].killed, ~task[p].killed
      PROVE  Hit(p)
  <2>1. Judge
    BY <1>1, StepKeeps DEF NobodyKilled
  <2>2. TasksTypeOK /\ TasksInv /\ EventsInv /\ inbox # <<>>
    BY <1>1, <2>1 DEF PathInv, TypeOK, Judge
  <2> DEFINE ev == Head(inbox)
  <2>3. p \in Victims(ev)
    BY <1>1, <2>1, <2>2, JudgeTasks
  <2>4. EventOK(ev)
    <3>1. ev \in Range(inbox)
      BY <2>2, TailsOf DEF EventsInv
    <3>2. QED BY <2>2, <3>1 DEF EventsInv, InFlight
  <2> HIDE DEF ev
  <2>5. /\ ev.type \in {"EXEC", "SYSCALL"} /\ ev.uid # 0 /\ ev.pid # InitPid
        /\ task[p].tgid = ev.pid /\ task[p].life \in owned[ev.pid]
    BY <2>2, <2>3, VictimsAre
  <2>6. ev.life \in owned[ev.pid]
    BY <2>4, <2>5 DEF EventOK, EvPid
  <2>7. QED BY <2>5, <2>6 DEF ev
<1>2. PathInv /\ [PathNext]_vars
        => [\A p \in Pids : task'[p].killed /\ ~task[p].killed => Hit(p)]_vars
  BY <1>1
<1>3. QED BY <1>2, PathInvariance, PTL DEF PathSpec, KillsConfined

\* An event is counted in a slot of its pid unless every slot is another's.
THEOREM CountedUnlessFull == PathSpec => ScoredUnlessFull
<1> DEFINE Scored ==
      LET pid == EvPid(Head(inbox)) IN
      \/ \E i \in Slots : bufs'[i].active /\ bufs'[i].pid = pid /\ Head(inbox).ts \in bufs'[i].span
      \/ \A i \in Slots : bufs[i].active /\ bufs[i].pid # pid
<1>1. ASSUME PathInv, Judge PROVE Scored
  <2> DEFINE ev == Head(inbox)
  <2>1. /\ TypeOK /\ SlotsTypeOK /\ WindowSpan /\ SlotIsOfPid /\ SlotsInv /\ EventsInv
        /\ now \in Nat /\ now + Window < TsModulus
        /\ lives \in Nat /\ owned \in [Pids -> SUBSET (1..lives)]
    BY <1>1, Numbers DEF PathInv, TypeOK, TasksInv
  <2>2. /\ inbox # <<>> /\ UNCHANGED <<now, owned>>
        /\ bufs' = AfterUpdate(AfterGet(bufs, EvPid(ev), ev.ts), SlotOf(bufs, EvPid(ev)), ev)
    BY <1>1 DEF Judge
  <2>3. EventOK(ev)
    <3>1. ev \in Range(inbox)
      BY <2>1, <2>2, TailsOf DEF EventsInv
    <3>2. QED BY <2>1, <3>1 DEF EventsInv, InFlight
  <2> HIDE DEF ev
  <2>4. \/ \E i \in Slots : bufs'[i].active /\ bufs'[i].pid = EvPid(ev) /\ ev.ts \in bufs'[i].span
        \/ \A i \in Slots : bufs[i].active /\ bufs[i].pid # EvPid(ev)
    BY <2>1, <2>2, <2>3, Counting
  <2>5. QED BY <2>4 DEF ev
<1>2. ASSUME PathInv, [PathNext]_vars, inbox # <<>>, inbox' = Tail(inbox) PROVE Judge
  <2>1. inbox \in Seq(Range(inbox))
    BY <1>2 DEF PathInv, EventsInv
  <2>2. inbox' # inbox /\ \A e : inbox' # Append(inbox, e)
    BY <1>2, <2>1, TailsOf, AppendsTo
  <2>3. \A e : ~Multicast(e)
    BY <2>2 DEF Multicast
  <2>4. ASSUME NEW p \in Pids
        PROVE  /\ \A call : ~Enter(p, call)
               /\ ~Probe(p) /\ ~Send(p) /\ ~Return(p) /\ ~Exec(p) /\ ~SetUid(p) /\ ~Exit(p)
               /\ \A q \in Pids : ~Clone(p, q)
    <3>1. \A call, probes : ~Pass(p, call, probes)
      BY <2>2 DEF Pass
    <3>2. (\A call : ~Enter(p, call)) /\ ~Probe(p)
      BY <3>1 DEF Enter, Probe
    <3>3. ~Send(p)
      BY <2>3 DEF Send
    <3>4. ~Return(p) /\ ~Exec(p) /\ ~SetUid(p) /\ ~Exit(p)
      BY <2>2 DEF Return, Exec, SetUid, Exit
    <3>5. \A q \in Pids : ~Clone(p, q)
      BY <2>2 DEF Clone
    <3>6. QED BY <3>2, <3>3, <3>4, <3>5
  <2>5. ~Tick /\ \A c \in Cpus : ~SendIn(c) /\ \A call : ~ComesIn(c, call) /\ ~SentAgain(c, call)
    <3>1. \A c, e : ~Stamp(c, e)
      BY <2>2 DEF Stamp
    <3>2. QED BY <2>2, <2>3, <3>1 DEF Tick, SendIn, ComesIn, SentAgain
  <2>6. ~UNCHANGED vars
    BY <2>2 DEF vars
  <2>7. QED BY <1>2, <2>4, <2>5, <2>6 DEF PathNext
<1>3. PathInv /\ [PathNext]_vars => [inbox # <<>> /\ inbox' = Tail(inbox) => Scored]_vars
  BY <1>1, <1>2
<1>4. QED BY <1>3, PathInvariance, PTL DEF PathSpec, ScoredUnlessFull

-----------------------------------------------------------------------------
(* What the server reads.                                                   *)

\* What AddNumbers has made of the object after n features.
AddSteps(object, features) ==
  CHOOSE add : add = [n \in 0..Len(features) |->
                        IF n = 0 THEN object
                        ELSE AddNumberToObject(add[n - 1], features[n][1], features[n][2])]

LEMMA AddLoop ==
  ASSUME NEW o, NEW fs, Len(fs) \in Nat
  PROVE  /\ AddSteps(o, fs)[0] = o
         /\ \A n \in 1..Len(fs) :
              AddSteps(o, fs)[n] = AddNumberToObject(AddSteps(o, fs)[n - 1], fs[n][1], fs[n][2])
         /\ AddNumbers(o, fs) = AddSteps(o, fs)[Len(fs)]
<1> DEFINE N == Len(fs)
           Added(x, n) == AddNumberToObject(x, fs[n][1], fs[n][2])
           Next1(g, n) == IF n = 0 THEN o ELSE Added(g[n - 1], n)
           Good(g, k) == \A n \in 0..k : g[n] = Next1(g, n)
           K == {k \in 0..N : \E g : Good(g, k)}
<1> HIDE DEF Added
<1>0. N \in Nat
  OBVIOUS
<1>1. 0 \in K
  <2> DEFINE g == [n \in {0} |-> o]
  <2>1. Good(g, 0)
    OBVIOUS
  <2> HIDE DEF Good
  <2>2. QED BY <2>1
<1>2. ASSUME NEW k \in 1..N, k - 1 \in K PROVE k \in K
  <2>1. PICK g : Good(g, k - 1)
    BY <1>2
  <2> DEFINE h == [n \in 0..k |-> IF n = k THEN Added(g[k - 1], k) ELSE g[n]]
  <2>2. ASSUME NEW n \in 0..k PROVE h[n] = Next1(h, n)
    <3>1. CASE n = 0
      BY <2>1, <3>1
    <3>2. CASE n \in 1..(k - 1)
      <4>1. n - 1 \in 0..k /\ n # k /\ n - 1 # k /\ n # 0 /\ n \in 0..(k - 1)
        BY <3>2
      <4>2. h[n] = g[n] /\ h[n - 1] = g[n - 1]
        BY <4>1
      <4>3. g[n] = Added(g[n - 1], n)
        BY <2>1, <4>1
      <4> HIDE DEF h
      <4>4. QED BY <4>1, <4>2, <4>3
    <3>3. CASE n = k
      <4>1. k - 1 \in 0..k /\ k - 1 # k /\ k # 0 /\ k \in 0..k
        OBVIOUS
      <4>2. h[k - 1] = g[k - 1] /\ h[k] = Added(g[k - 1], k)
        BY <4>1
      <4> HIDE DEF h
      <4>3. QED BY <3>3, <4>1, <4>2
    <3>4. QED BY <3>1, <3>2, <3>3
  <2> HIDE DEF h
  <2>3. Good(h, k)
    BY <2>2
  <2> HIDE DEF Good
  <2>4. QED BY <2>3
<1>3. N \in K
  <2> HIDE DEF K, N
  <2>1. N \in 0..N
    BY <1>0
  <2>2. QED BY <1>0, <1>1, <1>2, <2>1, UpTo
<1>4. \E g : g = [n \in 0..N |-> Next1(g, n)]
  <2>1. PICK g : Good(g, N)
    BY <1>3
  <2> DEFINE h == [n \in 0..N |-> g[n]]
  <2>2. ASSUME NEW n \in 0..N PROVE h[n] = Next1(h, n)
    <3>1. n # 0 => n - 1 \in 0..N
      BY <1>0
    <3>2. h[n] = g[n] /\ (n # 0 => h[n - 1] = g[n - 1])
      BY <3>1
    <3>3. g[n] = Next1(g, n)
      BY <2>1
    <3> HIDE DEF h
    <3>4. QED BY <3>2, <3>3
  <2>3. h = [n \in 0..N |-> h[n]]
    OBVIOUS
  <2> HIDE DEF h, N
  <2>4. h = [n \in 0..N |-> Next1(h, n)]
    BY <2>2, <2>3
  <2>5. QED BY <2>4
<1> DEFINE after == AddSteps(o, fs)
<1>5. after = [n \in 0..N |-> Next1(after, n)]
  BY <1>4, Zenon DEF AddSteps, Added
<1>6. AddNumbers(o, fs) = after[N]
  BY Zenon DEF AddNumbers, AddSteps
<1> HIDE DEF after
<1>7. \A n \in 0..N : after[n] = Next1(after, n)
  BY <1>5
<1>8. \A n \in 1..N : n \in 0..N /\ n # 0
  BY <1>0
<1>9. QED BY <1>0, <1>6, <1>7, <1>8 DEF after, Added

\* The first k members.
FirstItems(ms, k) == [i \in 1..k |-> NumberItem(ms[i])]

LEMMA AddsOne ==
  ASSUME NEW o, o.type = "Object", NEW m, <<m[1]>> # NoName
  PROVE  AddNumberToObject(o, m[1], m[2]) = [o EXCEPT !.child = Append(@, NumberItem(m))]
<1>1. NULL.type = "NULL pointer"
  BY DEF NULL, New_Item
<1>2. o # NULL /\ NumberItem(m) # NULL
  BY <1>1, NumberItemIs
<1>3. AddNumberToObject(o, m[1], m[2]) = AddItemToArray(o, NumberItem(m))
  BY Zenon DEF AddNumberToObject, AddItemToObject, NumberItem
<1>4. QED BY <1>2, <1>3 DEF AddItemToArray

LEMMA MoreItems ==
  ASSUME NEW ms, NEW k \in Nat \ {0}
  PROVE  Append(FirstItems(ms, k - 1), NumberItem(ms[k])) = FirstItems(ms, k)
<1> DEFINE S == {NumberItem(ms[i]) : i \in 1..k}
           a == FirstItems(ms, k - 1)
           b == FirstItems(ms, k)
           x == NumberItem(ms[k])
<1>1. /\ a \in [1..(k - 1) -> S] /\ b \in [1..k -> S] /\ x \in S
      /\ b[k] = x /\ \A i \in 1..(k - 1) : a[i] = b[i]
  BY DEF FirstItems
<1> HIDE DEF S, a, b, x
<1>2. k - 1 \in Nat /\ k \in Nat
  OBVIOUS
<1>3. a \in Seq(S) /\ Len(a) = k - 1 /\ b \in Seq(S) /\ Len(b) = k
  BY <1>1, <1>2
<1>4. /\ Append(a, x) \in Seq(S) /\ Len(Append(a, x)) = Len(a) + 1
      /\ \A i \in 1..Len(a) : Append(a, x)[i] = a[i]
      /\ Append(a, x)[Len(a) + 1] = x
  BY <1>1, <1>3, AppendProperties
<1>5. \A i \in 1..k : i = k \/ i \in 1..(k - 1)
  OBVIOUS
<1>6. \A i \in 1..Len(b) : Append(a, x)[i] = b[i]
  BY <1>1, <1>3, <1>4, <1>5
<1>7. Len(Append(a, x)) = Len(b)
  BY <1>2, <1>3, <1>4
<1>8. Append(a, x) = b
  BY <1>3, <1>4, <1>6, <1>7, SeqEqual
<1>9. QED BY <1>8 DEF a, b, x

\* Numbers that are added to an empty object make the object of them.
LEMMA AddsNumbers ==
  ASSUME NEW ms, Len(ms) \in Nat, \A m \in 1..Len(ms) : <<ms[m][1]>> # NoName
  PROVE  AddNumbers(CreateObject, ms) = NumbersObject(ms)
<1> DEFINE N == Len(ms)
           J == AddSteps(CreateObject, ms)
           With(k) == [CreateObject EXCEPT !.child = FirstItems(ms, k)]
           S == {k \in 0..N : J[k] = With(k)}
<1>1. /\ N \in Nat /\ J[0] = CreateObject /\ AddNumbers(CreateObject, ms) = J[N]
      /\ \A n \in 1..N : J[n] = AddNumberToObject(J[n - 1], ms[n][1], ms[n][2])
  BY AddLoop
<1> HIDE DEF J, N
<1>2. 0 \in S
  <2>1. FirstItems(ms, 0) = <<>>
    <3>1. FirstItems(ms, 0) \in [1..0 -> {}]
      BY DEF FirstItems
    <3>2. FirstItems(ms, 0) \in Seq({}) /\ Len(FirstItems(ms, 0)) = 0
      BY <3>1
    <3>3. QED BY <3>2, EmptySeq
  <2>2. CreateObject = [type |-> "Object", string |-> NoName, valuestring |-> <<>>,
                        valuedouble |-> 0, child |-> <<>>]
    BY DEF CreateObject, New_Item
  <2>3. [CreateObject EXCEPT !.child = <<>>] = CreateObject
    BY <2>2
  <2>4. QED BY <1>1, <2>1, <2>3
<1>3. ASSUME NEW k \in 1..N, k - 1 \in S PROVE k \in S
  <2>1. J[k - 1] = With(k - 1) /\ k \in 0..N /\ k \in Nat \ {0}
    BY <1>1, <1>3
  <2>2. With(k - 1).type = "Object" /\ With(k - 1).child = FirstItems(ms, k - 1)
    BY DEF CreateObject, New_Item
  <2>3. [With(k - 1) EXCEPT !.child = FirstItems(ms, k)] = With(k)
    BY DEF CreateObject, New_Item
  <2> HIDE DEF With
  <2>4. <<ms[k][1]>> # NoName
    BY DEF N
  <2>5. AddNumberToObject(With(k - 1), ms[k][1], ms[k][2])
          = [With(k - 1) EXCEPT !.child = Append(With(k - 1).child, NumberItem(ms[k]))]
    BY <2>2, <2>4, AddsOne
  <2>6. Append(With(k - 1).child, NumberItem(ms[k])) = FirstItems(ms, k)
    BY <2>1, <2>2, MoreItems
  <2>7. J[k] = AddNumberToObject(With(k - 1), ms[k][1], ms[k][2])
    BY <1>1, <2>1
  <2>8. J[k] = With(k)
    BY <2>3, <2>5, <2>6, <2>7
  <2>9. QED BY <2>1, <2>8
<1>4. N \in S
  <2> HIDE DEF S
  <2>1. N \in 0..N
    BY <1>1
  <2>2. QED BY <1>1, <1>2, <1>3, <2>1, UpTo
<1>5. FirstItems(ms, N) = NumbersFrom(ms, 1)
  <2>1. N - 1 + 1 = N /\ \A i \in 1..N : i + 1 - 1 = i
    BY <1>1
  <2>2. QED BY <2>1 DEF FirstItems, NumbersFrom, N
<1>6. QED BY <1>1, <1>4, <1>5 DEF NumbersObject

\* Of the members, one has the name, and those that have it have the number.
Gives(ms, f, v) ==
  /\ Len(ms) \in Nat /\ \A m \in 1..Len(ms) : <<ms[m][1]>> # NoName
  /\ <<f>> # NoName
  /\ \E m \in 1..Len(ms) : ms[m][1] = f
  /\ \A m \in 1..Len(ms) : ms[m][1] = f => ms[m][2] = v

\* The lookup of the name in the object then finds the number.
LEMMA NumberOf ==
  ASSUME NEW ms, NEW f, NEW v, Gives(ms, f, v)
  PROVE  /\ GetObjectItemCaseSensitive(NumbersObject(ms), <<f>>) # NULL
         /\ GetObjectItemCaseSensitive(NumbersObject(ms), <<f>>).valuedouble = v
<1>0. /\ Len(ms) \in Nat /\ \A m \in 1..Len(ms) : <<ms[m][1]>> # NoName
      /\ <<f>> # NoName
      /\ \E m \in 1..Len(ms) : ms[m][1] = f
      /\ \A m \in 1..Len(ms) : ms[m][1] = f => ms[m][2] = v
  BY DEF Gives
<1> DEFINE object == NumbersObject(ms)
           S == {m \in 1..Len(ms) : ms[m][1] = f}
<1>1. /\ DOMAIN object.child = 1..Len(ms) /\ Len(object.child) = Len(ms)
      /\ \A i \in 1..Len(ms) : object.child[i] = NumberItem(ms[i])
  <2>1. object.child = NumbersFrom(ms, 1)
    BY DEF NumbersObject, CreateObject, New_Item
  <2>2. Len(ms) - 1 + 1 = Len(ms) /\ \A i \in 1..Len(ms) : i + 1 - 1 = i
    BY <1>0
  <2>3. NumbersFrom(ms, 1) = [i \in 1..Len(ms) |-> NumberItem(ms[i])]
    BY <2>2 DEF NumbersFrom
  <2>4. QED BY <1>0, <2>1, <2>3
<1> HIDE DEF object
<1>2. PICK i \in S : \A m \in S : i <= m
  <2>1. S \in SUBSET Nat /\ S # {}
    BY <1>0
  <2>2. QED BY <2>1, Least
<1>3. i \in 1..Len(ms) /\ i \in Nat /\ ms[i][1] = f /\ ms[i][2] = v
  BY <1>0, <1>2
<1>4. FirstAt(object, f, i)
  <2>1. object.child[i].string = <<f>>
    BY <1>1, <1>3, NumberItemIs
  <2>2. ASSUME NEW j \in 1..(i - 1) PROVE object.child[j].string \notin {NoName, <<f>>}
    <3>1. j \in 1..Len(ms) /\ ~(i <= j)
      BY <1>0, <1>3
    <3>2. ms[j][1] # f
      BY <1>2, <3>1
    <3>3. object.child[j].string = <<ms[j][1]>> /\ <<ms[j][1]>> # NoName
      BY <1>0, <1>1, <3>1, NumberItemIs
    <3>4. <<ms[j][1]>> # <<f>>
      BY <3>2
    <3>5. QED BY <3>3, <3>4
  <2>3. QED BY <1>1, <1>3, <2>1, <2>2 DEF FirstAt
<1>5. GetObjectItemCaseSensitive(object, <<f>>) = NumberItem(ms[i])
  BY <1>0, <1>1, <1>3, <1>4, ItemAt
<1>6. NULL.type = "NULL pointer"
  BY DEF NULL, New_Item
<1>7. NumberItem(ms[i]) # NULL /\ NumberItem(ms[i]).valuedouble = v
  BY <1>3, <1>6, NumberItemIs
<1>8. QED BY <1>5, <1>7 DEF object

\* The features that are sent: each is one of the server's and has the value
\* that the server takes it to have, and none of the server's is left out.
SentFeatures(slot) == FeaturesAs(slot, "net_unique_dst_ip", "net_unique_dst_port")

LEMMA SentAre ==
  ASSUME NEW slot
  PROVE  /\ Len(SentFeatures(slot)) = 16
         /\ \A m \in 1..16 : LET s == SentFeatures(slot)[m]
                             IN s[1] \in Features /\ s[2] = Meaning(slot)[s[1]]
         /\ \A f \in Features : \E m \in 1..16 : SentFeatures(slot)[m][1] = f
<1> DEFINE F == SentFeatures(slot)
           Right(m) == F[m][1] \in Features /\ F[m][2] = Meaning(slot)[F[m][1]]
<1>1. Len(F) = 16
  BY DEF SentFeatures, FeaturesAs
<1>2. \A f \in ScCounters \cup {"net_packet_out_count", "net_packet_in_count",
                 "net_dns_count", "net_suspicious_port_count", "net_tcp_flags_anomaly"} :
        f \in Features /\ Meaning(slot)[f] = slot.count[f]
  BY DEF Features, Meaning, ScCounters
<1>3. /\ {"net_unique_dst_ip", "net_unique_dst_port", "net_mean_packet_len"} \subseteq Features
      /\ Meaning(slot)["net_unique_dst_ip"] = slot.count["net_unique_dst_ips"]
      /\ Meaning(slot)["net_unique_dst_port"] = slot.count["net_unique_dst_ports"]
      /\ Meaning(slot)["net_mean_packet_len"] = Mean(slot)
  BY DEF Features, Meaning
<1>4. \A m \in 1..16 : Right(m)
  <2>1. Right(1) /\ Right(2) /\ Right(3) /\ Right(4) /\ Right(5) /\ Right(6) /\ Right(7) /\ Right(8)
    BY <1>2 DEF SentFeatures, FeaturesAs, ScCounters
  <2>2. Right(9) /\ Right(10) /\ Right(11) /\ Right(12) /\ Right(16)
    BY <1>2 DEF SentFeatures, FeaturesAs
  <2>3. Right(13) /\ Right(14) /\ Right(15)
    BY <1>3 DEF SentFeatures, FeaturesAs
  <2> HIDE DEF Right
  <2>4. \A m \in 1..16 : m \in {1, 2, 3, 4, 5, 6, 7, 8, 9, 10, 11, 12, 13, 14, 15, 16}
    OBVIOUS
  <2>5. QED BY <2>1, <2>2, <2>3, <2>4
<1>5. ASSUME NEW f \in Features PROVE \E m \in 1..16 : F[m][1] = f
  <2>1. f \in {F[m][1] : m \in 1..16}
    <3>1. {F[1][1], F[2][1], F[3][1], F[4][1], F[5][1], F[6][1], F[7][1], F[8][1], F[9][1], F[10][1],
           F[11][1], F[12][1], F[13][1], F[14][1], F[15][1], F[16][1]} \subseteq {F[m][1] : m \in 1..16}
      <4> HIDE DEF F
      <4> QED OBVIOUS
    <3>2. f \in {F[1][1], F[2][1], F[3][1], F[4][1], F[5][1], F[6][1], F[7][1], F[8][1], F[9][1], F[10][1],
           F[11][1], F[12][1], F[13][1], F[14][1], F[15][1], F[16][1]}
      BY DEF SentFeatures, FeaturesAs, Features, ScCounters
    <3>3. QED BY <3>1, <3>2
  <2>2. QED BY <2>1
<1>6. QED BY <1>1, <1>4, <1>5

\* Whatever a slot counts, the server reads what is meant.
LEMMA ServerReadsSlot ==
  ASSUME NEW slot
  PROVE  ServerReads(PrintUnformatted(Payload(slot))) = Meaning(slot)
<1> DEFINE F == SentFeatures(slot)
<1> HIDE DEF F
<1>1. /\ Len(F) = 16 /\ \A m \in 1..Len(F) : F[m][1] \in Features /\ F[m][2] = Meaning(slot)[F[m][1]]
      /\ \A f \in Features : \E m \in 1..Len(F) : F[m][1] = f
  <2>1. /\ Len(F) = 16 /\ \A m \in 1..16 : F[m][1] \in Features /\ F[m][2] = Meaning(slot)[F[m][1]]
        /\ \A f \in Features : \E m \in 1..16 : F[m][1] = f
    BY SentAre DEF F
  <2>2. QED BY <2>1
<1>2. \A f \in Features : <<f>> # NoName
  <2>1. "" \notin Features
    BY Zenon DEF Features, ScCounters
  <2>2. \A f : <<f>> = NoName => f = <<"">>[1]
    BY DEF NoName
  <2>3. QED BY <2>1, <2>2
<1>3. Len(F) \in Nat /\ \A m \in 1..Len(F) : <<F[m][1]>> # NoName
  BY <1>1, <1>2
<1>4. Payload(slot) = NumbersObject(F)
  <2>1. Payload(slot) = AddNumbers(CreateObject, F)
    BY DEF Payload, F, SentFeatures
  <2>2. QED BY <1>3, <2>1, AddsNumbers
<1> DEFINE data == Parse(PrintUnformatted(Payload(slot)))
<1>5. data = NumbersObject(F)
  BY <1>3, <1>4, NumbersSurvive
<1> HIDE DEF data
<1>6. ASSUME NEW f \in Features
      PROVE  LET item == GetObjectItemCaseSensitive(data, <<f>>)
             IN (IF item = NULL THEN 0 ELSE item.valuedouble) = Meaning(slot)[f]
  <2> DEFINE v == Meaning(slot)[f]
             item == GetObjectItemCaseSensitive(NumbersObject(F), <<f>>)
  <2>1. Gives(F, f, v)
    BY <1>1, <1>2, <1>3 DEF Gives
  <2> HIDE DEF v
  <2>2. item # NULL /\ item.valuedouble = v
    BY <2>1, NumberOf
  <2>3. QED BY <1>5, <2>2 DEF v
<1>7. ServerReads(PrintUnformatted(Payload(slot)))
        = [f \in Features |-> LET item == GetObjectItemCaseSensitive(data, <<f>>)
                              IN IF item = NULL THEN 0 ELSE item.valuedouble]
  BY Zenon DEF ServerReads, data
<1>8. Meaning(slot) = [f \in Features |-> Meaning(slot)[f]]
  BY DEF Meaning
<1>9. QED BY <1>6, <1>7, <1>8

\* In every state the server reads from what the daemon prints of a slot each
\* feature it knows, with the value the slot has for it.  This holds of any
\* slot, and so needs no invariant: it is a property of the object that the
\* client builds, of the printer and the parser, and of the lookup by name.
THEOREM ServerReadsAll == PathSpec => []ServerReadsCounts
<1>1. ServerReadsCounts
  BY ServerReadsSlot DEF ServerReadsCounts
<1>2. QED BY <1>1, PTL

=============================================================================
