------------------------------ MODULE MlBuffer ------------------------------
(***************************************************************************)
(* What the daemon remembers of each pid and tells the ML server           *)
(* (daemon/ml_service/ml_buffer.c and ml_client.c; ml/ml_server.py).       *)
(*                                                                         *)
(* A table has a slot per pid with counters of the pid's events in a       *)
(* window of time; a slot is never freed.  For a score the counters are    *)
(* sent as a JSON object, from which the server takes features by name.    *)
(* A slot also records, for the properties, the time span of the events it *)
(* counts and the processes that caused them.                              *)
(***************************************************************************)
EXTENDS CJson, SequencesExt

CONSTANTS
  MaxPids,       \* ML_MAX_PIDS
  Window,        \* ML_WINDOW_NS
  TsModulus      \* timestamps are unsigned: differences wrap modulo 2^64

ASSUME BufferAssumption ==
  /\ MaxPids \in Nat \ {0} /\ Window \in Nat /\ TsModulus \in Nat \ {0}

Slots == 1..MaxPids
NoSlot == 0

ScCounters == {"sc_exec_count", "sc_memfd_count", "sc_mprotect_x_count",
  "sc_mmap_x_count", "sc_priv_change_count", "sc_clone_count",
  "sc_namespace_count", "sc_socket_create_count"}
NetCounters == {"net_packet_out_count", "net_packet_in_count", "net_dns_count",
  "net_suspicious_port_count", "net_unique_dst_ips", "net_unique_dst_ports",
  "net_tcp_flags_anomaly"}

Counters == ScCounters \cup NetCounters

\* A slot as memset leaves it, and one whose window starts.
FreeSlot == [active |-> FALSE, pid |-> 0, window_start |-> 0,
             count |-> [c \in Counters |-> 0],
             net_total_packet_len |-> 0, span |-> {}, lives |-> {}]
NewSlot(pid, ts) == [FreeSlot EXCEPT !.active = TRUE, !.pid = pid, !.window_start = ts]

\* Slip: the difference is signed.
ExpiredSlip(slot, ts) == ts - slot.window_start > Window
\* An event from before the window looks 2^64 later: it starts a new window.
Expired(slot, ts) == (ts - slot.window_start) % TsModulus > Window

First(P(_)) == IF \E i \in Slots : P(i)
               THEN CHOOSE i \in Slots : P(i) /\ \A j \in 1..(i - 1) : ~P(j)
               ELSE NoSlot
Find(bufs, pid) == First(LAMBDA i : bufs[i].active /\ bufs[i].pid = pid)
\* Slip: the last slot is never taken.
FreeIndexSlip(bufs) == First(LAMBDA i : ~bufs[i].active /\ i < MaxPids)
FreeIndex(bufs) == First(LAMBDA i : ~bufs[i].active)

\* ml_buf_get: the slot of the pid (NoSlot if the table is full), and the table.
SlotOf(bufs, pid) ==
  IF Find(bufs, pid) # NoSlot THEN Find(bufs, pid) ELSE FreeIndex(bufs)
AfterGet(bufs, pid, ts) ==
  LET i == SlotOf(bufs, pid) IN
  IF i = NoSlot THEN bufs
  ELSE IF bufs[i].active /\ ~Expired(bufs[i], ts) THEN bufs
  ELSE [bufs EXCEPT ![i] = NewSlot(pid, ts)]

\* ntohs, on a port that is in host order already.
Ntohs(port) == (port % 256) * 256 + port \div 256
CountsAsSuspicious(port) == Ntohs(port) < 1024 \/ Ntohs(port) \in {4444, 1337, 31337}

\* The counters ml_buf_update increments for an event.
Counted(ev) ==
  CASE ev.type = "EXEC"      -> {"sc_exec_count"}
    [] ev.type = "PACKET_IN" -> {"net_packet_in_count"}
    [] ev.type = "DNS"       -> {"net_dns_count"}
    [] ev.type = "PACKET"    ->
         {"net_packet_out_count", "net_unique_dst_ips", "net_unique_dst_ports"}
         \cup {c \in {"net_tcp_flags_anomaly"} :
                 ev.protocol = "tcp" /\ "syn" \in ev.tcp_flags /\ "ack" \notin ev.tcp_flags}
         \cup {c \in {"net_suspicious_port_count"} : CountsAsSuspicious(ev.dst_port)}
    [] ev.type = "SYSCALL"   ->
         (CASE ev.subtype = "MEMFD_CREATE"  -> {"sc_memfd_count"}
            [] ev.subtype = "MPROTECT_X"    -> {"sc_mprotect_x_count"}
            [] ev.subtype = "MMAP_X"        -> {"sc_mmap_x_count"}
            [] ev.subtype = "PRIV_CHANGE"   -> {"sc_priv_change_count"}
            [] ev.subtype = "CLONE_FAMILY"  -> {"sc_clone_count"}
            [] ev.subtype \in {"UNSHARE", "SETNS"} -> {"sc_namespace_count"}
            [] ev.subtype = "SOCKET_CREATE" -> {"sc_socket_create_count"})

\* ml_buf_update, on a slot.
Updated(slot, ev) ==
  [slot EXCEPT
     !.count = [c \in Counters |-> IF c \in Counted(ev) THEN @[c] + 1 ELSE @[c]],
     !.net_total_packet_len = IF ev.type = "PACKET" THEN @ + ev.len ELSE @,
     !.span = @ \cup {ev.ts},
     !.lives = @ \cup {ev.life}]

AfterUpdate(bufs, i, ev) == IF i = NoSlot THEN bufs ELSE [bufs EXCEPT ![i] = Updated(@, ev)]

-----------------------------------------------------------------------------
Mean(slot) ==
  LET n == slot.count["net_packet_out_count"] IN
  IF n > 0 THEN slot.net_total_packet_len \div n ELSE 0

\* cJSON_AddNumberToObject for each feature, a name and a number, in turn.
AddNumbers(object, features) ==
  LET add[n \in 0..Len(features)] ==
        IF n = 0 THEN object
        ELSE AddNumberToObject(add[n - 1], features[n][1], features[n][2])
  IN add[Len(features)]

\* The features of a slot, with these names for two of them.
FeaturesAs(slot, ip, port) ==
  LET same(c) == <<c, slot.count[c]>> IN
  <<same("sc_exec_count"), same("sc_memfd_count"), same("sc_mprotect_x_count"),
    same("sc_mmap_x_count"), same("sc_priv_change_count"), same("sc_clone_count"),
    same("sc_namespace_count"), same("sc_socket_create_count"),
    same("net_packet_out_count"), same("net_packet_in_count"),
    same("net_dns_count"), same("net_suspicious_port_count"),
    <<ip, slot.count["net_unique_dst_ips"]>>,
    <<port, slot.count["net_unique_dst_ports"]>>,
    <<"net_mean_packet_len", Mean(slot)>>, same("net_tcp_flags_anomaly")>>

\* Slip: the features are called what the fields are called.
PayloadSlip(slot) ==
  AddNumbers(CreateObject, FeaturesAs(slot, "net_unique_dst_ips", "net_unique_dst_ports"))
\* What ml_client_infer sends of a slot.
Payload(slot) ==
  AddNumbers(CreateObject, FeaturesAs(slot, "net_unique_dst_ip", "net_unique_dst_port"))

\* SYSCALL_FEATURES and NETWORK_FEATURES of the server: what a name it misses
\* stands for is 0.0.
Features == ScCounters \cup {"net_packet_out_count", "net_packet_in_count",
  "net_dns_count", "net_suspicious_port_count", "net_unique_dst_ip",
  "net_unique_dst_port", "net_mean_packet_len", "net_tcp_flags_anomaly"}
ServerReads(text) ==
  LET data == Parse(text) IN
  [f \in Features |->
     LET item == GetObjectItemCaseSensitive(data, <<f>>)
     IN IF item = NULL THEN 0 ELSE item.valuedouble]

\* What a feature is meant to be.
Meaning(slot) ==
  [f \in Features |->
     CASE f = "net_unique_dst_ip"   -> slot.count["net_unique_dst_ips"]
       [] f = "net_unique_dst_port" -> slot.count["net_unique_dst_ports"]
       [] f = "net_mean_packet_len" -> Mean(slot)
       [] OTHER -> slot.count[f]]

=============================================================================
