------------------------------ MODULE DropList ------------------------------
(***************************************************************************)
(* How a DENY stops packets (kernel/qks_enforce.c, kernel/qks_netfilter.c).*)
(*                                                                         *)
(* Three netfilter hooks look at the packets that leave or enter the       *)
(* machine.  A hook drops a packet whose key is on the drop list; else it  *)
(* lets the packet go at once and, if the packet is of interest, reports   *)
(* an event.  The verdict comes later: a DENY of the event puts a key on   *)
(* the list for TTL jiffies, so what it stops is the packets to come.      *)
(*                                                                         *)
(* Every operation on the list holds qks_drop_lock, so it is one step.  It *)
(* reads jiffies once or twice; a tick between the two reads has the same  *)
(* outcome as a tick before both.  jiffies has 64 bits (the module builds  *)
(* for x86_64 only), so it does not wrap.                                  *)
(***************************************************************************)
EXTENDS Integers, FiniteSets

CONSTANTS
  Pids,          \* threads packets are sent from; 0 is no process's context
  Ips,           \* remote addresses
  Ports,         \* remote and local ports
  Suspicious,    \* the ports is_suspicious_port knows
  TTL,           \* how long a DENY lasts: 30000 ms in jiffies
  MaxPending,    \* bound: connections whose events wait for a verdict
  MaxTime        \* bound: jiffies

DnsPort == 53

ASSUME DropAssumption ==
  /\ Pids \subseteq Nat /\ 0 \in Pids
  /\ Ports \subseteq Nat /\ DnsPort \in Ports /\ Suspicious \subseteq Ports
  /\ TTL \in Nat \ {0} /\ MaxPending \in Nat /\ MaxTime \in Nat

VARIABLES
  now,        \* jiffies
  expires,    \* qks_drop_ht: when each listed key expires
  waiting,    \* events that wait for a verdict
  hook        \* the last packet looked up in the list, and its fate

dropVars == <<now, expires, waiting, hook>>

Protos    == {"tcp", "udp"}
Keys      == [pid : Pids, ip : Ips, port : Ports, proto : Protos]
\* An event of a hook; key holds pkt_pid and the remote address and port.  Of a
\* packet that is sent it is what the packet was looked up by; no process is
\* known of one that arrives.
Events    ==
  [type : {"PACKET"},    key : {k \in Keys : k.proto = "tcp"}] \cup
  [type : {"DNS"},       key : {k \in Keys : k.proto = "udp" /\ k.port = DnsPort}] \cup
  [type : {"PACKET_IN"}, key : {k \in Keys : k.pid = 0}]
NotListed == -1
NoHook    == [looked |-> FALSE]

DropTypeOK ==
  /\ now \in Nat
  /\ expires \in [Keys -> Nat \cup {NotListed}]
  /\ waiting \in SUBSET Events
  /\ IsFiniteSet(waiting) /\ Cardinality(waiting) <= MaxPending
  /\ hook \in {NoHook} \cup
       [looked : {TRUE}, key : Keys, inbound : BOOLEAN, drop : BOOLEAN]

DropInit ==
  /\ now = 0
  /\ expires = [k \in Keys |-> NotListed]
  /\ waiting = {}
  /\ hook = NoHook

-----------------------------------------------------------------------------
(* The list.                                                                *)

\* qks_drop_purge_expired_locked: time_after_eq(now, e->expires)
Purged == [k \in Keys |-> IF now >= expires[k] THEN NotListed ELSE expires[k]]

\* Slip: a second DENY adds its time to what is left of the first.
DropAddStacks(k) ==
  expires' = [Purged EXCEPT ![k] = IF @ = NotListed THEN now + TTL ELSE @ + TTL]

\* qks_drop_add: purge, then refresh the key's entry, or insert one if there
\* is memory for it.
DropAdd(k) ==
  \/ expires' = [Purged EXCEPT ![k] = now + TTL]
  \/ Purged[k] = NotListed /\ expires' = Purged

\* qks_drop_should_block
ShouldBlock(k) == Purged[k] # NotListed /\ now < Purged[k]

-----------------------------------------------------------------------------
(* The hooks.                                                               *)

Lookup(k, inbound) ==
  /\ expires' = Purged
  /\ hook' = [looked |-> TRUE, key |-> k, inbound |-> inbound, drop |-> ShouldBlock(k)]

\* qks_send_msg, if a listener is there to judge the event.
Report(ev) ==
  \/ /\ Cardinality(waiting \cup {ev}) <= MaxPending
     /\ waiting' = waiting \cup {ev}
  \/ UNCHANGED waiting

\* qks_nf_hook, for a TCP SYN without ACK that is sent; it accepts all else.
NfHook(pid, ip, srcp, dstp) ==
  LET key == [pid |-> pid, ip |-> ip, port |-> dstp, proto |-> "tcp"]
  IN  /\ Lookup(key, FALSE)
      /\ IF ~ShouldBlock(key) /\ {srcp, dstp} \cap Suspicious # {}
           THEN Report([type |-> "PACKET", key |-> key])
           ELSE UNCHANGED waiting
      /\ UNCHANGED now

\* Slip: every UDP packet is taken for a query.
DnsHookSlip(pid, ip, dstp, wellFormed) ==
  LET key == [pid |-> pid, ip |-> ip, port |-> dstp, proto |-> "udp"]
  IN  /\ Lookup(key, FALSE)
      /\ IF ~ShouldBlock(key) /\ wellFormed
           THEN Report([type |-> "DNS", key |-> key])
           ELSE UNCHANGED waiting
      /\ UNCHANGED now

\* qks_dns_hook, for a UDP packet that is sent: it accepts what does not go to
\* port 53.  wellFormed tells whether it holds a question whose name parses.
DnsHook(pid, ip, dstp, wellFormed) ==
  LET key == [pid |-> pid, ip |-> ip, port |-> dstp, proto |-> "udp"]
  IN  /\ dstp = DnsPort
      /\ Lookup(key, FALSE)
      /\ IF ~ShouldBlock(key) /\ wellFormed
           THEN Report([type |-> "DNS", key |-> key])
           ELSE UNCHANGED waiting
      /\ UNCHANGED now

\* qks_nf_hook_in, for a TCP SYN or a UDP packet that arrives.
NfHookIn(ip, srcp, dstp, proto) ==
  LET key == [pid |-> 0, ip |-> ip, port |-> srcp, proto |-> proto]
  IN  /\ Lookup(key, TRUE)
      /\ IF ~ShouldBlock(key) /\ {srcp, dstp} \cap Suspicious # {}
           THEN Report([type |-> "PACKET_IN", key |-> key])
           ELSE UNCHANGED waiting
      /\ UNCHANGED now

-----------------------------------------------------------------------------
(* The verdict.                                                             *)

\* The event's record goes; another event of that connection may still wait.
Answered(ev) ==
  /\ ev \in waiting
  /\ waiting' \in {waiting, waiting \ {ev}}

\* qks_apply_verdict(ev, QKS_DENY): qks_enforce_packet_deny and
\* qks_enforce_dns_deny list the event's key.  There is no case for
\* QKS_EVENT_PACKET_IN: "DENY (unknown type)" is logged and that is all.
ApplyDeny(ev) ==
  /\ Answered(ev)
  /\ IF ev.type \in {"PACKET", "DNS"}
       THEN DropAdd(ev.key)
       ELSE UNCHANGED expires
  /\ UNCHANGED <<now, hook>>

\* ALLOW, or no verdict in time: nothing is enforced.
ApplyNothing(ev) ==
  /\ Answered(ev)
  /\ UNCHANGED <<now, expires, hook>>

\* The timer interrupt.
Tick ==
  /\ now < MaxTime
  /\ now' = now + 1
  /\ UNCHANGED <<expires, waiting, hook>>

-----------------------------------------------------------------------------
DropNext ==
  \/ \E pid \in Pids, ip \in Ips, srcp, dstp \in Ports : NfHook(pid, ip, srcp, dstp)
  \/ \E pid \in Pids, ip \in Ips, dstp \in Ports, wellFormed \in BOOLEAN :
       DnsHook(pid, ip, dstp, wellFormed)
  \/ \E ip \in Ips, srcp, dstp \in Ports, proto \in Protos : NfHookIn(ip, srcp, dstp, proto)
  \/ \E ev \in waiting : ApplyDeny(ev) \/ ApplyNothing(ev)
  \/ Tick

DropSpec == DropInit /\ [][DropNext]_dropVars

-----------------------------------------------------------------------------
(* Properties.                                                              *)

\* How long the list will still hold a key.
Left == [k \in Keys |-> IF expires[k] > now THEN expires[k] - now ELSE 0]

Abs == INSTANCE Ban WITH left <- Left

\* The list with its lazy purges is a ban of TTL jiffies from the last DENY
\* of the key: a packet is dropped while the ban lasts, whatever was looked
\* up, added or purged since, and not one jiffy longer (lines 99-181).
ImplementsBan == Abs!Spec
=============================================================================
