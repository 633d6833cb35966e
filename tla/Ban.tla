-------------------------------- MODULE Ban --------------------------------
(***************************************************************************)
(* What the kernel's packet drop list promises ("drop subsequent outbound  *)
(* packets for a while after a DENY verdict", kernel/qks_enforce.c:72-75): *)
(* a denied key is banned for TTL ticks, counted from its last DENY, and a *)
(* packet is dropped exactly while the key it is looked up under is.       *)
(***************************************************************************)
EXTENDS Integers

CONSTANTS Keys, TTL

VARIABLES left,    \* ticks left of each key's ban
          hook     \* the last packet that was looked up, and its fate

NoHook == [looked |-> FALSE]

Init == left = [k \in Keys |-> 0] /\ hook = NoHook

Tick ==
  /\ left' = [k \in Keys |-> IF left[k] > 0 THEN left[k] - 1 ELSE 0]
  /\ UNCHANGED hook

Deny(k) == left' = [left EXCEPT ![k] = TTL] /\ UNCHANGED hook

Lookup(k, inbound) ==
  /\ hook' = [looked |-> TRUE, key |-> k, inbound |-> inbound, drop |-> left[k] > 0]
  /\ UNCHANGED left

Next == Tick \/ \E k \in Keys : Deny(k) \/ \E in \in BOOLEAN : Lookup(k, in)

Spec == Init /\ [][Next]_<<left, hook>>
=============================================================================
