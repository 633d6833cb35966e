---------------------------- MODULE PolicyEngine ----------------------------
(***************************************************************************)
(* The daemon's rule engine (daemon/policy.c): how two policy documents    *)
(* are merged and what the result decides about an event.                  *)
(*                                                                         *)
(* A rule is a JSON object.  Each key it has is a condition; a key that is *)
(* missing, or whose value has another JSON type than the code expects, is *)
(* no condition.  An event is a record with the fields of qks_event_msg    *)
(* that rules ask about: bit fields are sets of names, a string is a       *)
(* sequence of words (its length the number of them).                      *)
(***************************************************************************)
EXTENDS CJson, SequencesExt

Get(object, key) == GetObjectItemCaseSensitive(object, <<key>>)

\* The condition a key of a rule states, if its value has the right type.
Ask(rule, key, Type(_), Ok(_)) ==
  LET value == Get(rule, key) IN Type(value) => Ok(value)
AnyOf(rule, key, Type(_), Ok(_)) ==
  Ask(rule, key, IsArray, LAMBDA a :
    \E i \in DOMAIN a.child : Type(a.child[i]) /\ Ok(a.child[i]))
NoneOf(rule, key, Type(_), Bad(_)) ==
  Ask(rule, key, IsArray, LAMBDA a :
    \A i \in DOMAIN a.child : Type(a.child[i]) => ~Bad(a.child[i]))

StartsWith(s, item) == IsPrefix(item.valuestring, s)
EndsWith(s, item)   == IsSuffix(item.valuestring, s)
StrContains(s, item) ==
  \E i \in 0..(Len(s) - Len(item.valuestring)) :
    SubSeq(s, i + 1, i + Len(item.valuestring)) = item.valuestring
Is(item, word) == item.valuestring = <<word>>

\* fnmatch(pattern, s, 0), where "*" is the only special word.
Fnmatch(pattern, s) ==
  LET match[i \in 1..(Len(pattern) + 1), j \in 1..(Len(s) + 1)] ==
        IF i > Len(pattern) THEN j > Len(s)
        ELSE IF pattern[i] = "*"
        THEN match[i + 1, j] \/ (j <= Len(s) /\ match[i, j + 1])
        ELSE j <= Len(s) /\ pattern[i] = s[j] /\ match[i + 1, j + 1]
  IN match[1, 1]

AnyBool(rule)     == IsTrue(Get(rule, "any"))
SuppressLog(rule) == IsTrue(Get(rule, "suppress_log"))

UidConstraints(rule, ev) ==
  LET uid == IF ev.type \in {"PACKET", "DNS", "PACKET_IN"} THEN ev.pkt_uid ELSE ev.uid
  IN /\ Ask(rule, "uid_not", IsNumber, LAMBDA n : n.valuedouble # uid)
     /\ AnyOf(rule, "uid_in", IsNumber, LAMBDA n : n.valuedouble = uid)

-----------------------------------------------------------------------------
MatchExec(rule, ev) ==
  LET p == ev.exec_path IN
  /\ UidConstraints(rule, ev)
  /\ \/ AnyBool(rule)
     \/ /\ Ask(rule, "path_prefix", IsString, LAMBDA v : StartsWith(p, v))
        /\ Ask(rule, "path_suffix", IsString, LAMBDA v : EndsWith(p, v))
        /\ Ask(rule, "path_contains", IsString, LAMBDA v : StrContains(p, v))
        /\ AnyOf(rule, "path_contains_any", IsString, LAMBDA v : StrContains(p, v))
        /\ AnyOf(rule, "path_prefix_any", IsString, LAMBDA v : StartsWith(p, v))
        /\ AnyOf(rule, "file_suffix_any", IsString, LAMBDA v : EndsWith(p, v))
        /\ AnyOf(rule, "exec_paths_any", IsString, LAMBDA v : StartsWith(p, v))
        /\ Ask(rule, "path_glob", IsString, LAMBDA v : Fnmatch(v.valuestring, p))

\* A protocol the code does not name is no condition.
ProtoOk(rule, ev) ==
  Ask(rule, "proto", IsString, LAMBDA v :
    v.valuestring \in {<<"tcp">>, <<"udp">>, <<"icmp">>} => Is(v, ev.protocol))

FlagsOk(rule, ev) ==
  /\ IsArray(Get(rule, "tcp_flags_any")) => ev.protocol = "tcp"
  /\ AnyOf(rule, "tcp_flags_any", IsString, LAMBDA v :
       \E f \in ev.tcp_flags \cap {"syn", "ack", "rst", "fin"} : Is(v, f))

PortOk(rule, key, port) ==
  AnyOf(rule, key, IsNumber, LAMBDA n : n.valuedouble % 65536 = port)

MatchPacket(rule, ev) ==
  /\ UidConstraints(rule, ev)
  /\ \/ AnyBool(rule)
     \/ /\ ProtoOk(rule, ev)
        /\ PortOk(rule, "dst_ports_any", ev.dst_port)
        /\ FlagsOk(rule, ev)
        /\ AnyOf(rule, "dst_ip_prefix_any", IsString, LAMBDA v : StartsWith(ev.dst_ip, v))

\* What comes in has no user: uid constraints are not looked at.
MatchPacketIn(rule, ev) ==
  \/ AnyBool(rule)
  \/ /\ ProtoOk(rule, ev)
     /\ PortOk(rule, "src_ports_any", ev.src_port)
     /\ PortOk(rule, "dst_ports_any", ev.dst_port)
     /\ FlagsOk(rule, ev)
     /\ AnyOf(rule, "src_ip_prefix_any", IsString, LAMBDA v : StartsWith(ev.src_ip, v))

MatchDns(rule, ev) ==
  /\ UidConstraints(rule, ev)
  /\ \/ AnyBool(rule)
     \/ /\ AnyOf(rule, "qname_suffixes_any", IsString, LAMBDA v : EndsWith(ev.dns_qname, v))
        /\ AnyOf(rule, "qname_contains_any", IsString, LAMBDA v : StrContains(ev.dns_qname, v))
        /\ Ask(rule, "qname_length_greater", IsNumber, LAMBDA n :
             Len(ev.dns_qname) > n.valuedouble)

Subtypes   == {"CLONE_FAMILY", "MPROTECT_X", "MMAP_X", "PRIV_CHANGE", "UNSHARE",
               "SETNS", "SOCKET_CREATE"}
Domains    == {"AF_INET", "AF_INET6", "AF_PACKET", "AF_UNIX", "AF_NETLINK"}
SockTypes  == {"SOCK_STREAM", "SOCK_DGRAM", "SOCK_RAW"}
Protocols  == {"IPPROTO_TCP", "IPPROTO_UDP", "IPPROTO_ICMP", "IPPROTO_ICMPV6"}
Namespaces == {"CLONE_NEWUSER", "CLONE_NEWNS", "CLONE_NEWNET"}
NamedFlags == Namespaces \cup {"MAP_ANONYMOUS"}

\* arg0..arg2 are the three arguments by name: those of socket, or in arg1 the
\* namespace of setns.  A subtype the code does not know is no condition.
MatchSyscall(rule, ev) ==
  /\ UidConstraints(rule, ev)
  /\ \/ AnyBool(rule)
     \/ /\ Ask(rule, "subtype", IsString, LAMBDA v :
             (\E t \in Subtypes : Is(v, t)) => Is(v, ev.subtype))
        /\ (IsTrue(Get(rule, "raw_only")) => ev.arg1 = "SOCK_RAW")
        /\ AnyOf(rule, "sock_domain_any", IsString, LAMBDA v : ev.arg0 \in Domains /\ Is(v, ev.arg0))
        /\ AnyOf(rule, "sock_type_any", IsString, LAMBDA v : ev.arg1 \in SockTypes /\ Is(v, ev.arg1))
        /\ AnyOf(rule, "sock_proto_any", IsString, LAMBDA v : ev.arg2 \in Protocols /\ Is(v, ev.arg2))
        /\ AnyOf(rule, "prot_any", IsString, LAMBDA v :
             \E b \in ev.prot \cap {"PROT_EXEC", "PROT_WRITE"} : Is(v, b))
        /\ AnyOf(rule, "flags_any", IsString, LAMBDA v :
             \E b \in ev.flags \cap NamedFlags : Is(v, b))
        /\ NoneOf(rule, "flags_none", IsString, LAMBDA v :
             \E b \in ev.flags \cap NamedFlags : Is(v, b))
        /\ NoneOf(rule, "nstype_not_in", IsString, LAMBDA v :
             ev.arg1 \in Namespaces /\ Is(v, ev.arg1))

MatchOwn(rule, ev) ==
  CASE ev.type = "EXEC"      -> MatchExec(rule, ev)
    [] ev.type = "PACKET"    -> MatchPacket(rule, ev)
    [] ev.type = "PACKET_IN" -> MatchPacketIn(rule, ev)
    [] ev.type = "DNS"       -> MatchDns(rule, ev)
    [] ev.type = "SYSCALL"   -> MatchSyscall(rule, ev)

MatchGlobal(rule, ev) ==
  /\ UidConstraints(rule, ev)
  /\ IF ev.type = "EXEC" THEN MatchExec(rule, ev) ELSE AnyBool(rule)

-----------------------------------------------------------------------------
Answer(result, reason, suppress) ==
  [result |-> result, reason |-> reason, suppress |-> suppress]

\* The rules of a list; what is no array, or missing, has none.
Rules(section, list) ==
  LET item == Get(section, list) IN IF IsArray(item) THEN item.child ELSE <<>>

Reason(rule, fallback) ==
  LET reason == Get(rule, "reason") IN
  IF IsString(reason) THEN reason.valuestring ELSE <<fallback>>

\* What a rule rules, if there is one.
Ruled(rule, result, fallback, otherwise) ==
  IF rule = NULL THEN otherwise
  ELSE Answer(result, Reason(rule, fallback), SuppressLog(rule))

\* deny before allow before ml, on the first rule of each list that matches.
Decide(hit, fallback) ==
  Ruled(hit.deny, "DENY", fallback.deny,
    Ruled(hit.allow, "ALLOW", fallback.allow,
      Ruled(hit.ml, "UNKNOWN", fallback.ml, Answer("UNKNOWN", <<>>, FALSE))))

EvalSection(section, ev) ==
  Decide([list \in {"deny", "allow", "ml"} |->
            FirstOf(Rules(section, list), LAMBDA r : MatchOwn(r, ev))],
         [deny |-> "deny_rule", allow |-> "allow_rule", ml |-> "ml_rule"])

\* The ml list of the global section is not looked at.
EvalGlobal(global, ev) ==
  Decide([list \in {"deny", "allow", "ml"} |->
            IF list = "ml" \/ ~IsObject(global) THEN NULL
            ELSE FirstOf(Rules(global, list), LAMBDA r : MatchGlobal(r, ev))],
         [deny |-> "global_deny", allow |-> "global_allow", ml |-> ""])

EventTypes == {"EXEC", "PACKET", "PACKET_IN", "DNS", "SYSCALL"}
SectionOf(ev) ==
  CASE ev.type = "EXEC" -> "exec" [] ev.type = "PACKET" -> "packet"
    [] ev.type = "PACKET_IN" -> "packet_in" [] ev.type = "DNS" -> "dns"
    [] ev.type = "SYSCALL" -> "syscall"

\* default_action overrides an ml rule that matched, but keeps its suppress_log.
OrDefault(root, own) ==
  LET da == Get(root, "default_action") IN
  IF own.result # "UNKNOWN" THEN own
  ELSE IF ~IsString(da) THEN Answer("UNKNOWN", <<"no_match_no_default">>, own.suppress)
  ELSE IF Is(da, "allow") THEN Answer("ALLOW", <<"default_allow">>, own.suppress)
  ELSE IF Is(da, "deny") THEN Answer("DENY", <<"default_deny">>, own.suppress)
  ELSE Answer("UNKNOWN", <<"default_ml">>, own.suppress)

OrElse(answer, otherwise) == IF answer.result # "UNKNOWN" THEN answer ELSE otherwise

Eval(root, ev) ==
  IF root = NULL THEN Answer("UNKNOWN", <<"policy_not_loaded">>, FALSE)
  ELSE OrElse(EvalGlobal(Get(root, "global"), ev),
              OrDefault(root, EvalSection(Get(root, SectionOf(ev)), ev)))

-----------------------------------------------------------------------------
\* Slip: the local list takes the place of the one of the base file.
MergeMemberSlip(section, sub) == ReplaceItemInObject(section, sub.string, sub)

\* A list of rules is appended to, anything else replaced - if it is there.
MergeMember(section, sub) ==
  LET old == GetObjectItem(section, sub.string) IN
  IF IsArray(old) /\ IsArray(sub)
  THEN [section EXCEPT !.child[IndexOf(section, sub.string)].child = @ \o sub.child]
  ELSE ReplaceItemInObject(section, sub.string, sub)

\* The loop over the members of an object; after[n] is its result after n.
MergeMembers(section, members) ==
  LET after[n \in 0..Len(members)] ==
        IF n = 0 THEN section ELSE MergeMember(after[n - 1], members[n])
  IN after[Len(members)]

\* Slip: a section the base file does not have is not added.
MergeItemSlip(root, item) ==
  IF GetObjectItem(root, item.string) # NULL /\ IsObject(item)
  THEN [root EXCEPT !.child[IndexOf(root, item.string)] = MergeMembers(@, item.child)]
  ELSE ReplaceItemInObject(root, item.string, item)

MergeItem(root, item) ==
  IF GetObjectItem(root, item.string) = NULL
  THEN AddItemToObject(root, item.string, item)
  ELSE IF IsObject(item)
  THEN [root EXCEPT !.child[IndexOf(root, item.string)] = MergeMembers(@, item.child)]
  ELSE ReplaceItemInObject(root, item.string, item)

\* qks_policy_merge_local, on what parsing the file gave.
MergeLocal(root, local) ==
  LET after[n \in 0..Len(local.child)] ==
        IF n = 0 THEN root ELSE MergeItem(after[n - 1], local.child[n])
  IN after[Len(local.child)]

=============================================================================
