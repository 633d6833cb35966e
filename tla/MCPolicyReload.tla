--------------------------- MODULE MCPolicyReload ---------------------------
(***************************************************************************)
(* Documents and events for TLC: small policies with the sections, the     *)
(* conditions and the spellings of daemon/policy/*.json.                   *)
(***************************************************************************)
EXTENDS PolicyReload

CONSTANTS h1, h2

HandlerSymmetry == Permutations({h1, h2})

Key(k, text) == <<k, text>>
Word(w) == Str(<<w>>)
Words(ws) == Arr([i \in DOMAIN ws |-> Word(ws[i])])

StrictBase ==
  Obj(<<Key("version", Num(1)), Key("default_action", Word("ml")),
        Key("global", Obj(<<Key("allow", Arr(<<
            Obj(<<Key("uid_in", Arr(<<Num(0)>>)), Key("path_prefix_any", Words(<<"/bin">>))>>)>>))>>)),
        Key("exec", Obj(<<
            Key("deny", Arr(<<Obj(<<Key("path_prefix", Word("/tmp")), Key("reason", Word("tmp"))>>)>>)),
            Key("allow", Arr(<<Obj(<<Key("path_glob", Str(<<"/opt", "*">>))>>)>>))>>)),
        Key("dns", Obj(<<Key("allow", Arr(<<Obj(<<Key("any", True)>>)>>))>>)),
        Key("packet", Obj(<<Key("deny", Arr(<<
            Obj(<<Key("proto", Word("tcp")), Key("tcp_flags_any", Words(<<"syn">>)),
                  Key("dst_ports_any", Arr(<<Num(4444)>>))>>)>>))>>)),
        Key("packet_in", Obj(<<Key("deny", Arr(<<
            Obj(<<Key("src_ip_prefix_any", Words(<<"10.">>))>>)>>))>>))>>)

LooseBase ==
  Obj(<<Key("default_action", Word("allow")),
        Key("syscall", Obj(<<
            Key("deny", Arr(<<
              Obj(<<Key("subtype", Word("SETNS")), Key("nstype_not_in", Words(<<"CLONE_NEWNET">>))>>),
              Obj(<<Key("sock_domain_any", Words(<<"AF_PACKET">>)), Key("uid_not", Num(0))>>),
              Obj(<<Key("prot_any", Words(<<"PROT_WRITE", "PROT_EXEC">>)),
                    Key("flags_none", Words(<<"MAP_ANONYMOUS">>))>>)>>)),
            Key("ml", Arr(<<Obj(<<Key("raw_only", True), Key("suppress_log", True)>>)>>))>>))>>)

DenyLocal ==
  Obj(<<Key("version", Num(2)),
        Key("exec", Obj(<<Key("deny", Arr(<<Obj(<<Key("path_contains", Word("/evil"))>>)>>))>>)),
        Key("dns", Obj(<<Key("deny", Arr(<<Obj(<<Key("qname_suffixes_any", Words(<<".bad">>))>>)>>))>>))>>)

AllowLocal ==
  Obj(<<Key("Default_Action", Word("allow")),
        Key("global", Obj(<<Key("allow", Arr(<<
            Obj(<<Key("path_prefix", Str(<<"/tmp", "/ok">>))>>)>>))>>)),
        Key("syscall", Obj(<<Key("allow", Arr(<<
            Obj(<<Key("subtype", Word("CLONE3_FAMILY")), Key("suppress_log", True)>>)>>))>>))>>)

\* Valid JSON of another form than the daemon expects.
OddLocal ==
  Obj(<<Key("default_action", Num(1)), Key("exec", Arr(<<Num(1)>>)),
        Key("global", Obj(<<Key("Deny", Arr(<<Obj(<<Key("any", True)>>)>>)), Key("allow", Num(0))>>))>>)

MCBodies  == [f \in Files |-> IF f = Base THEN {LooseBase, StrictBase} ELSE {AllowLocal, DenyLocal, OddLocal}]
MCShipped == [f \in Files |-> IF f = Base THEN StrictBase ELSE DenyLocal]
MCTokens  ==
  UNION {{t[i] : i \in DOMAIN t} : t \in {StrictBase, LooseBase, DenyLocal, AllowLocal, OddLocal}}
MCLowerCase == [w \in {"Default_Action", "Deny"} |->
                 IF w = "Deny" THEN "deny" ELSE "default_action"]

Exec(path, uid) == [type |-> "EXEC", exec_path |-> path, uid |-> uid]
MCEvents ==
  {Exec(<<"/tmp", "/ok">>, 1000), Exec(<<"/tmp", "/evil">>, 0), Exec(<<"/opt", "/evil">>, 1000),
   Exec(<<"/bin", "/sh">>, 0), Exec(<<"/bin", "/sh">>, 1000),
   [type |-> "DNS", dns_qname |-> <<"a", ".bad">>, pkt_uid |-> 0],
   [type |-> "PACKET", protocol |-> "tcp", dst_port |-> 4444, tcp_flags |-> {"syn"},
    dst_ip |-> <<"10.", "0.">>, pkt_uid |-> 1000],
   [type |-> "PACKET_IN", protocol |-> "udp", src_port |-> 53, dst_port |-> 4444,
    tcp_flags |-> {}, src_ip |-> <<"10.", "0.">>, pkt_uid |-> 0],
   [type |-> "SYSCALL", subtype |-> "SETNS", arg0 |-> "", arg1 |-> "CLONE_NEWNS", arg2 |-> "",
    prot |-> {}, flags |-> {}, uid |-> 1000],
   [type |-> "SYSCALL", subtype |-> "SOCKET_CREATE", arg0 |-> "AF_INET", arg1 |-> "SOCK_RAW",
    arg2 |-> "IPPROTO_ICMP", prot |-> {}, flags |-> {}, uid |-> 0],
   [type |-> "SYSCALL", subtype |-> "MMAP_X", arg0 |-> "", arg1 |-> "", arg2 |-> "",
    prot |-> {"PROT_EXEC"}, flags |-> {"MAP_PRIVATE"}, uid |-> 1000]}

=============================================================================
