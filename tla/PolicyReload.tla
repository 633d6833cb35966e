---------------------------- MODULE PolicyReload ----------------------------
(***************************************************************************)
(* The daemon that enforces the policy files while the backend rewrites    *)
(* them: daemon/qks_daemon.c (main, on_sigusr1, the reload in the worker), *)
(* daemon/policy.c and backend/internal/policyreload on top of             *)
(* PolicyFiles.                                                            *)
(*                                                                         *)
(* A PUT ends with SIGUSR1 to the pid in the pid file.  The daemon writes  *)
(* that file, if it can, before it reads the policy and installs its       *)
(* handler after, so a signal in between kills it.  Later the handler sets *)
(* a flag; before its next event the worker clears the flag, loads the     *)
(* base file and merges the local one, which are read at different times.  *)
(***************************************************************************)
EXTENDS PolicyFiles, PolicyEngine

CONSTANTS
  Events,        \* the events decisions are asked about
  MaxBoots       \* bound: how often the daemon is started again

ASSUME EventsAssumption == \A ev \in Events : ev.type \in EventTypes
ASSUME BootsAssumption  == MaxBoots \in Nat

\* Installed and PUT documents are one JSON value each, and nothing after it:
\* json.Valid refuses any other body.  None is nested deeper than cJSON takes.
ASSUME DocumentsAssumption ==
  \A f \in Files : \A b \in Bodies[f] \cup {Shipped[f]} :
    Parser(b).ok /\ Parser(b).at = Len(b) + 1

VARIABLES
  daemon,        \* where the daemon is between two reads of a file
  reload,        \* g_reload_policy
  policy_root,   \* the tree in force
  pidFile,       \* did the last daemon manage to write its pid file?
  boots,
  \* what happened, for the properties
  loaded,        \* the base tree in force
  merged         \* the local trees merged into it, in order

daemonVars == <<daemon, reload, policy_root, pidFile, boots, loaded, merged>>
vars == <<filesVars, daemonVars>>

Booting == {"boot", "boot_merge", "boot_ready"}

\* write_pid_file goes on if the file cannot be opened, as it always is for
\* the unit of qks-daemon.service.  A file that stays behind names nobody.
PidFile == {"written", "unwritten"}

ReloadInit ==
  /\ FilesInit
  /\ daemon = "boot" /\ reload = FALSE /\ policy_root = NULL /\ boots = 0
  /\ pidFile \in PidFile
  /\ loaded = NULL /\ merged = <<>>

\* main: no SIGUSR1 is pending, nothing is loaded, the pid file is written or
\* not.
Boot ==
  /\ daemon = "down" /\ boots < MaxBoots
  /\ daemon' = "boot" /\ boots' = boots + 1 /\ pidFile' \in PidFile
  /\ reload' = FALSE /\ policy_root' = NULL /\ loaded' = NULL /\ merged' = <<>>
  /\ UNCHANGED filesVars

\* Slip: the old tree is deleted before the new one is parsed.
NewRootSlip(new) == new
\* The old tree is deleted only when there is a new one.
NewRoot(new) == IF new = NULL THEN policy_root ELSE new

\* qks_policy_load.  main gives up if it fails, the worker goes on.
Load ==
  LET new == Parse(Read(Base)) IN
  /\ \/ daemon = "boot" /\ daemon' = IF new = NULL THEN "down" ELSE "boot_merge"
     \/ daemon = "idle" /\ reload /\ daemon' = "merge"
  /\ reload' = FALSE
  /\ policy_root' = NewRoot(new)
  /\ IF new = NULL THEN UNCHANGED <<loaded, merged>>
     ELSE loaded' = new /\ merged' = <<>>
  /\ UNCHANGED <<filesVars, pidFile, boots>>

\* Slip: the flag is cleared when the reload is over.
MergeSlip ==
  LET local == Parse(Read(Local)) IN
  /\ \/ daemon = "boot_merge" /\ daemon' = "boot_ready"
     \/ daemon = "merge" /\ daemon' = "idle"
  /\ policy_root' = MergeLocal(policy_root, local)
  /\ merged' = IF local = NULL THEN merged ELSE Append(merged, local)
  /\ reload' = FALSE
  /\ UNCHANGED <<filesVars, pidFile, boots, loaded>>

\* qks_policy_merge_local; a file that is absent or no JSON changes nothing.
Merge ==
  LET local == Parse(Read(Local)) IN
  /\ \/ daemon = "boot_merge" /\ daemon' = "boot_ready"
     \/ daemon = "merge" /\ daemon' = "idle"
  /\ policy_root' = MergeLocal(policy_root, local)
  /\ merged' = IF local = NULL THEN merged ELSE Append(merged, local)
  /\ UNCHANGED <<filesVars, reload, pidFile, boots, loaded>>

\* main installs on_sigusr1 and starts the worker.
Listen ==
  /\ daemon = "boot_ready" /\ daemon' = "idle"
  /\ UNCHANGED <<filesVars, reload, policy_root, pidFile, boots, loaded, merged>>

\* The daemon stops or dies.
Die ==
  /\ daemon # "down" /\ daemon' = "down"
  /\ UNCHANGED <<filesVars, reload, policy_root, pidFile, boots, loaded, merged>>

\* SIGUSR1: the default action before the handler is installed, on_sigusr1 after.
Usr1 ==
  /\ daemon' = IF daemon \in Booting THEN "down" ELSE daemon
  /\ reload' = (reload \/ daemon \in {"idle", "merge"})

\* The end of a PUT.  A signal nobody gets is a header of the answer.
SignalDaemon(h) ==
  /\ Signal(h)
  /\ IF pidFile = "written" THEN Usr1 ELSE UNCHANGED <<daemon, reload>>
  /\ UNCHANGED <<policy_root, pidFile, boots, loaded, merged>>

ReloadNext ==
  \/ Boot \/ Load \/ Merge \/ Listen \/ Die
  \/ BackendKilled /\ UNCHANGED daemonVars
  \/ \E h \in Handlers : HandlerStep(h) /\ UNCHANGED daemonVars
  \/ \E h \in Handlers : SignalDaemon(h)

ReloadSpec == ReloadInit /\ [][ReloadNext]_vars

-----------------------------------------------------------------------------
Enforcing == daemon \in {"idle", "boot_ready"}
Hits(list, Match(_)) == IsArray(list) /\ \E i \in DOMAIN list.child : Match(list.child[i])

Documents == UNION {{<<f, Parse(b)>> : b \in Bodies[f] \cup {Shipped[f]}} : f \in Files}

\* The shape of a tree, as deep as merging goes: sections, lists and rules.
Strings   == {NoName, <<>>} \cup {t.s : t \in Tokens}
Numbers   == {0} \cup {t.n : t \in Tokens}
ItemTypes == {"NULL", "False", "True", "Number", "String", "Array", "Object"}
IsItem(t) ==
  t \in [type : ItemTypes, string : Strings, valuestring : Strings, valuedouble : Numbers,
         child : Seq({t.child[i] : i \in DOMAIN t.child} \ {NULL})]
IsList(t) == IsItem(t) /\ \A j \in DOMAIN t.child : IsItem(t.child[j])
IsTree(t) == IsItem(t) /\ \A i \in DOMAIN t.child : IsList(t.child[i])

TypeOK ==
  /\ FilesTypeOK
  /\ daemon \in {"down", "idle", "merge"} \cup Booting
  /\ reload \in BOOLEAN /\ pidFile \in PidFile /\ boots \in 0..MaxBoots
  /\ \A tree \in {policy_root, loaded} : tree = NULL \/ IsTree(tree)
  /\ merged \in Seq({merged[i] : i \in DOMAIN merged})
  /\ \A i \in DOMAIN merged : IsTree(merged[i])
  /\ daemon \in {"idle", "merge", "boot_merge", "boot_ready"} => policy_root # NULL

\* What a PUT that was answered stored is in force once the worker has looked
\* at the flag: the daemon decides about every event as one started now would.
\* Three exceptions: two PUTs of one file at one time, a backend killed before
\* it signals, and a daemon whose pid file was not written, which no PUT can
\* reach (policy.go 74-87, qks_daemon.c 97-107 and 478-483).
InForceIsOnDisk ==
  daemon = "idle" /\ ~reload /\ Quiet /\ ~unsignalled /\ shared = {} /\ pidFile = "written" =>
    LET fresh == MergeLocal(Parse(Read(Base)), Parse(Read(Local))) IN
    \A ev \in Events : Eval(policy_root, ev) = Eval(fresh, ev)

\* The daemon enforces documents that were installed or PUT, never a part of
\* one: whatever race put half a document in place, parsing it fails.  Half of
\* a body over another body may parse (policy.go 74, cJSON.c 1492-1772).
EnforcedWasSubmitted ==
  /\ Base \notin spliced => loaded = NULL \/ <<Base, loaded>> \in Documents
  /\ Local \notin spliced => \A i \in DOMAIN merged : <<Local, merged[i]>> \in Documents

\* Documents of the form of the shipped ones: an object whose sections are
\* objects, whose lists are arrays, each under its own spelling.  (The merge
\* replaces what is of another type, and ignores case where Get does not.)
Sections == {"global", "exec", "packet", "packet_in", "dns", "syscall"}
Lists    == {"deny", "allow", "ml"}
HasMembers(object, names, Kind(_)) ==
  /\ IsObject(object)
  /\ \A i \in DOMAIN object.child : LET c == object.child[i] IN
       /\ c.string # NoName
       /\ \A n \in names : SameButCase(c.string, <<n>>) => c.string = <<n>> /\ Kind(c)
IsSection(item) == HasMembers(item, Lists, IsArray)
IsPolicy(tree)  == HasMembers(tree, Sections, IsSection)
WellFormed      == IsPolicy(loaded) /\ \A i \in DOMAIN merged : IsPolicy(merged[i])

\* What the rules say of an event, whatever default_action says.
RulesSay(tree, ev) ==
  OrElse(EvalGlobal(Get(tree, "global"), ev), EvalSection(Get(tree, SectionOf(ev)), ev)).result
GloballyAllowed(tree, ev) ==
  Hits(Get(Get(tree, "global"), "allow"), LAMBDA r : MatchGlobal(r, ev))

\* A rule of the base file that denies is final: the local files cannot lift it
\* but by a global allow rule (policy.c 96-154, 842-869).
DenyIsFinal ==
  Enforcing /\ WellFormed =>
    \A ev \in Events :
      RulesSay(loaded, ev) = "DENY" =>
        RulesSay(policy_root, ev) = "DENY" \/ GloballyAllowed(policy_root, ev)

\* A rule of a local file that denies an event does so, unless a global rule
\* allows it - or the section came from a file, the base or an earlier local
\* one, that has no deny list in it: then the rule is lost without a word
\* (policy.c 136-147).
LocalDenyHeard ==
  Enforcing /\ WellFormed =>
    \A ev \in Events : \A i \in DOMAIN merged :
      LET own(tree) == Get(tree, SectionOf(ev)) IN
      Hits(Get(own(merged[i]), "deny"), LAMBDA r : MatchOwn(r, ev)) =>
        \/ RulesSay(policy_root, ev) = "DENY"
        \/ GloballyAllowed(policy_root, ev)
        \/ \E tree \in {loaded} \cup {merged[j] : j \in 1..(i - 1)} :
             own(tree) # NULL /\ Get(own(tree), "deny") = NULL

\* The default action of the base file stays, or another takes its place: only
\* a local file that spells its name in capitals, or gives it a value that is
\* no string, leaves the daemon without one (policy.c 131-151, cJSON.c
\* 2422-2448: the lookup ignores case, and renames what it replaces).
Displaces(item, key) ==
  SameButCase(item.string, key) /\ ~IsObject(item) /\ ~(item.string = key /\ IsString(item))
DefaultStays ==
  Enforcing /\ IsString(Get(loaded, "default_action")) =>
    \/ IsString(Get(policy_root, "default_action"))
    \/ \E i \in DOMAIN merged : \E j \in DOMAIN merged[i].child :
         Displaces(merged[i].child[j], <<"default_action">>)

-----------------------------------------------------------------------------
(***************************************************************************)
(* The inductive invariants of the proofs.  As long as no two PUTs met and *)
(* none was cut off before its signal, a daemon that PUTs can signal has   *)
(* in force what is on disk, or a reload is still to come; and nothing an  *)
(* inode ever held parses but to a document that was installed or PUT.     *)
(***************************************************************************)
ReloadToCome == reload \/ \E h \in Handlers : put[h].pc = "signal"

InForceInv ==
  shared = {} /\ ~unsignalled /\ pidFile = "written" =>
    /\ daemon \in {"merge", "boot_merge"} =>
         ReloadToCome \/ policy_root = Parse(Read(Base))
    /\ daemon \in {"idle", "boot_ready"} =>
         ReloadToCome \/ policy_root = MergeLocal(Parse(Read(Base)), Parse(Read(Local)))

IsDocument(f, tree) == tree = NULL \/ \E b \in Bodies[f] \cup {Shipped[f]} : tree = Parse(b)

SubmittedInv ==
  \A f \in Files \ spliced : \A i \in 1..Len(content) :
    Serves(i, f) => IsDocument(f, Parse(content[i]))

-----------------------------------------------------------------------------
(***************************************************************************)
(* The inductive invariants behind DenyIsFinal, LocalDenyHeard and         *)
(* DefaultStays: what merging has made of the base tree so far.  The lists *)
(* of a section grow; a list is there only if the section came with it.    *)
(***************************************************************************)
Grown(new, old) ==
  /\ new # NULL
  /\ \A l \in Lists : /\ Get(new, l) = NULL <=> Get(old, l) = NULL
                      /\ Range(Get(old, l).child) \subseteq Range(Get(new, l).child)

\* The section s of some tree was put in place and has no list l.
CameWithout(trees, s, l) ==
  \E tree \in trees : Get(tree, s) # NULL /\ Get(Get(tree, s), l) = NULL

\* What merging trees into base has made of root.
RulesKept(root, base, trees) ==
  /\ IsPolicy(root)
  /\ \A s \in Sections :
       /\ Get(base, s) # NULL => Grown(Get(root, s), Get(base, s))
       /\ \A i \in DOMAIN trees : \A l \in Lists :
            Get(Get(trees[i], s), l) # NULL =>
              \/ Range(Get(Get(trees[i], s), l).child) \subseteq Range(Get(Get(root, s), l).child)
              \/ CameWithout({base} \cup {trees[j] : j \in 1..(i - 1)}, s, l)
       /\ \A l \in Lists :
            Get(root, s) # NULL /\ Get(Get(root, s), l) = NULL =>
              CameWithout({base} \cup {trees[j] : j \in DOMAIN trees}, s, l)

RulesInv == loaded # NULL /\ WellFormed => RulesKept(policy_root, loaded, merged)

DefaultInv ==
  IsString(Get(loaded, "default_action")) =>
    \/ IsString(Get(policy_root, "default_action"))
    \/ \E i \in DOMAIN merged : \E j \in DOMAIN merged[i].child :
         Displaces(merged[i].child[j], <<"default_action">>)

=============================================================================
