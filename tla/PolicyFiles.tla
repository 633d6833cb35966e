---------------------------- MODULE PolicyFiles ----------------------------
(***************************************************************************)
(* The two policy files and the handlers of the backend that write them    *)
(* (backend/api/policy.go).                                                *)
(*                                                                         *)
(* A PUT checks its body, writes it to <file>.tmp with os.WriteFile (open  *)
(* with O_CREATE|O_TRUNC, then write), renames that over the file and      *)
(* signals the daemon.  The server runs handlers concurrently and those of *)
(* one file share the name <file>.tmp.  So files are kept apart from their *)
(* names: an inode has a content, a name links to an inode, and a handler  *)
(* writes to the inode it opened, whatever that is called by then.         *)
(*                                                                         *)
(* A content is a sequence of tokens: JSON tokens in module PolicyReload.  *)
(***************************************************************************)
EXTENDS Naturals, Sequences

CONSTANTS
  Handlers,      \* goroutines of the HTTP server
  Tokens,        \* what contents are made of
  Bodies,        \* Bodies[f]: the valid JSON documents PUT as file f
  Shipped,       \* Shipped[f]: the installed file f
  Cuts,          \* how much a write that fails has written
  MaxPuts        \* bound: PUTs

Base  == "policy.json"
Local == "policy.local.json"
Files == {Base, Local}
NoInode == 0

ASSUME FilesAssumption ==
  /\ Bodies \in [Files -> SUBSET Seq(Tokens)]
  /\ Shipped \in [Files -> Seq(Tokens)]
  /\ Cuts \subseteq Nat /\ MaxPuts \in Nat

VARIABLES
  content,       \* content[i]: what inode i holds
  name,          \* name[f]: the inode linked as f
  tmp,           \* tmp[f]: the inode linked as f.tmp
  put,           \* what each handler is doing
  puts,          \* PUTs accepted so far
  \* what happened, for the properties
  shared,        \* files whose .tmp two handlers had open at one time
  spliced,       \* files where half of one body was written over another
  unsignalled    \* was the backend killed between a rename and its signal?

filesVars == <<content, name, tmp, put, puts, shared, spliced, unsignalled>>

Idle   == [pc |-> "idle", file |-> Base, body |-> <<>>, fd |-> NoInode]
Quiet  == \A h \in Handlers : put[h] = Idle
HasOpen(h, f) == put[h].pc \in {"write", "rename"} /\ put[h].file = f
Goto(h, pc)   == put' = [put EXCEPT ![h].pc = pc]
Done(h)       == put' = [put EXCEPT ![h] = Idle]

\* What opening f for reading finds; an absent file reads like an empty one,
\* which no parser accepts.
Read(f) == IF name[f] = NoInode THEN <<>> ELSE content[name[f]]

\* A write at offset 0 of an inode that may have grown since it was opened.
Overlay(new, old) == new \o SubSeq(old, Len(new) + 1, Len(old))

Requests == [pc : {"idle", "open", "write", "rename", "remove", "signal"},
             file : Files, body : Seq(Tokens), fd : Nat]

FilesTypeOK ==
  /\ content \in Seq(Seq(Tokens))
  /\ name \in [Files -> Nat] /\ tmp \in [Files -> Nat]
  /\ put \in [Handlers -> Requests]
  /\ puts \in Nat
  /\ shared \subseteq Files /\ spliced \subseteq Files /\ unsignalled \in BOOLEAN

\* The local file is optional.
FilesInit ==
  /\ content = <<Shipped[Base], Shipped[Local]>>
  /\ name \in {[f \in Files |-> IF f = Base THEN 1 ELSE local] : local \in {NoInode, 2}}
  /\ tmp = [f \in Files |-> NoInode]
  /\ put = [h \in Handlers |-> Idle]
  /\ puts = 0
  /\ shared = {} /\ spliced = {} /\ unsignalled = FALSE

\* A body json.Valid refuses is answered 400 and changes nothing.
Put(h, f, b) ==
  /\ put[h].pc = "idle" /\ puts < MaxPuts
  /\ put' = [put EXCEPT ![h] = [pc |-> "open", file |-> f, body |-> b, fd |-> NoInode]]
  /\ puts' = puts + 1
  /\ UNCHANGED <<content, name, tmp, shared, spliced, unsignalled>>

\* os.WriteFile opens f.tmp: a new inode, or the one there is, emptied.
Open(h) ==
  LET f == put[h].file
      i == IF tmp[f] = NoInode THEN Len(content) + 1 ELSE tmp[f]
  IN
  /\ put[h].pc = "open"
  /\ content' = IF tmp[f] = NoInode THEN Append(content, <<>>)
                ELSE [content EXCEPT ![i] = <<>>]
  /\ tmp' = [tmp EXCEPT ![f] = i]
  /\ put' = [put EXCEPT ![h].pc = "write", ![h].fd = i]
  /\ shared' = IF \E g \in Handlers : HasOpen(g, f) THEN shared \cup {f} ELSE shared
  /\ UNCHANGED <<name, puts, spliced, unsignalled>>

Write(h) ==
  /\ put[h].pc = "write"
  /\ content' = [content EXCEPT ![put[h].fd] = Overlay(put[h].body, @)]
  /\ Goto(h, "rename")
  /\ UNCHANGED <<name, tmp, puts, shared, spliced, unsignalled>>

\* Slip: the error of the write is not looked at.
WriteFailsSlip(h, n) ==
  /\ put[h].pc = "write" /\ n < Len(put[h].body)
  /\ content' = [content EXCEPT ![put[h].fd] = Overlay(SubSeq(put[h].body, 1, n), @)]
  /\ Goto(h, "rename")
  /\ UNCHANGED <<name, tmp, puts, shared, spliced, unsignalled>>

\* The write fails after n tokens (a full disk): f.tmp stays, the answer is 500.
WriteFails(h, n) ==
  /\ put[h].pc = "write" /\ n < Len(put[h].body)
  /\ content' = [content EXCEPT ![put[h].fd] = Overlay(SubSeq(put[h].body, 1, n), @)]
  /\ Done(h)
  /\ spliced' = IF Len(content[put[h].fd]) > n THEN spliced \cup {put[h].file} ELSE spliced
  /\ UNCHANGED <<name, tmp, puts, shared, unsignalled>>

\* os.Rename moves whatever is called f.tmp by now; it fails if nothing is.
Rename(h) ==
  LET f == put[h].file IN
  /\ put[h].pc = "rename"
  /\ IF tmp[f] = NoInode
     THEN Goto(h, "remove") /\ UNCHANGED <<name, tmp>>
     ELSE /\ name' = [name EXCEPT ![f] = tmp[f]]
          /\ tmp' = [tmp EXCEPT ![f] = NoInode]
          /\ Goto(h, "signal")
  /\ UNCHANGED <<content, puts, shared, spliced, unsignalled>>

\* os.Remove(tmp) after a failed rename, and the answer 500.
RemoveTmp(h) ==
  /\ put[h].pc = "remove"
  /\ tmp' = [tmp EXCEPT ![put[h].file] = NoInode]
  /\ Done(h)
  /\ UNCHANGED <<content, name, puts, shared, spliced, unsignalled>>

\* policyreload.Signal, fatal to nobody, and the answer 200.
Signal(h) ==
  /\ put[h].pc = "signal"
  /\ Done(h)
  /\ UNCHANGED <<content, name, tmp, puts, shared, spliced, unsignalled>>

\* The backend is killed and started again.
BackendKilled ==
  /\ ~Quiet
  /\ put' = [h \in Handlers |-> Idle]
  /\ unsignalled' = (unsignalled \/ \E h \in Handlers : put[h].pc = "signal")
  /\ UNCHANGED <<content, name, tmp, puts, shared, spliced>>

HandlerStep(h) ==
  \/ \E f \in Files : \E b \in Bodies[f] : Put(h, f, b)
  \/ Open(h) \/ Write(h) \/ \E n \in Cuts : WriteFails(h, n)
  \/ Rename(h) \/ RemoveTmp(h)

FilesNext == BackendKilled \/ \E h \in Handlers : HandlerStep(h) \/ Signal(h)

FilesSpec == FilesInit /\ [][FilesNext]_filesVars

-----------------------------------------------------------------------------
\* A policy file is a whole document, the installed one or one that was PUT,
\* whatever writes failed and wherever the backend was killed, unless two
\* handlers had its .tmp open at one time: then one renames what the other
\* emptied or is still to overwrite (policy.go 74-82).
WholeUnlessShared ==
  \A f \in Files \ shared :
    name[f] # NoInode => Read(f) \in Bodies[f] \cup {Shipped[f]}

-----------------------------------------------------------------------------
(***************************************************************************)
(* The inductive invariant WholeUnlessShared follows from (PolicyReload-   *)
(* Proofs).  An inode serves one file: it is linked as the file or as its  *)
(* .tmp, or open for it.  As long as no two handlers open the .tmp of a    *)
(* file at one time, the one that has it open holds what .tmp links, and   *)
(* nothing that is linked as the file is open.                             *)
(***************************************************************************)
Serves(i, f) ==
  i # NoInode /\ \/ i = name[f] \/ i = tmp[f]
                 \/ \E h \in Handlers : HasOpen(h, f) /\ put[h].fd = i

InodesInv ==
  /\ name[Base] # NoInode
  /\ \A f \in Files : name[f] \in 0..Len(content) /\ tmp[f] \in 0..Len(content)
  /\ \A f \in Files : name[f] # NoInode => name[f] # tmp[f]
  /\ \A h \in Handlers : put[h].pc \in {"write", "rename"} => put[h].fd \in 1..Len(content)
  /\ \A i \in 1..Len(content) : \A f, g \in Files : Serves(i, f) /\ Serves(i, g) => f = g

\* What a PUT is doing while nobody else has the .tmp of its file open.
AloneInv ==
  \A h \in Handlers :
    LET f == put[h].file IN
    /\ put[h].pc # "idle" => put[h].body \in Bodies[f]
    /\ put[h].pc = "remove" => f \in shared
    /\ HasOpen(h, f) /\ f \notin shared =>
         /\ put[h].fd = tmp[f]
         /\ content[put[h].fd] = IF put[h].pc = "write" THEN <<>> ELSE put[h].body
         /\ \A g \in Handlers : HasOpen(g, f) => g = h

FilesInv == FilesTypeOK /\ InodesInv /\ AloneInv /\ WholeUnlessShared

=============================================================================
