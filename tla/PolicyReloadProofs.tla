------------------------ MODULE PolicyReloadProofs -------------------------
(***************************************************************************)
(* Proofs about the policy files and the daemon that enforces them, for    *)
(* any number of handlers, any documents, any point where a write may fail *)
(* and any number of PUTs.  In this order: the files; what is in force;    *)
(* the trees that parsing and merging make; and the rules of a policy      *)
(* under any number of local files.                                        *)
(***************************************************************************)
EXTENDS PolicyReload, CJsonProofs, SequenceTheorems, WellFoundedInduction, TLAPS

-----------------------------------------------------------------------------
(* The files.                                                               *)

\* What a write at offset 0 leaves is made of tokens again; over an empty
\* inode it is what was written.
LEMMA OverlayType ==
  ASSUME NEW new \in Seq(Tokens), NEW old \in Seq(Tokens)
  PROVE  Overlay(new, old) \in Seq(Tokens)
<1>1. Len(new) + 1 \in 1..Len(old) + 1 \/ Len(new) + 1 > Len(old)
  BY LenProperties
<1>2. SubSeq(old, Len(new) + 1, Len(old)) \in Seq(Tokens)
  BY LenProperties, SubSeqProperties
<1>3. QED BY <1>2, ConcatProperties DEF Overlay

LEMMA OverlayEmpty ==
  ASSUME NEW new \in Seq(Tokens)
  PROVE  Overlay(new, <<>>) = new
<1>1. SubSeq(<<>>, Len(new) + 1, Len(<<>>)) = <<>>
  <2>1. Len(new) \in Nat /\ Len(<<>>) = 0
    BY LenProperties
  <2>2. <<>> \in Seq(Tokens)
    OBVIOUS
  <2>3. QED BY <2>1, <2>2
<1>2. QED BY <1>1 DEF Overlay

\* Half a body is a sequence of tokens.
LEMMA CutType ==
  ASSUME NEW b \in Seq(Tokens), NEW n \in Nat, n < Len(b)
  PROVE  SubSeq(b, 1, n) \in Seq(Tokens)
  BY SubSeqProperties, LenProperties

\* The files are installed, nothing is in progress.
LEMMA FilesInitInv == FilesInit => FilesInv
<1> SUFFICES ASSUME FilesInit PROVE FilesInv
  OBVIOUS
<1>1. PICK local \in {NoInode, 2} : name = [f \in Files |-> IF f = Base THEN 1 ELSE local]
  BY DEF FilesInit
<1>2. name[Base] = 1 /\ name[Local] = local /\ Base # Local
  BY <1>1 DEF Files, Base, Local
<1>3. content = <<Shipped[Base], Shipped[Local]>> /\ Shipped[Base] \in Seq(Tokens) /\ Shipped[Local] \in Seq(Tokens)
  BY FilesAssumption DEF FilesInit, Files
<1>4. content \in Seq(Seq(Tokens)) /\ Len(content) = 2
      /\ content[1] = Shipped[Base] /\ content[2] = Shipped[Local]
  BY <1>3
<1>5. Idle \in Requests
  BY EmptySeq DEF Idle, Requests, Files, NoInode
<1>6. FilesTypeOK
  <2>1. name \in [Files -> Nat] /\ tmp \in [Files -> Nat]
    BY <1>1 DEF FilesInit, NoInode
  <2>2. put \in [Handlers -> Requests] /\ puts \in Nat /\ shared \subseteq Files /\ spliced \subseteq Files
    BY <1>5 DEF FilesInit
  <2>3. unsignalled \in BOOLEAN
    BY DEF FilesInit
  <2>4. QED BY <1>4, <2>1, <2>2, <2>3 DEF FilesTypeOK
<1>7. \A h \in Handlers : put[h].pc = "idle"
  BY DEF FilesInit, Idle
<1>8. \A f \in Files : tmp[f] = NoInode
  BY DEF FilesInit
<1>9. InodesInv
  <2>1. \A f, i : Serves(i, f) => i = name[f] \/ i = tmp[f]
    BY <1>7 DEF Serves, HasOpen
  <2>2. \A f \in Files : name[f] \in 0..2 /\ (f = Base => name[f] = 1) /\ (f = Local => name[f] \in {0, 2})
    BY <1>2 DEF Files, NoInode
  <2>3. \A i \in 1..Len(content) : \A f, g \in Files : Serves(i, f) /\ Serves(i, g) => f = g
    <3>1. \A i, f : f \in Files /\ Serves(i, f) => i = name[f] /\ i # 0
      BY <1>8, <2>1 DEF NoInode, Serves
    <3>2. \A f, g \in Files : name[f] = name[g] /\ name[f] # 0 => f = g
      BY <1>2 DEF Files, NoInode
    <3>3. QED BY <3>1, <3>2
  <2>4. name[Base] # NoInode
    BY <1>2 DEF NoInode
  <2>5. \A f \in Files : name[f] \in 0..Len(content) /\ tmp[f] \in 0..Len(content)
    BY <1>4, <1>8, <2>2 DEF NoInode
  <2>6. QED BY <1>7, <1>8, <2>3, <2>4, <2>5 DEF InodesInv
<1>10. AloneInv
  BY <1>7 DEF AloneInv, HasOpen
<1>11. WholeUnlessShared
  BY <1>2, <1>4 DEF WholeUnlessShared, Files, Read, NoInode
<1>12. QED BY <1>6, <1>9, <1>10, <1>11 DEF FilesInv

-----------------------------------------------------------------------------
\* The bodies that PUTs carry are sequences of tokens.
LEMMA BodiesAreTexts ==
  /\ \A f \in Files : \A b \in Bodies[f] : b \in Seq(Tokens)
  /\ \A f \in Files : Shipped[f] \in Seq(Tokens)
  BY FilesAssumption

\* Every step of the handlers keeps the variables in their types.
LEMMA FilesTypeStep == FilesTypeOK /\ InodesInv /\ [FilesNext]_filesVars => FilesTypeOK'
<1> SUFFICES ASSUME FilesTypeOK, InodesInv, [FilesNext]_filesVars PROVE FilesTypeOK'
  OBVIOUS
<1>0. /\ content \in Seq(Seq(Tokens)) /\ name \in [Files -> Nat] /\ tmp \in [Files -> Nat]
      /\ put \in [Handlers -> Requests] /\ puts \in Nat
      /\ shared \subseteq Files /\ spliced \subseteq Files /\ unsignalled \in BOOLEAN
      /\ Len(content) \in Nat
  BY LenProperties DEF FilesTypeOK
<1>1. Idle \in Requests
  BY EmptySeq DEF Idle, Requests, Files, NoInode
<1>2. ASSUME NEW h \in Handlers
      PROVE  /\ put[h].file \in Files /\ put[h].body \in Seq(Tokens)
             /\ \A pc \in {"write", "rename", "remove", "signal"} :
                  [put[h] EXCEPT !.pc = pc] \in Requests
             /\ \A fd \in Nat : [put[h] EXCEPT !.pc = "write", !.fd = fd] \in Requests
  BY <1>0 DEF Requests
<1>3. ASSUME NEW h \in Handlers, NEW f \in Files, NEW b \in Bodies[f], Put(h, f, b)
      PROVE  FilesTypeOK'
  <2>1. [pc |-> "open", file |-> f, body |-> b, fd |-> NoInode] \in Requests
    BY BodiesAreTexts DEF Requests, NoInode
  <2>2. put' \in [Handlers -> Requests] /\ puts' \in Nat
    BY <1>0, <1>3, <2>1 DEF Put
  <2>3. QED BY <1>0, <1>3, <2>2 DEF Put, FilesTypeOK
<1>4. ASSUME NEW h \in Handlers, Open(h) PROVE FilesTypeOK'
  <2> DEFINE f == put[h].file
             i == IF tmp[f] = NoInode THEN Len(content) + 1 ELSE tmp[f]
  <2>1. f \in Files /\ i \in Nat
    <3>1. f \in Files
      BY <1>2
    <3>2. tmp[f] \in Nat
      BY <1>0, <3>1
    <3>3. QED BY <1>0, <3>1, <3>2
  <2>2. content' \in Seq(Seq(Tokens))
    <3>1. <<>> \in Seq(Tokens)
      OBVIOUS
    <3>2. CASE tmp[f] = NoInode
      BY <1>0, <1>4, <3>1, <3>2, AppendProperties DEF Open
    <3>3. CASE tmp[f] # NoInode
      <4>1. content' = [content EXCEPT ![tmp[f]] = <<>>]
        BY <1>4, <3>3 DEF Open
      <4>2. tmp[f] \in 1..Len(content)
        BY <1>0, <2>1, <3>3 DEF InodesInv, NoInode
      <4>3. QED BY <1>0, <3>1, <4>1, <4>2, ExceptSeq
    <3>4. QED BY <3>2, <3>3
  <2>3. put' \in [Handlers -> Requests] /\ tmp' \in [Files -> Nat] /\ shared' \subseteq Files
    BY <1>0, <1>2, <1>4, <2>1 DEF Open
  <2>4. QED BY <1>0, <1>4, <2>2, <2>3 DEF Open, FilesTypeOK
<1>5. ASSUME NEW h \in Handlers, put[h].pc = "write", NEW new \in Seq(Tokens)
      PROVE  [content EXCEPT ![put[h].fd] = Overlay(new, @)] \in Seq(Seq(Tokens))
  <2>1. put[h].fd \in 1..Len(content)
    BY <1>5 DEF InodesInv
  <2>2. content[put[h].fd] \in Seq(Tokens)
    BY <1>0, <2>1, ElementOfSeq
  <2>3. QED BY <1>0, <2>1, <2>2, OverlayType, ExceptSeq
<1>6. ASSUME NEW h \in Handlers, Write(h) PROVE FilesTypeOK'
  <2>1. content' \in Seq(Seq(Tokens))
    BY <1>2, <1>5, <1>6 DEF Write
  <2>2. put' \in [Handlers -> Requests]
    BY <1>0, <1>2, <1>6 DEF Write, Goto
  <2>3. QED BY <1>0, <1>6, <2>1, <2>2 DEF Write, FilesTypeOK
<1>7. ASSUME NEW h \in Handlers, NEW n \in Cuts, WriteFails(h, n) PROVE FilesTypeOK'
  <2>1. SubSeq(put[h].body, 1, n) \in Seq(Tokens)
    BY <1>2, <1>7, CutType, FilesAssumption DEF WriteFails
  <2>2. content' \in Seq(Seq(Tokens))
    BY <1>5, <1>7, <2>1 DEF WriteFails
  <2>3. put' \in [Handlers -> Requests] /\ spliced' \subseteq Files
    BY <1>0, <1>1, <1>2, <1>7 DEF WriteFails, Done
  <2>4. QED BY <1>0, <1>7, <2>2, <2>3 DEF WriteFails, FilesTypeOK
<1>8. ASSUME NEW h \in Handlers, Rename(h) PROVE FilesTypeOK'
  <2>1. put' \in [Handlers -> Requests]
    BY <1>0, <1>2, <1>8 DEF Rename, Goto
  <2>2. name' \in [Files -> Nat] /\ tmp' \in [Files -> Nat]
    <3>1. put[h].file \in Files /\ tmp[put[h].file] \in Nat /\ NoInode \in Nat
      BY <1>0, <1>2 DEF NoInode
    <3>2. CASE tmp[put[h].file] = NoInode
      BY <1>0, <1>8, <3>2 DEF Rename
    <3>3. CASE tmp[put[h].file] # NoInode
      <4>1. /\ name' = [name EXCEPT ![put[h].file] = tmp[put[h].file]]
            /\ tmp' = [tmp EXCEPT ![put[h].file] = NoInode]
        BY <1>8, <3>3 DEF Rename
      <4>2. QED BY <1>0, <3>1, <4>1
    <3>4. QED BY <3>2, <3>3
  <2>3. QED BY <1>0, <1>8, <2>1, <2>2 DEF Rename, FilesTypeOK
<1>9. ASSUME NEW h \in Handlers, RemoveTmp(h) \/ Signal(h) PROVE FilesTypeOK'
  <2>1. put' \in [Handlers -> Requests]
    BY <1>0, <1>1, <1>9 DEF RemoveTmp, Signal, Done
  <2>2. tmp' \in [Files -> Nat]
    BY <1>0, <1>9 DEF RemoveTmp, Signal, NoInode
  <2>3. QED BY <1>0, <1>9, <2>1, <2>2 DEF RemoveTmp, Signal, FilesTypeOK
<1>10. CASE BackendKilled
  <2>1. put' \in [Handlers -> Requests]
    BY <1>1, <1>10 DEF BackendKilled
  <2>2. unsignalled' \in BOOLEAN
    BY <1>10 DEF BackendKilled
  <2>3. QED BY <1>0, <1>10, <2>1, <2>2 DEF BackendKilled, FilesTypeOK
<1>11. CASE UNCHANGED filesVars
  BY <1>11 DEF filesVars, FilesTypeOK
<1>12. QED
  BY <1>3, <1>4, <1>6, <1>7, <1>8, <1>9, <1>10, <1>11 DEF FilesNext, HandlerStep

-----------------------------------------------------------------------------
\* No step makes an inode serve another file: only opening a .tmp that is not
\* there makes a new one.
LEMMA ServesShrinks ==
  ASSUME FilesTypeOK, InodesInv, [FilesNext]_filesVars
  PROVE  \E g \in Files : \A i, f :
           f \in Files /\ Serves(i, f)' =>
             Serves(i, f) \/ (i = Len(content) + 1 /\ Len(content') = Len(content) + 1 /\ f = g)
<1> DEFINE Goal == \E g \in Files : \A i, f :
             f \in Files /\ Serves(i, f)' =>
               Serves(i, f) \/ (i = Len(content) + 1 /\ Len(content') = Len(content) + 1 /\ f = g)
<1>0. /\ content \in Seq(Seq(Tokens)) /\ name \in [Files -> Nat] /\ tmp \in [Files -> Nat]
      /\ put \in [Handlers -> Requests] /\ Len(content) \in Nat
      /\ \A h \in Handlers : put[h].file \in Files
  BY LenProperties DEF FilesTypeOK, Requests
<1>1. SUFFICES ASSUME ~(\A i, f : f \in Files /\ Serves(i, f)' => Serves(i, f)) PROVE Goal
  <2>1. Base \in Files
    BY DEF Files
  <2>2. QED BY <1>1, <2>1
<1>2. ASSUME NEW h \in Handlers, NEW f \in Files, NEW b \in Bodies[f], Put(h, f, b) PROVE FALSE
  BY <1>0, <1>1, <1>2 DEF Put, Serves, HasOpen
<1>3. ASSUME NEW h \in Handlers, Open(h) PROVE Goal
  <2> DEFINE f == put[h].file
             i == IF tmp[f] = NoInode THEN Len(content) + 1 ELSE tmp[f]
  <2>1. /\ f \in Files /\ name' = name /\ tmp' = [tmp EXCEPT ![f] = i]
        /\ put' = [put EXCEPT ![h] = [put[h] EXCEPT !.pc = "write", !.fd = i]]
    BY <1>0, <1>3 DEF Open
  <2>2. ASSUME NEW j, NEW g, g \in Files, Serves(j, g)' PROVE Serves(j, g) \/ (j = i /\ g = f)
    <3>1. CASE j = name[g] \/ (j = tmp[g] /\ g # f)
      BY <2>1, <2>2, <3>1 DEF Serves
    <3>2. CASE j = tmp'[g] /\ g = f
      BY <1>0, <2>1, <3>2
    <3>3. ASSUME NEW k \in Handlers, HasOpen(k, g)', put'[k].fd = j PROVE Serves(j, g) \/ (j = i /\ g = f)
      <4>1. CASE k = h
        BY <1>0, <2>1, <3>3, <4>1 DEF HasOpen, Requests
      <4>2. CASE k # h
        <5>1. put'[k] = put[k]
          BY <1>0, <2>1, <4>2
        <5>2. QED BY <2>2, <3>3, <5>1 DEF HasOpen, Serves
      <4>3. QED BY <4>1, <4>2
    <3>4. QED BY <1>0, <2>1, <2>2, <3>1, <3>2, <3>3 DEF Serves
  <2>3. tmp[f] # NoInode => Serves(i, f)
    BY DEF Serves
  <2>4. tmp[f] = NoInode => i = Len(content) + 1 /\ Len(content') = Len(content) + 1
    <3>1. <<>> \in Seq(Tokens)
      OBVIOUS
    <3>2. QED BY <1>0, <1>3, <3>1, AppendProperties DEF Open
  <2>5. QED BY <2>1, <2>2, <2>3, <2>4
<1>4. ASSUME NEW h \in Handlers,
             Write(h) \/ (\E n \in Cuts : WriteFails(h, n)) \/ RemoveTmp(h) \/ Signal(h)
      PROVE  FALSE
  <2>1. name' = name /\ (tmp' = tmp \/ tmp' = [tmp EXCEPT ![put[h].file] = NoInode])
    BY <1>4 DEF Write, WriteFails, RemoveTmp, Signal
  <2>2. \/ put[h].pc = "write" /\ put' = [put EXCEPT ![h] = [put[h] EXCEPT !.pc = "rename"]]
        \/ put' = [put EXCEPT ![h] = Idle]
    BY <1>0, <1>4 DEF Write, WriteFails, RemoveTmp, Signal, Goto, Done
  <2>3. ASSUME NEW i, NEW f, f \in Files, Serves(i, f)' PROVE Serves(i, f)
    <3>1. tmp'[f] = tmp[f] \/ tmp'[f] = NoInode
      <4>1. f \in Files
        BY <2>3
      <4>2. QED BY <1>0, <2>1, <4>1
    <3>2. ASSUME NEW k \in Handlers, HasOpen(k, f)', put'[k].fd = i
          PROVE  HasOpen(k, f) /\ put[k].fd = i
      <4>1. CASE k = h
        <5>1. put[h].pc = "write" /\ put'[h] = [put[h] EXCEPT !.pc = "rename"]
          <6>1. CASE put' = [put EXCEPT ![h] = Idle]
            BY <1>0, <3>2, <4>1, <6>1 DEF HasOpen, Idle
          <6>2. CASE put[h].pc = "write" /\ put' = [put EXCEPT ![h] = [put[h] EXCEPT !.pc = "rename"]]
            BY <1>0, <6>2
          <6>3. QED BY <2>2, <6>1, <6>2
        <5>2. put'[h].file = put[h].file /\ put'[h].fd = put[h].fd
          BY <1>0, <5>1 DEF Requests
        <5>3. QED BY <3>2, <4>1, <5>1, <5>2 DEF HasOpen
      <4>2. CASE k # h
        <5>1. put'[k] = put[k]
          BY <1>0, <2>2, <4>2
        <5>2. QED BY <3>2, <5>1 DEF HasOpen
      <4>3. QED BY <4>1, <4>2
    <3>3. QED BY <2>1, <2>3, <3>1, <3>2 DEF Serves
  <2>4. QED BY <1>1, <2>3
<1>5. ASSUME NEW h \in Handlers, Rename(h) PROVE FALSE
  <2>1. ASSUME NEW i, NEW f, f \in Files, Serves(i, f)' PROVE Serves(i, f)
    <3>1. /\ name'[f] = name[f] \/ name'[f] = tmp[f]
          /\ tmp'[f] = tmp[f] \/ tmp'[f] = NoInode
      <4>1. CASE tmp[put[h].file] = NoInode
        BY <1>0, <1>5, <2>1, <4>1 DEF Rename
      <4>2. CASE tmp[put[h].file] # NoInode
        BY <1>0, <1>5, <2>1, <4>2 DEF Rename
      <4>3. QED BY <4>1, <4>2
    <3>2. \/ put' = [put EXCEPT ![h] = [put[h] EXCEPT !.pc = "remove"]]
          \/ put' = [put EXCEPT ![h] = [put[h] EXCEPT !.pc = "signal"]]
      BY <1>0, <1>5 DEF Rename, Goto
    <3>3. ASSUME NEW k \in Handlers, HasOpen(k, f)', put'[k].fd = i
          PROVE  HasOpen(k, f) /\ put[k].fd = i
      <4>1. k # h
        BY <1>0, <3>2, <3>3 DEF HasOpen, Requests
      <4>2. put'[k] = put[k]
        BY <1>0, <3>2, <4>1
      <4>3. QED BY <3>3, <4>2 DEF HasOpen
    <3>4. QED BY <2>1, <3>1, <3>3 DEF Serves
  <2>2. QED BY <1>1, <2>1
<1>6. CASE BackendKilled
  BY <1>1, <1>6 DEF BackendKilled, Serves, HasOpen, Idle
<1>7. CASE UNCHANGED filesVars
  BY <1>1, <1>7 DEF filesVars, Serves, HasOpen
<1>8. QED
  BY <1>2, <1>3, <1>4, <1>5, <1>6, <1>7 DEF FilesNext, HandlerStep

-----------------------------------------------------------------------------
\* What a handler writes to, no other handler has open and nothing is linked
\* to as a file, but in a file that two of them opened at one time.
LEMMA Foreign ==
  ASSUME FilesInv, NEW h \in Handlers, HasOpen(h, put[h].file)
  PROVE  /\ put[h].fd \in 1..Len(content)
         /\ \A f \in Files \ shared : name[f] # put[h].fd
         /\ \A k \in Handlers \ {h} :
              HasOpen(k, put[k].file) /\ put[k].file \notin shared =>
                put[k].file # put[h].file /\ put[k].fd # put[h].fd
<1>1. /\ put[h].fd \in 1..Len(content) /\ put[h].fd # NoInode /\ put[h].file \in Files
      /\ \A k \in Handlers : put[k].file \in Files
  BY DEF FilesInv, FilesTypeOK, Requests, InodesInv, HasOpen, NoInode
<1>2. Serves(put[h].fd, put[h].file)
  BY <1>1 DEF Serves
<1>3. ASSUME NEW f \in Files \ shared PROVE name[f] # put[h].fd
  <2>1. CASE f = put[h].file
    BY <1>1, <1>3, <2>1 DEF FilesInv, InodesInv, AloneInv
  <2>2. CASE f # put[h].file
    <3>1. ~Serves(put[h].fd, f)
      BY <1>1, <1>2, <2>2 DEF FilesInv, InodesInv
    <3>2. QED BY <1>1, <3>1 DEF Serves
  <2>3. QED BY <2>1, <2>2
<1>4. ASSUME NEW k \in Handlers \ {h}, HasOpen(k, put[k].file), put[k].file \notin shared
      PROVE  put[k].file # put[h].file /\ put[k].fd # put[h].fd
  <2>1. put[k].file # put[h].file
    BY <1>4 DEF FilesInv, AloneInv
  <2>2. ~Serves(put[h].fd, put[k].file)
    BY <1>1, <1>2, <2>1 DEF FilesInv, InodesInv
  <2>3. QED BY <1>1, <1>4, <2>1, <2>2 DEF Serves
<1>5. QED BY <1>1, <1>3, <1>4

\* Nobody changes the inode a file is linked to, nor the one another handler
\* has open, unless two handlers have the .tmp of that file open.
LEMMA ContentStays ==
  ASSUME FilesInv, [FilesNext]_filesVars
  PROVE  /\ shared \subseteq shared'
         /\ \A f \in Files \ shared : name[f] # NoInode => content'[name[f]] = content[name[f]]
         /\ \A k \in Handlers :
              HasOpen(k, put[k].file) /\ put[k].file \notin shared' /\ put'[k] = put[k] =>
                content'[put[k].fd] = content[put[k].fd]
<1> DEFINE Goal ==
      /\ shared \subseteq shared'
      /\ \A f \in Files \ shared : name[f] # NoInode => content'[name[f]] = content[name[f]]
      /\ \A k \in Handlers :
           HasOpen(k, put[k].file) /\ put[k].file \notin shared' /\ put'[k] = put[k] =>
             content'[put[k].fd] = content[put[k].fd]
<1>0. /\ content \in Seq(Seq(Tokens)) /\ name \in [Files -> Nat] /\ tmp \in [Files -> Nat]
      /\ put \in [Handlers -> Requests] /\ Len(content) \in Nat
      /\ \A h \in Handlers : put[h].file \in Files
  BY LenProperties DEF FilesInv, FilesTypeOK, Requests
<1>1. ASSUME NEW h \in Handlers, HasOpen(h, put[h].file), shared' = shared, put'[h] # put[h],
             NEW x, content' = [content EXCEPT ![put[h].fd] = x]
      PROVE  Goal
  <2>1. \A j \in 1..Len(content) : j # put[h].fd => content'[j] = content[j]
    BY <1>0, <1>1
  <2>2. ASSUME NEW f \in Files \ shared, name[f] # NoInode PROVE content'[name[f]] = content[name[f]]
    <3>1. name[f] \in 1..Len(content)
      BY <1>0, <2>2 DEF FilesInv, InodesInv, NoInode
    <3>2. QED BY <1>1, <2>1, <3>1, Foreign
  <2>3. ASSUME NEW k \in Handlers, HasOpen(k, put[k].file), put[k].file \notin shared', put'[k] = put[k]
        PROVE  content'[put[k].fd] = content[put[k].fd]
    <3>1. k # h
      BY <1>1, <2>3
    <3>2. put[k].fd # put[h].fd
      BY <1>1, <2>3, <3>1, Foreign
    <3>3. put[k].fd \in 1..Len(content)
      BY <2>3, Foreign
    <3>4. QED BY <2>1, <3>2, <3>3
  <2>4. QED BY <1>1, <2>2, <2>3
<1>2. ASSUME NEW h \in Handlers, Write(h) \/ \E n \in Cuts : WriteFails(h, n) PROVE Goal
  <2>1. HasOpen(h, put[h].file) /\ shared' = shared
    BY <1>2 DEF Write, WriteFails, HasOpen
  <2>2. put'[h].pc # "write" /\ put[h].pc = "write"
    BY <1>0, <1>2 DEF Write, WriteFails, Goto, Done, Idle, Requests
  <2>3. \E x : content' = [content EXCEPT ![put[h].fd] = x]
    BY <1>2 DEF Write, WriteFails
  <2>4. QED BY <1>1, <2>1, <2>2, <2>3
<1>3. ASSUME NEW h \in Handlers, Open(h) PROVE Goal
  <2> DEFINE f == put[h].file
             i == IF tmp[f] = NoInode THEN Len(content) + 1 ELSE tmp[f]
  <2>1. f \in Files /\ shared \subseteq shared' /\ (f \notin shared' => \A g \in Handlers : ~HasOpen(g, f))
    BY <1>0, <1>3 DEF Open
  <2>2. \A j \in 1..Len(content) : j # i => content'[j] = content[j]
    <3>1. CASE tmp[f] = NoInode
      <4>1. <<>> \in Seq(Tokens)
        OBVIOUS
      <4>2. QED BY <1>0, <1>3, <3>1, <4>1, AppendProperties DEF Open
    <3>2. CASE tmp[f] # NoInode
      BY <1>0, <1>3, <3>2 DEF Open
    <3>3. QED BY <3>1, <3>2
  <2>3. \A g \in Files, j \in 1..Len(content) : g # f /\ Serves(j, g) => j # i
    <3>1. tmp[f] # NoInode => Serves(tmp[f], f)
      BY DEF Serves
    <3>2. QED BY <1>0, <2>1, <3>1 DEF FilesInv, InodesInv
  <2>4. ASSUME NEW g \in Files \ shared, name[g] # NoInode PROVE content'[name[g]] = content[name[g]]
    <3>1. name[g] \in 1..Len(content) /\ Serves(name[g], g)
      BY <1>0, <2>4 DEF FilesInv, InodesInv, NoInode, Serves
    <3>2. name[g] # i
      BY <1>0, <2>3, <2>4, <3>1 DEF FilesInv, InodesInv
    <3>3. QED BY <2>2, <3>1, <3>2
  <2>5. ASSUME NEW k \in Handlers, HasOpen(k, put[k].file), put[k].file \notin shared'
        PROVE  content'[put[k].fd] = content[put[k].fd]
    <3>1. put[k].fd \in 1..Len(content) /\ put[k].file \in Files
      BY <1>0, <2>5, Foreign
    <3>2. put[k].file # f
      BY <2>1, <2>5
    <3>3. Serves(put[k].fd, put[k].file)
      BY <2>5, <3>1 DEF Serves, NoInode
    <3>4. put[k].fd # i
      BY <2>3, <3>1, <3>2, <3>3
    <3>5. QED BY <2>2, <3>1, <3>4
  <2>6. QED BY <2>1, <2>4, <2>5
<1>4. CASE content' = content /\ shared' = shared
  BY <1>4
<1>5. QED
  BY <1>2, <1>3, <1>4 DEF FilesNext, HandlerStep, Put, Rename, RemoveTmp, Signal, BackendKilled, filesVars

\* How names move: a file takes over its .tmp, which is gone then; a .tmp comes
\* with a new inode.
LEMMA NamesMove ==
  ASSUME FilesInv, [FilesNext]_filesVars
  PROVE  /\ Len(content') \in {Len(content), Len(content) + 1}
         /\ \A f \in Files :
              \/ name'[f] = name[f] /\ tmp'[f] \in {tmp[f], NoInode}
              \/ name'[f] = tmp[f] /\ tmp[f] # NoInode /\ tmp'[f] = NoInode
              \/ /\ name'[f] = name[f] /\ tmp[f] = NoInode
                 /\ tmp'[f] = Len(content) + 1 /\ Len(content') = Len(content) + 1
<1> DEFINE Goal ==
      /\ Len(content') \in {Len(content), Len(content) + 1}
      /\ \A f \in Files :
           \/ name'[f] = name[f] /\ tmp'[f] \in {tmp[f], NoInode}
           \/ name'[f] = tmp[f] /\ tmp[f] # NoInode /\ tmp'[f] = NoInode
           \/ /\ name'[f] = name[f] /\ tmp[f] = NoInode
              /\ tmp'[f] = Len(content) + 1 /\ Len(content') = Len(content) + 1
<1>0. /\ content \in Seq(Seq(Tokens)) /\ name \in [Files -> Nat] /\ tmp \in [Files -> Nat]
      /\ put \in [Handlers -> Requests] /\ Len(content) \in Nat
      /\ \A h \in Handlers : put[h].file \in Files
  BY LenProperties DEF FilesInv, FilesTypeOK, Requests
<1>1. ASSUME NEW h \in Handlers, Open(h) PROVE Goal
  <2>1. put[h].file \in Files /\ name' = name
    BY <1>0, <1>1 DEF Open
  <2>2. CASE tmp[put[h].file] = NoInode
    <3>1. <<>> \in Seq(Tokens)
      OBVIOUS
    <3>2. Len(content') = Len(content) + 1
      BY <1>0, <1>1, <2>2, <3>1, AppendProperties DEF Open
    <3>3. tmp' = [tmp EXCEPT ![put[h].file] = Len(content) + 1]
      BY <1>1, <2>2 DEF Open
    <3>4. QED BY <1>0, <2>1, <2>2, <3>2, <3>3
  <2>3. CASE tmp[put[h].file] # NoInode
    <3>1. tmp' = [tmp EXCEPT ![put[h].file] = tmp[put[h].file]]
      BY <1>1, <2>3 DEF Open
    <3>2. content' = [content EXCEPT ![tmp[put[h].file]] = <<>>]
      BY <1>1, <2>3 DEF Open
    <3>3. QED BY <1>0, <2>1, <3>1, <3>2
  <2>4. QED BY <2>2, <2>3
<1>2. ASSUME NEW h \in Handlers, Write(h) \/ \E n \in Cuts : WriteFails(h, n) PROVE Goal
  <2>1. \E x : content' = [content EXCEPT ![put[h].fd] = x]
    BY <1>2 DEF Write, WriteFails
  <2>2. Len(content') = Len(content)
    BY <1>0, <2>1
  <2>3. QED BY <1>2, <2>2 DEF Write, WriteFails
<1>3. ASSUME NEW h \in Handlers, Rename(h) PROVE Goal
  <2>1. CASE tmp[put[h].file] = NoInode
    BY <1>3, <2>1 DEF Rename
  <2>2. CASE tmp[put[h].file] # NoInode
    BY <1>0, <1>3, <2>2 DEF Rename
  <2>3. QED BY <2>1, <2>2
<1>4. ASSUME NEW h \in Handlers, RemoveTmp(h) PROVE Goal
  BY <1>0, <1>4 DEF RemoveTmp
<1>5. CASE UNCHANGED <<content, name, tmp>>
  BY <1>5
<1>6. QED
  BY <1>1, <1>2, <1>3, <1>4, <1>5
     DEF FilesNext, HandlerStep, Put, Signal, BackendKilled, filesVars

\* Whoever has a .tmp open after a step had it open before with the same
\* descriptor, or is the one who opened it.
LEMMA OpenMoves ==
  ASSUME FilesInv, [FilesNext]_filesVars, NEW h \in Handlers, put'[h].pc \in {"write", "rename"}
  PROVE  /\ put'[h].file = put[h].file /\ put'[h].body = put[h].body /\ put[h].pc # "idle"
         /\ \/ HasOpen(h, put[h].file) /\ put'[h].fd = put[h].fd
            \/ Open(h) /\ put'[h].fd = tmp'[put[h].file] /\ put'[h].pc = "write"
<1>0. /\ tmp \in [Files -> Nat] /\ put \in [Handlers -> Requests] /\ put[h].file \in Files
  BY DEF FilesInv, FilesTypeOK, Requests
<1>1. CASE put'[h] = put[h]
  BY <1>1 DEF HasOpen
<1>2. CASE Open(h)
  BY <1>0, <1>2 DEF Open, Requests
<1>3. CASE Write(h)
  BY <1>0, <1>3 DEF Write, Goto, HasOpen, Requests
<1>4. CASE put'[h].pc \notin {"write", "rename"}
  BY <1>4
<1>5. ASSUME NEW k \in Handlers, HandlerStep(k) \/ Signal(k)
      PROVE  put'[h] = put[h] \/ Open(h) \/ Write(h) \/ put'[h].pc \notin {"write", "rename"}
  <2>1. CASE k # h
    BY <1>0, <1>5, <2>1
       DEF HandlerStep, Put, Open, Write, WriteFails, Rename, RemoveTmp, Signal, Goto, Done
  <2>2. CASE k = h
    BY <1>0, <1>5, <2>2
       DEF HandlerStep, Put, WriteFails, Rename, RemoveTmp, Signal, Goto, Done, Idle, Requests
  <2>3. QED BY <2>1, <2>2
<1>6. BackendKilled => put'[h].pc \notin {"write", "rename"}
  BY DEF BackendKilled, Idle
<1>7. UNCHANGED filesVars => put'[h] = put[h]
  BY DEF filesVars
<1>8. QED BY <1>1, <1>2, <1>3, <1>4, <1>5, <1>6, <1>7 DEF FilesNext

\* An inode goes on serving one file.
LEMMA InodesStep == FilesInv /\ [FilesNext]_filesVars => InodesInv'
<1> SUFFICES ASSUME FilesInv, [FilesNext]_filesVars PROVE InodesInv'
  OBVIOUS
<1>0. /\ name \in [Files -> Nat] /\ tmp \in [Files -> Nat] /\ Len(content) \in Nat
      /\ name' \in [Files -> Nat] /\ tmp' \in [Files -> Nat] /\ Len(content') \in Nat
      /\ FilesTypeOK /\ InodesInv /\ put \in [Handlers -> Requests]
  <2>1. FilesTypeOK /\ InodesInv /\ FilesTypeOK'
    BY FilesTypeStep DEF FilesInv
  <2>2. QED BY <2>1, LenProperties DEF FilesTypeOK
<1>1. name'[Base] # NoInode
  BY <1>0, NamesMove DEF InodesInv, Files
<1>2. \A f \in Files : name'[f] \in 0..Len(content') /\ tmp'[f] \in 0..Len(content')
  BY <1>0, NamesMove DEF InodesInv, NoInode
<1>3. \A f \in Files : name'[f] # NoInode => name'[f] # tmp'[f]
  BY <1>0, NamesMove DEF InodesInv, NoInode
<1>4. ASSUME NEW h \in Handlers, put'[h].pc \in {"write", "rename"} PROVE put'[h].fd \in 1..Len(content')
  <2>1. CASE HasOpen(h, put[h].file) /\ put'[h].fd = put[h].fd
    BY <1>0, <2>1, Foreign, NamesMove
  <2>2. CASE Open(h) /\ put'[h].fd = tmp'[put[h].file]
    <3>1. put[h].file \in Files
      BY <1>0 DEF Requests
    <3>2. tmp'[put[h].file] # NoInode
      BY <1>0, <2>2, <3>1 DEF Open, NoInode
    <3>3. QED BY <1>0, <1>2, <2>2, <3>1, <3>2 DEF NoInode
  <2>3. QED BY <1>4, <2>1, <2>2, OpenMoves
<1>5. ASSUME NEW i \in 1..Len(content'), NEW f \in Files, NEW g \in Files, Serves(i, f)', Serves(i, g)'
      PROVE  f = g
  <2>1. PICK new \in Files : \A j, e :
           e \in Files /\ Serves(j, e)' =>
             Serves(j, e) \/ (j = Len(content) + 1 /\ Len(content') = Len(content) + 1 /\ e = new)
    BY <1>0, ServesShrinks
  <2>2. \A e \in Files : ~Serves(Len(content) + 1, e)
    <3>1. ASSUME NEW e \in Files PROVE name[e] # Len(content) + 1 /\ tmp[e] # Len(content) + 1
      <4>1. name[e] \in 0..Len(content) /\ tmp[e] \in 0..Len(content)
        BY <1>0 DEF InodesInv
      <4>2. Len(content) \in Nat /\ name[e] \in Nat /\ tmp[e] \in Nat
        BY <1>0
      <4>3. QED BY <4>1, <4>2
    <3>2. ASSUME NEW h \in Handlers, NEW e \in Files, HasOpen(h, e) PROVE put[h].fd # Len(content) + 1
      <4>1. put[h].fd \in 1..Len(content) /\ Len(content) \in Nat
        BY <1>0, <3>2 DEF InodesInv, HasOpen
      <4>2. QED BY <4>1
    <3>3. QED BY <3>1, <3>2 DEF Serves
  <2>3. CASE i = Len(content) + 1
    BY <1>5, <2>1, <2>2, <2>3
  <2>4. CASE i # Len(content) + 1
    <3>1. Serves(i, f) /\ Serves(i, g) /\ i \in 1..Len(content)
      BY <1>0, <1>5, <2>1, <2>4, NamesMove
    <3>2. QED BY <1>0, <3>1 DEF InodesInv
  <2>5. QED BY <2>3, <2>4
<1>6. QED BY <1>1, <1>2, <1>3, <1>4, <1>5 DEF InodesInv

\* A handler that is alone with its .tmp finds there what it left.
LEMMA AloneStep == FilesInv /\ [FilesNext]_filesVars => AloneInv'
<1> SUFFICES ASSUME FilesInv, [FilesNext]_filesVars, NEW h \in Handlers
             PROVE  /\ put'[h].pc # "idle" => put'[h].body \in Bodies[put'[h].file]
                    /\ put'[h].pc = "remove" => put'[h].file \in shared'
                    /\ put'[h].pc \in {"write", "rename"} /\ put'[h].file \notin shared' =>
                         /\ put'[h].fd = tmp'[put'[h].file]
                         /\ content'[put'[h].fd] = IF put'[h].pc = "write" THEN <<>> ELSE put'[h].body
                         /\ \A g \in Handlers :
                              put'[g].pc \in {"write", "rename"} /\ put'[g].file = put'[h].file => g = h
  BY DEF AloneInv, HasOpen
<1>0. /\ content \in Seq(Seq(Tokens)) /\ Len(content) \in Nat
      /\ name \in [Files -> Nat] /\ tmp \in [Files -> Nat] /\ put \in [Handlers -> Requests]
      /\ \A k \in Handlers : put[k].file \in Files /\ put[k].body \in Seq(Tokens)
      /\ InodesInv /\ AloneInv /\ shared \subseteq shared'
  BY LenProperties, ContentStays DEF FilesInv, FilesTypeOK, Requests
\* What a step of another handler, or of this one, does to its request.
<1>1. \/ put'[h] = put[h]
      \/ put'[h] = Idle
      \/ \E f \in Files : \E b \in Bodies[f] : Put(h, f, b)
      \/ Open(h) \/ Write(h) \/ Rename(h)
  <2>1. ASSUME NEW k \in Handlers, HandlerStep(k) \/ Signal(k), k # h PROVE put'[h] = put[h]
    BY <1>0, <2>1 DEF HandlerStep, Put, Open, Write, WriteFails, Rename, RemoveTmp, Signal, Goto, Done
  <2>2. ASSUME (\E n \in Cuts : WriteFails(h, n)) \/ RemoveTmp(h) \/ Signal(h)
        PROVE  put'[h] = Idle
    BY <1>0, <2>2 DEF WriteFails, RemoveTmp, Signal, Done
  <2>3. BackendKilled => put'[h] = Idle
    BY DEF BackendKilled
  <2>4. UNCHANGED filesVars => put'[h] = put[h]
    BY DEF filesVars
  <2>5. QED BY <2>1, <2>2, <2>3, <2>4 DEF FilesNext, HandlerStep
<1>2. /\ put'[h].pc # "idle" => put'[h].body \in Bodies[put'[h].file]
      /\ put'[h].pc = "remove" => put'[h].file \in shared'
  <2>1. CASE put'[h] = put[h]
    BY <1>0, <2>1 DEF AloneInv
  <2>2. CASE put'[h] = Idle
    BY <2>2 DEF Idle
  <2>3. ASSUME NEW f \in Files, NEW b \in Bodies[f], Put(h, f, b)
        PROVE  put'[h].pc = "open" /\ put'[h].body \in Bodies[put'[h].file]
    BY <1>0, <2>3 DEF Put
  <2>4. CASE Open(h) \/ Write(h)
    <3>1. put[h].pc # "idle" /\ put'[h].pc # "remove"
      BY <1>0, <2>4 DEF Open, Write, Goto, Requests
    <3>2. put'[h].body = put[h].body /\ put'[h].file = put[h].file
      BY <1>0, <2>4 DEF Open, Write, Goto, Requests
    <3>3. QED BY <1>0, <3>1, <3>2 DEF AloneInv
  <2>5. CASE Rename(h)
    <3>1. put'[h].body = put[h].body /\ put'[h].file = put[h].file /\ put[h].pc = "rename"
      BY <1>0, <2>5 DEF Rename, Goto, Requests
    <3>2. put'[h].pc = "remove" => tmp[put[h].file] = NoInode
      BY <1>0, <2>5 DEF Rename, Goto, Requests
    <3>3. put[h].fd # NoInode /\ HasOpen(h, put[h].file)
      BY <1>0, <3>1 DEF InodesInv, NoInode, HasOpen
    <3>4. QED BY <1>0, <3>1, <3>2, <3>3 DEF AloneInv
  <2>6. QED BY <1>1, <2>1, <2>2, <2>3, <2>4, <2>5
<1>3. ASSUME put'[h].pc \in {"write", "rename"}, put'[h].file \notin shared'
      PROVE  /\ put'[h].fd = tmp'[put'[h].file]
             /\ content'[put'[h].fd] = IF put'[h].pc = "write" THEN <<>> ELSE put'[h].body
  <2> DEFINE f == put[h].file
  <2>1. put'[h].file = f /\ put'[h].body = put[h].body /\ f \in Files /\ f \notin shared
    BY <1>0, <1>3, OpenMoves
  <2>2. CASE Open(h)
    <3>1. put'[h].fd = tmp'[f] /\ put'[h].pc = "write"
      BY <1>0, <2>1, <2>2 DEF Open, Requests
    <3>2. content'[tmp'[f]] = <<>>
      <4>1. <<>> \in Seq(Tokens)
        OBVIOUS
      <4>2. CASE tmp[f] = NoInode
        <5>1. content' = Append(content, <<>>) /\ tmp'[f] = Len(content) + 1
          BY <1>0, <2>1, <2>2, <4>2 DEF Open
        <5>2. QED BY <1>0, <4>1, <5>1, AppendProperties
      <4>3. CASE tmp[f] # NoInode
        <5>1. content' = [content EXCEPT ![tmp[f]] = <<>>] /\ tmp'[f] = tmp[f]
          BY <1>0, <2>1, <2>2, <4>3 DEF Open
        <5>2. tmp[f] \in 1..Len(content)
          BY <1>0, <2>1, <4>3 DEF InodesInv, NoInode
        <5>3. QED BY <1>0, <4>1, <5>1, <5>2, ExceptSeq
      <4>4. QED BY <4>2, <4>3
    <3>3. QED BY <2>1, <3>1, <3>2
  <2>3. CASE HasOpen(h, f) /\ put'[h].fd = put[h].fd /\ ~Open(h)
    <3>1. /\ put[h].fd = tmp[f] /\ put[h].fd \in 1..Len(content)
          /\ content[put[h].fd] = IF put[h].pc = "write" THEN <<>> ELSE put[h].body
      BY <1>0, <2>1, <2>3, Foreign DEF AloneInv
    <3>2. tmp'[f] = tmp[f]
      <4>1. ASSUME NEW k \in Handlers, RemoveTmp(k) \/ Rename(k) PROVE put[k].file # f
        <5>1. CASE RemoveTmp(k)
          BY <1>0, <2>1, <5>1 DEF RemoveTmp, AloneInv
        <5>2. CASE Rename(k) /\ k # h
          BY <1>0, <2>1, <2>3, <5>2 DEF Rename, AloneInv, HasOpen
        <5>3. CASE Rename(h)
          BY <1>0, <1>3, <5>3 DEF Rename, Goto, Requests
        <5>4. QED BY <4>1, <5>1, <5>2, <5>3
      <4>2. ASSUME NEW k \in Handlers, RemoveTmp(k) \/ Rename(k) PROVE tmp'[f] = tmp[f]
        <5>1. f # put[k].file
          BY <4>1, <4>2
        <5>2. QED BY <1>0, <4>2, <5>1 DEF RemoveTmp, Rename
      <4>3. ASSUME NEW k \in Handlers, Open(k) PROVE tmp'[f] = tmp[f]
        BY <1>0, <1>3, <2>1, <2>3, <4>3 DEF Open
      <4>4. UNCHANGED tmp => tmp'[f] = tmp[f]
        OBVIOUS
      <4>5. QED
        BY <4>2, <4>3, <4>4 DEF FilesNext, HandlerStep, Put, Write, WriteFails, Signal, BackendKilled, filesVars
    <3>3. CASE put'[h] = put[h]
      BY <1>3, <2>1, <2>3, <3>1, <3>2, <3>3, ContentStays
    <3>4. CASE Write(h)
      <4>1. put'[h].pc = "rename" /\ put[h].pc = "write"
        BY <1>0, <3>4 DEF Write, Goto, Requests
      <4>2. content' = [content EXCEPT ![put[h].fd] = Overlay(put[h].body, @)]
        BY <3>4 DEF Write
      <4>3. content'[put[h].fd] = Overlay(put[h].body, <<>>)
        BY <1>0, <3>1, <4>1, <4>2
      <4>4. QED BY <1>0, <2>1, <2>3, <3>1, <3>2, <4>1, <4>3, OverlayEmpty
    <3>5. put'[h] = put[h] \/ Write(h)
      <4>1. put'[h] # Idle
        BY <1>3 DEF Idle
      <4>2. ~Rename(h)
        BY <1>0, <1>3 DEF Rename, Goto, Requests
      <4>3. ASSUME NEW e \in Files, NEW b \in Bodies[e], Put(h, e, b) PROVE FALSE
        BY <1>0, <1>3, <4>3 DEF Put
      <4>4. QED BY <1>1, <2>3, <4>1, <4>2, <4>3
    <3>6. QED BY <3>3, <3>4, <3>5
  <2>4. QED BY <1>3, <2>2, <2>3, OpenMoves
<1>4. ASSUME put'[h].pc \in {"write", "rename"}, put'[h].file \notin shared',
             NEW g \in Handlers, put'[g].pc \in {"write", "rename"}, put'[g].file = put'[h].file
      PROVE  g = h
  <2> DEFINE f == put[h].file
  <2>1. f = put'[h].file /\ f \notin shared /\ f \notin shared'
    BY <1>0, <1>4, OpenMoves
  <2>2. put'[g].pc \in {"write", "rename"} /\ put[g].file = f
    BY <1>4, <2>1, OpenMoves
  <2>3. ASSUME NEW k \in Handlers, Open(k), put[k].file = f PROVE \A j \in Handlers : ~HasOpen(j, f)
    BY <2>1, <2>3 DEF Open
  <2>4. Open(h) /\ Open(g) => g = h
    BY <1>0 DEF Open, Requests
  <2>5. CASE Open(h) \/ Open(g)
    BY <1>4, <2>2, <2>3, <2>4, <2>5, OpenMoves
  <2>6. CASE ~Open(h) /\ ~Open(g)
    <3>1. HasOpen(h, f) /\ HasOpen(g, f)
      BY <1>4, <2>2, <2>6, OpenMoves
    <3>2. QED BY <1>0, <2>1, <3>1 DEF AloneInv
  <2>7. QED BY <2>5, <2>6
<1>5. QED BY <1>2, <1>3, <1>4

\* No step puts part of a document in place of a file.
LEMMA WholeStep == FilesInv /\ [FilesNext]_filesVars => WholeUnlessShared'
<1> SUFFICES ASSUME FilesInv, [FilesNext]_filesVars, NEW f \in Files \ shared', name'[f] # NoInode
             PROVE  content'[name'[f]] \in Bodies[f] \cup {Shipped[f]}
  BY DEF WholeUnlessShared, Read
<1>0. /\ f \in Files \ shared /\ InodesInv /\ AloneInv /\ put \in [Handlers -> Requests]
      /\ name \in [Files -> Nat] /\ tmp \in [Files -> Nat]
  BY ContentStays DEF FilesInv, FilesTypeOK
<1>1. CASE name'[f] = name[f]
  <2>1. content[name[f]] \in Bodies[f] \cup {Shipped[f]}
    BY <1>0, <1>1 DEF FilesInv, WholeUnlessShared, Read
  <2>2. QED BY <1>0, <1>1, <2>1, ContentStays
<1>2. CASE name'[f] # name[f]
  <2>1. PICK h \in Handlers : Rename(h)
    BY <1>2 DEF FilesNext, HandlerStep, Put, Open, Write, WriteFails, RemoveTmp, Signal, BackendKilled, filesVars
  <2>2. put[h].file = f /\ name'[f] = tmp[f] /\ content' = content /\ put[h].pc = "rename"
    BY <1>0, <1>2, <2>1 DEF Rename
  <2>3. put[h].fd = tmp[f] /\ content[put[h].fd] = put[h].body /\ put[h].body \in Bodies[f]
    BY <1>0, <2>2 DEF AloneInv, HasOpen
  <2>4. QED BY <2>2, <2>3
<1>3. QED BY <1>1, <1>2

\* Put together: the handlers keep the invariant.
LEMMA FilesStep == FilesInv /\ [FilesNext]_filesVars => FilesInv'
<1> SUFFICES ASSUME FilesInv, [FilesNext]_filesVars PROVE FilesInv'
  OBVIOUS
<1>1. FilesTypeOK'
  BY FilesTypeStep DEF FilesInv
<1>2. QED BY <1>1, InodesStep, AloneStep, WholeStep DEF FilesInv

\* The handlers keep it in every execution.
THEOREM FilesInvariance == FilesSpec => []FilesInv
<1>1. QED BY FilesInitInv, FilesStep, PTL DEF FilesSpec

\* PROPERTY WholeUnlessShared: a policy file is a whole document, whatever
\* writes failed and wherever the backend was killed, unless two handlers had
\* its .tmp open at one time.
THEOREM WholeFiles == FilesSpec => []WholeUnlessShared
<1>1. FilesInv => WholeUnlessShared
  BY DEF FilesInv
<1>2. QED BY <1>1, FilesInvariance, PTL

-----------------------------------------------------------------------------
\* What the daemon does leaves the files to the handlers: every step of the
\* whole is one of theirs, or none.
LEMMA ReloadStepIsFiles == [ReloadNext]_vars => [FilesNext]_filesVars
  BY DEF ReloadNext, vars, FilesNext, Boot, Load, Merge, Listen, Die, SignalDaemon, Usr1

\* So the daemon and the handlers together implement the handlers.
THEOREM ReloadImplementsFiles == ReloadSpec => FilesSpec
<1>1. ReloadInit => FilesInit
  BY DEF ReloadInit
<1>2. QED BY <1>1, ReloadStepIsFiles, PTL DEF ReloadSpec, FilesSpec

\* And the files are whole next to a daemon that reads them.
THEOREM WholeFilesToDaemon == ReloadSpec => []WholeUnlessShared
<1>1. QED BY ReloadImplementsFiles, WholeFiles, PTL

-----------------------------------------------------------------------------
\* What was installed or PUT parses to an item, and so does whatever it is
\* written over; cut short it does not.
LEMMA DocumentsParse ==
  ASSUME NEW f \in Files, NEW b \in Bodies[f] \cup {Shipped[f]}
  PROVE  /\ Parse(b) # NULL
         /\ \A old \in Seq(Tokens) : Parse(Overlay(b, old)) = Parse(b)
         /\ \A n \in Nat : n < Len(b) => Parse(SubSeq(b, 1, n)) = NULL
<1>1. b \in Seq(Tokens) /\ Len(b) \in Nat
  BY BodiesAreTexts, LenProperties
<1>2. Parser(b).ok /\ Parser(b).at = Len(b) + 1
  BY DocumentsAssumption
<1>3. Parse(b) # NULL
  BY <1>1, <1>2, ParseGivesItem
<1>4. ASSUME NEW old \in Seq(Tokens) PROVE Parse(Overlay(b, old)) = Parse(b)
  <2> DEFINE x == SubSeq(old, Len(b) + 1, Len(old))
  <2>1. x \in Seq(Tokens)
    BY <1>1, LenProperties, SubSeqProperties
  <2> HIDE DEF x
  <2>2. Parser(b \o x) = Parser(b)
    BY <1>1, <1>2, <2>1, ParserIgnoresTail
  <2>3. Parse(b \o x) = Parse(b)
    BY <2>2 DEF Parse
  <2>4. QED BY <2>3 DEF Overlay, x
<1>5. ASSUME NEW n \in Nat, n < Len(b) PROVE Parse(SubSeq(b, 1, n)) = NULL
  <2>1. n \in 0..Len(b)
    BY <1>1, <1>5
  <2>2. ~Parser(SubSeq(b, 1, n)).ok
    BY <1>1, <1>2, <1>5, <2>1, ParserWantsAll
  <2>3. QED BY <2>2 DEF Parse
<1>6. QED BY <1>3, <1>4, <1>5

\* An empty file, or none, is no JSON.
LEMMA EmptyIsNoJson == Parse(<<>>) = NULL
<1>1. Len(<<>>) \in Nat /\ At(<<>>, 1) = Token("end")
  BY DEF At
<1>2. Parser(<<>>) = parse_value(<<>>, Parses(<<>>), 1, 0)
  <2> DEFINE p == Place("value", 1, 0)
  <2>1. p \in Places(<<>>)
    BY <1>1, RootPlace
  <2>2. Parser(<<>>) = parse_at(<<>>, Parses(<<>>), p)
    BY <1>1, <2>1, ParserSteps
  <2>3. QED BY <2>2 DEF parse_at, Place
<1>3. parse_value(<<>>, Parses(<<>>), 1, 0) = Failed
  <2>1. At(<<>>, 1).k = "end"
    BY <1>1 DEF Token
  <2>2. QED BY <2>1 DEF parse_value
<1>4. QED BY <1>2, <1>3 DEF Parse, Failed

-----------------------------------------------------------------------------
\* As long as no two PUTs of a file meet, only a rename changes what reading a
\* file finds, and its signal is still to come.
LEMMA ReadStays ==
  ASSUME FilesInv, [FilesNext]_filesVars, shared' = {}
  PROVE  \/ Read(Base)' = Read(Base) /\ Read(Local)' = Read(Local)
         \/ \E h \in Handlers : put'[h].pc = "signal"
<1>0. /\ put \in [Handlers -> Requests] /\ shared = {} /\ Base \in Files /\ Local \in Files
      /\ name \in [Files -> Nat] /\ tmp \in [Files -> Nat]
  BY ContentStays DEF FilesInv, FilesTypeOK, Files
<1>1. CASE name' = name
  BY <1>0, <1>1, ContentStays DEF Read
<1>2. CASE name' # name
  <2>1. PICK h \in Handlers : Rename(h)
    BY <1>2 DEF FilesNext, HandlerStep, Put, Open, Write, WriteFails, RemoveTmp, Signal, BackendKilled, filesVars
  <2>2. tmp[put[h].file] # NoInode
    BY <1>2, <2>1 DEF Rename
  <2>3. put' = [put EXCEPT ![h] = [put[h] EXCEPT !.pc = "signal"]]
    BY <1>0, <2>1, <2>2 DEF Rename, Goto
  <2>4. put'[h].pc = "signal"
    BY <1>0, <2>3 DEF Requests
  <2>5. QED BY <2>4
<1>3. QED BY <1>1, <1>2

\* A signal that is to come stays so until it is sent, unless the backend is
\* killed.
LEMMA SignalStays ==
  ASSUME FilesInv, NEW h \in Handlers, put[h].pc = "signal",
         (\E k \in Handlers : HandlerStep(k)) \/ BackendKilled
  PROVE  put'[h].pc = "signal" \/ unsignalled'
<1>0. put \in [Handlers -> Requests]
  BY DEF FilesInv, FilesTypeOK
<1>1. CASE BackendKilled
  BY <1>1 DEF BackendKilled
<1>2. ASSUME NEW k \in Handlers, HandlerStep(k) PROVE put'[h].pc = "signal"
  <2>1. k # h
    BY <1>2 DEF HandlerStep, Put, Open, Write, WriteFails, Rename, RemoveTmp
  <2>2. put'[h] = put[h]
    BY <1>0, <1>2, <2>1 DEF HandlerStep, Put, Open, Write, WriteFails, Rename, RemoveTmp, Goto, Done
  <2>3. QED BY <2>2
<1>3. QED BY <1>1, <1>2

\* Nothing is in force before the first load.
LEMMA InForceInit == ReloadInit => InForceInv
  BY DEF ReloadInit, InForceInv

\* Every step of the daemon, the handlers and the backend keeps the invariant.
LEMMA InForceStep == FilesInv /\ InForceInv /\ [ReloadNext]_vars => InForceInv'
<1> SUFFICES ASSUME FilesInv, InForceInv, [ReloadNext]_vars,
                    shared' = {}, ~unsignalled', pidFile' = "written"
             PROVE  /\ daemon' \in {"merge", "boot_merge"} =>
                         ReloadToCome' \/ policy_root' = Parse(Read(Base)')
                    /\ daemon' \in {"idle", "boot_ready"} =>
                         ReloadToCome' \/ policy_root' = MergeLocal(Parse(Read(Base)'), Parse(Read(Local)'))
  BY DEF InForceInv
<1> DEFINE Goal ==
      /\ daemon' \in {"merge", "boot_merge"} =>
           ReloadToCome' \/ policy_root' = Parse(Read(Base)')
      /\ daemon' \in {"idle", "boot_ready"} =>
           ReloadToCome' \/ policy_root' = MergeLocal(Parse(Read(Base)'), Parse(Read(Local)'))
<1>0. CASE Boot
  BY <1>0 DEF Boot
<1> SUFFICES ASSUME ~Boot PROVE Goal
  BY <1>0
<1>1. shared = {} /\ ~unsignalled
  <2>1. [FilesNext]_filesVars
    BY ReloadStepIsFiles
  <2>2. shared \subseteq shared'
    BY <2>1, ContentStays
  <2>3. unsignalled => unsignalled'
    BY <2>1 DEF FilesNext, HandlerStep, Put, Open, Write, WriteFails, Rename, RemoveTmp, Signal, BackendKilled, filesVars
  <2>4. QED BY <2>2, <2>3
<1>2. pidFile = "written"
  BY DEF ReloadNext, Load, Merge, Listen, Die, SignalDaemon, daemonVars, vars
<1>3. /\ daemon \in {"merge", "boot_merge"} =>
           ReloadToCome \/ policy_root = Parse(Read(Base))
      /\ daemon \in {"idle", "boot_ready"} =>
           ReloadToCome \/ policy_root = MergeLocal(Parse(Read(Base)), Parse(Read(Local)))
  BY <1>1, <1>2 DEF InForceInv
<1>4. UNCHANGED filesVars => Read(Base)' = Read(Base) /\ Read(Local)' = Read(Local)
  BY DEF filesVars, Read
<1>5. CASE Load
  <2>1. Parse(Read(Base)) # NULL
    <3>1. Base \in Files /\ Read(Base) \in Bodies[Base] \cup {Shipped[Base]}
      BY <1>1 DEF Files, FilesInv, InodesInv, WholeUnlessShared
    <3>2. QED BY <3>1, DocumentsParse
  <2>2. policy_root' = Parse(Read(Base)) /\ UNCHANGED filesVars /\ daemon' \in {"boot_merge", "merge"}
    BY <1>5, <2>1 DEF Load, NewRoot
  <2>3. QED BY <1>4, <2>2
<1>6. CASE Merge
  <2>1. /\ policy_root' = MergeLocal(policy_root, Parse(Read(Local)))
        /\ UNCHANGED filesVars /\ reload' = reload
        /\ daemon \in {"merge", "boot_merge"} /\ daemon' \in {"idle", "boot_ready"}
    BY <1>6 DEF Merge
  <2>2. ReloadToCome => ReloadToCome'
    BY <2>1 DEF ReloadToCome, filesVars
  <2>3. QED BY <1>3, <1>4, <2>1, <2>2
<1>7. CASE Listen
  <2>1. /\ UNCHANGED filesVars /\ reload' = reload /\ policy_root' = policy_root
        /\ daemon = "boot_ready" /\ daemon' = "idle"
    BY <1>7 DEF Listen
  <2>2. ReloadToCome => ReloadToCome'
    BY <2>1 DEF ReloadToCome, filesVars
  <2>3. QED BY <1>3, <1>4, <2>1, <2>2
<1>8. CASE Die
  BY <1>8 DEF Die
<1>9. ASSUME (BackendKilled \/ \E h \in Handlers : HandlerStep(h)), UNCHANGED daemonVars
      PROVE  Goal
  <2>1. [FilesNext]_filesVars
    BY <1>9 DEF FilesNext
  <2>2. daemon' = daemon /\ reload' = reload /\ policy_root' = policy_root
    BY <1>9 DEF daemonVars
  <2>3. ReloadToCome => ReloadToCome'
    <3>1. ASSUME NEW h \in Handlers, put[h].pc = "signal" PROVE put'[h].pc = "signal"
      BY <1>9, <3>1, SignalStays
    <3>2. QED BY <2>2, <3>1 DEF ReloadToCome
  <2>4. CASE Read(Base)' = Read(Base) /\ Read(Local)' = Read(Local)
    BY <1>3, <2>2, <2>3, <2>4
  <2>5. CASE \E h \in Handlers : put'[h].pc = "signal"
    BY <2>5 DEF ReloadToCome
  <2>6. QED BY <2>1, <2>4, <2>5, ReadStays
<1>10. ASSUME NEW h \in Handlers, SignalDaemon(h) PROVE Goal
  <2>1. CASE daemon \in Booting
    BY <1>2, <1>10, <2>1 DEF SignalDaemon, Usr1
  <2>2. CASE daemon \in {"idle", "merge"}
    <3>1. reload'
      BY <1>2, <1>10, <2>2 DEF SignalDaemon, Usr1
    <3>2. QED BY <3>1 DEF ReloadToCome
  <2>3. CASE daemon \notin Booting \cup {"idle", "merge"}
    <3>1. daemon' = daemon
      BY <1>2, <1>10, <2>3 DEF SignalDaemon, Usr1
    <3>2. QED BY <2>3, <3>1 DEF Booting
  <2>4. QED BY <2>1, <2>2, <2>3
<1>11. CASE UNCHANGED vars
  <2>1. UNCHANGED filesVars /\ daemon' = daemon /\ reload' = reload /\ policy_root' = policy_root
    BY <1>11 DEF vars, daemonVars
  <2>2. ReloadToCome' <=> ReloadToCome
    BY <2>1 DEF ReloadToCome, filesVars
  <2>3. QED BY <1>3, <1>4, <2>1, <2>2
<1>12. QED
  BY <1>5, <1>6, <1>7, <1>8, <1>9, <1>10, <1>11 DEF ReloadNext

\* PROPERTY InForceIsOnDisk: what a PUT that was answered stored is in force
\* once the worker has looked at the flag, for any number of PUTs and daemons,
\* but for the three exceptions it names: PUTs of one file that meet, a backend
\* killed before it signals, and a daemon that could not write its pid file.
THEOREM InForce == ReloadSpec => []InForceIsOnDisk
<1>1. ReloadSpec => []FilesInv
  BY ReloadImplementsFiles, FilesInvariance, PTL
<1>2. ReloadSpec => []InForceInv
  BY <1>1, InForceInit, InForceStep, PTL DEF ReloadSpec
<1>3. InForceInv => InForceIsOnDisk
  <2> SUFFICES ASSUME InForceInv, daemon = "idle", ~reload, Quiet, ~unsignalled,
                      shared = {}, pidFile = "written"
               PROVE  policy_root = MergeLocal(Parse(Read(Base)), Parse(Read(Local)))
    BY DEF InForceIsOnDisk
  <2>1. ~ReloadToCome
    BY DEF ReloadToCome, Quiet, Idle
  <2>2. QED BY <2>1 DEF InForceInv
<1>4. QED BY <1>2, <1>3, PTL

-----------------------------------------------------------------------------
\* What a step does to an inode: it is made or emptied, left alone, or written
\* to by the handler that has it open - the whole body, or a part of it.
LEMMA InodeWritten ==
  ASSUME FilesInv, [FilesNext]_filesVars, NEW i \in 1..Len(content')
  PROVE  \/ content'[i] = <<>>
         \/ i \in 1..Len(content) /\ content'[i] = content[i]
         \/ \E h \in Handlers :
              /\ HasOpen(h, put[h].file) /\ put[h].fd = i /\ i \in 1..Len(content)
              /\ \/ content'[i] = Overlay(put[h].body, content[i])
                 \/ \E n \in Cuts :
                      /\ n < Len(put[h].body)
                      /\ content'[i] = Overlay(SubSeq(put[h].body, 1, n), content[i])
                      /\ Len(content[i]) > n => put[h].file \in spliced'
<1> DEFINE Goal ==
      \/ content'[i] = <<>>
      \/ i \in 1..Len(content) /\ content'[i] = content[i]
      \/ \E h \in Handlers :
           /\ HasOpen(h, put[h].file) /\ put[h].fd = i /\ i \in 1..Len(content)
           /\ \/ content'[i] = Overlay(put[h].body, content[i])
              \/ \E n \in Cuts :
                   /\ n < Len(put[h].body)
                   /\ content'[i] = Overlay(SubSeq(put[h].body, 1, n), content[i])
                   /\ Len(content[i]) > n => put[h].file \in spliced'
<1>0. /\ content \in Seq(Seq(Tokens)) /\ Len(content) \in Nat
      /\ tmp \in [Files -> Nat] /\ put \in [Handlers -> Requests]
      /\ \A h \in Handlers : put[h].file \in Files
  BY LenProperties DEF FilesInv, FilesTypeOK, Requests
<1>1. ASSUME NEW h \in Handlers, Open(h) PROVE Goal
  <2>1. CASE tmp[put[h].file] = NoInode
    <3>1. <<>> \in Seq(Tokens) /\ content' = Append(content, <<>>)
      BY <1>1, <2>1 DEF Open
    <3>2. /\ Len(content') = Len(content) + 1 /\ content'[Len(content) + 1] = <<>>
          /\ \A j \in 1..Len(content) : content'[j] = content[j]
      BY <1>0, <3>1, AppendProperties
    <3>3. QED BY <1>0, <3>2
  <2>2. CASE tmp[put[h].file] # NoInode
    <3>1. content' = [content EXCEPT ![tmp[put[h].file]] = <<>>]
      BY <1>1, <2>2 DEF Open
    <3>2. QED BY <1>0, <3>1
  <2>3. QED BY <2>1, <2>2
<1>2. ASSUME NEW h \in Handlers, Write(h) PROVE Goal
  <2>1. /\ content' = [content EXCEPT ![put[h].fd] = Overlay(put[h].body, @)]
        /\ HasOpen(h, put[h].file)
    BY <1>2 DEF Write, HasOpen
  <2>2. Len(content') = Len(content)
    BY <1>0, <2>1
  <2>3. CASE i = put[h].fd
    <3>1. content'[i] = Overlay(put[h].body, content[i])
      BY <1>0, <2>1, <2>2, <2>3
    <3>2. QED BY <2>1, <2>2, <2>3, <3>1
  <2>4. CASE i # put[h].fd
    BY <1>0, <2>1, <2>2, <2>4
  <2>5. QED BY <2>3, <2>4
<1>3. ASSUME NEW h \in Handlers, NEW n \in Cuts, WriteFails(h, n) PROVE Goal
  <2>1. /\ content' = [content EXCEPT ![put[h].fd] = Overlay(SubSeq(put[h].body, 1, n), @)]
        /\ HasOpen(h, put[h].file) /\ n < Len(put[h].body)
        /\ Len(content[put[h].fd]) > n => put[h].file \in spliced'
    BY <1>3 DEF WriteFails, HasOpen
  <2>2. Len(content') = Len(content)
    BY <1>0, <2>1
  <2>3. CASE i = put[h].fd
    <3>1. content'[i] = Overlay(SubSeq(put[h].body, 1, n), content[i])
      BY <1>0, <2>1, <2>2, <2>3
    <3>2. QED BY <2>1, <2>2, <2>3, <3>1
  <2>4. CASE i # put[h].fd
    BY <1>0, <2>1, <2>2, <2>4
  <2>5. QED BY <2>3, <2>4
<1>4. CASE content' = content
  BY <1>4
<1>5. QED
  BY <1>1, <1>2, <1>3, <1>4
     DEF FilesNext, HandlerStep, Put, Rename, RemoveTmp, Signal, BackendKilled, filesVars

\* The installed files are documents.
LEMMA SubmittedInit == FilesInit => SubmittedInv
<1> SUFFICES ASSUME FilesInit, NEW f \in Files, NEW i \in 1..Len(content), Serves(i, f)
             PROVE  content[i] = Shipped[f]
  BY DEF SubmittedInv, IsDocument
<1>1. PICK local \in {NoInode, 2} : name = [g \in Files |-> IF g = Base THEN 1 ELSE local]
  BY DEF FilesInit
<1>2. name[Base] = 1 /\ name[Local] = local /\ Base # Local
  BY <1>1 DEF Files, Base, Local
<1>3. i = name[f] /\ i # NoInode
  BY DEF FilesInit, Serves, HasOpen, Idle
<1>4. content = <<Shipped[Base], Shipped[Local]>>
  BY DEF FilesInit
<1>5. QED BY <1>2, <1>3, <1>4 DEF Files, NoInode

\* No write leaves anything else, but half a body over another body.
LEMMA SubmittedStep == FilesInv /\ SubmittedInv /\ [FilesNext]_filesVars => SubmittedInv'
<1> SUFFICES ASSUME FilesInv, SubmittedInv, [FilesNext]_filesVars,
                    NEW f \in Files \ spliced', NEW i \in 1..Len(content'), Serves(i, f)'
             PROVE  IsDocument(f, Parse(content'[i]))
  BY DEF SubmittedInv, IsDocument
<1>0. /\ content \in Seq(Seq(Tokens)) /\ Len(content) \in Nat /\ InodesInv
      /\ put \in [Handlers -> Requests] /\ FilesTypeOK
      /\ \A h \in Handlers : put[h].file \in Files /\ put[h].body \in Seq(Tokens)
  BY LenProperties DEF FilesInv, FilesTypeOK, Requests
<1>1. f \in Files \ spliced
  BY DEF FilesNext, HandlerStep, Put, Open, Write, WriteFails, Rename, RemoveTmp, Signal, BackendKilled, filesVars
<1>2. i \in 1..Len(content) => Serves(i, f)
  BY <1>0, ServesShrinks
<1>3. i \in 1..Len(content) => IsDocument(f, Parse(content[i]))
  BY <1>1, <1>2 DEF SubmittedInv
<1>4. CASE content'[i] = <<>>
  BY <1>4, EmptyIsNoJson DEF IsDocument
<1>5. CASE i \in 1..Len(content) /\ content'[i] = content[i]
  BY <1>3, <1>5
<1>6. ASSUME NEW h \in Handlers, HasOpen(h, put[h].file), put[h].fd = i, i \in 1..Len(content)
      PROVE  put[h].file = f /\ put[h].body \in Bodies[f] /\ content[i] \in Seq(Tokens)
  <2>1. put[h].file \in Files /\ i # NoInode /\ put[h].pc # "idle"
    BY <1>0, <1>6 DEF HasOpen, NoInode
  <2>2. Serves(i, put[h].file)
    BY <1>6, <2>1 DEF Serves
  <2>3. put[h].file = f
    BY <1>0, <1>2, <1>6, <2>1, <2>2 DEF InodesInv
  <2>4. QED BY <1>0, <1>6, <2>1, <2>3, ElementOfSeq DEF FilesInv, AloneInv
<1>7. ASSUME NEW h \in Handlers, HasOpen(h, put[h].file), put[h].fd = i, i \in 1..Len(content),
             content'[i] = Overlay(put[h].body, content[i])
      PROVE  IsDocument(f, Parse(content'[i]))
  <2>1. put[h].body \in Bodies[f] /\ content[i] \in Seq(Tokens)
    BY <1>6, <1>7
  <2>2. Parse(content'[i]) = Parse(put[h].body)
    BY <1>7, <2>1, DocumentsParse
  <2>3. QED BY <2>1, <2>2 DEF IsDocument
<1>8. ASSUME NEW h \in Handlers, HasOpen(h, put[h].file), put[h].fd = i, i \in 1..Len(content),
             NEW n \in Cuts, n < Len(put[h].body),
             content'[i] = Overlay(SubSeq(put[h].body, 1, n), content[i]),
             Len(content[i]) > n => put[h].file \in spliced'
      PROVE  IsDocument(f, Parse(content'[i]))
  <2> DEFINE new == SubSeq(put[h].body, 1, n)
             old == content[i]
  <2>1. put[h].file = f /\ put[h].body \in Bodies[f] /\ old \in Seq(Tokens) /\ n \in Nat
    BY <1>6, <1>8, FilesAssumption
  <2>2. new \in Seq(Tokens) /\ Len(new) = n
    BY <1>0, <1>8, <2>1, CutType
  <2>3. Len(old) \in Nat /\ Len(old) <= n
    BY <1>8, <2>1
  <2> HIDE DEF new, old
  <2>4. SubSeq(old, Len(new) + 1, Len(old)) = <<>>
    BY <2>1, <2>2, <2>3
  <2>5. Overlay(new, old) = new
    <3>1. new \o <<>> = new
      BY <2>2, ConcatEmptySeq
    <3>2. QED BY <2>4, <3>1, Zenon DEF Overlay
  <2>6. Parse(new) = NULL
    BY <1>8, <2>1, DocumentsParse DEF new
  <2>7. QED BY <1>8, <2>5, <2>6 DEF IsDocument, new, old
<1>9. QED BY <1>4, <1>5, <1>7, <1>8, InodeWritten

\* What reading a file gives is a document, or no JSON.
LEMMA ReadsDocument ==
  ASSUME FilesInv, SubmittedInv, NEW f \in Files \ spliced
  PROVE  Parse(Read(f)) = NULL \/ <<f, Parse(Read(f))>> \in Documents
<1>1. CASE name[f] = NoInode
  BY <1>1, EmptyIsNoJson DEF Read
<1>2. CASE name[f] # NoInode
  <2>1. Serves(name[f], f) /\ name[f] \in 1..Len(content)
    BY <1>2 DEF Serves, FilesInv, FilesTypeOK, InodesInv, NoInode
  <2>2. IsDocument(f, Parse(Read(f)))
    BY <1>2, <2>1 DEF SubmittedInv, Read
  <2>3. QED BY <2>2 DEF IsDocument, Documents
<1>3. QED BY <1>1, <1>2

\* The trees merged so far are a sequence.
MergedType == merged \in Seq({Parse(text) : text \in Seq(Tokens)})

\* The daemon takes over what it reads.
LEMMA EnforcedStep ==
  FilesInv /\ SubmittedInv /\ MergedType /\ EnforcedWasSubmitted /\ [ReloadNext]_vars
    => MergedType' /\ EnforcedWasSubmitted'
<1> SUFFICES ASSUME FilesInv, SubmittedInv, MergedType, EnforcedWasSubmitted, [ReloadNext]_vars
             PROVE  MergedType' /\ EnforcedWasSubmitted'
  OBVIOUS
<1> DEFINE T == {Parse(text) : text \in Seq(Tokens)}
<1>0. Base \in Files /\ Local \in Files /\ <<>> \in Seq(T)
  BY DEF Files
<1>1. spliced \subseteq spliced'
  BY ReloadStepIsFiles
     DEF FilesNext, HandlerStep, Put, Open, Write, WriteFails, Rename, RemoveTmp, Signal, BackendKilled, filesVars
<1>2. CASE loaded' = loaded /\ merged' = merged
  BY <1>1, <1>2 DEF MergedType, EnforcedWasSubmitted
<1>3. CASE loaded' = NULL /\ merged' = <<>>
  BY <1>0, <1>3 DEF MergedType, EnforcedWasSubmitted
<1>4. CASE Load
  <2>1. CASE Parse(Read(Base)) = NULL
    BY <1>2, <1>4, <2>1 DEF Load
  <2>2. CASE Parse(Read(Base)) # NULL
    <3>1. loaded' = Parse(Read(Base)) /\ merged' = <<>> /\ spliced' = spliced
      BY <1>4, <2>2 DEF Load, filesVars
    <3>2. Base \notin spliced => <<Base, loaded'>> \in Documents
      BY <1>0, <2>2, <3>1, ReadsDocument
    <3>3. QED BY <1>0, <3>1, <3>2 DEF MergedType, EnforcedWasSubmitted
  <2>3. QED BY <2>1, <2>2
<1>5. CASE Merge
  <2> DEFINE local == Parse(Read(Local))
  <2>1. CASE local = NULL
    BY <1>2, <1>5, <2>1 DEF Merge
  <2>2. CASE local # NULL
    <3>1. merged' = Append(merged, local) /\ loaded' = loaded /\ spliced' = spliced
      BY <1>5, <2>2 DEF Merge, filesVars
    <3>2. local \in T
      <4>1. Read(Local) \in Seq(Tokens)
        <5>1. CASE name[Local] = NoInode
          BY <5>1 DEF Read
        <5>2. CASE name[Local] # NoInode
          <6>1. content \in Seq(Seq(Tokens)) /\ name[Local] \in 1..Len(content)
            BY <1>0, <5>2, LenProperties DEF FilesInv, FilesTypeOK, InodesInv, NoInode
          <6>2. QED BY <5>2, <6>1, ElementOfSeq DEF Read
        <5>3. QED BY <5>1, <5>2
      <4>2. QED BY <4>1
    <3>3. Local \notin spliced => <<Local, local>> \in Documents
      BY <1>0, <2>2, ReadsDocument
    <3>4. merged \in Seq(T)
      BY DEF MergedType
    <3> HIDE DEF T, local
    <3>5. /\ merged' \in Seq(T) /\ DOMAIN merged' = 1..(Len(merged) + 1)
          /\ DOMAIN merged = 1..Len(merged) /\ Len(merged) \in Nat
          /\ \A i \in 1..Len(merged) : merged'[i] = merged[i]
          /\ merged'[Len(merged) + 1] = local
      BY <3>1, <3>2, <3>4
    <3>6. Local \notin spliced => \A i \in DOMAIN merged' : <<Local, merged'[i]>> \in Documents
      <4> SUFFICES ASSUME Local \notin spliced, NEW i \in DOMAIN merged'
                   PROVE  <<Local, merged'[i]>> \in Documents
        OBVIOUS
      <4>1. CASE i \in DOMAIN merged
        BY <3>5, <4>1 DEF EnforcedWasSubmitted
      <4>2. CASE i = Len(merged) + 1
        BY <3>3, <3>5, <4>2
      <4>3. QED BY <3>5, <4>1, <4>2
    <3>7. QED BY <3>1, <3>5, <3>6 DEF MergedType, EnforcedWasSubmitted, T
  <2>3. QED BY <2>1, <2>2
<1>6. QED
  BY <1>2, <1>3, <1>4, <1>5 DEF ReloadNext, Boot, Listen, Die, SignalDaemon, Usr1, vars, daemonVars

\* PROPERTY EnforcedWasSubmitted: the daemon enforces documents that were
\* installed or PUT, never a part of one, unless half a body was written over
\* another body.
THEOREM EnforcedSubmitted == ReloadSpec => []EnforcedWasSubmitted
<1>1. ReloadSpec => []FilesInv
  BY ReloadImplementsFiles, FilesInvariance, PTL
<1>2. ReloadInit => SubmittedInv /\ MergedType /\ EnforcedWasSubmitted
  <2>1. ReloadInit => MergedType /\ EnforcedWasSubmitted
    BY DEF ReloadInit, MergedType, EnforcedWasSubmitted
  <2>2. ReloadInit => FilesInit
    BY DEF ReloadInit
  <2>3. QED BY <2>1, <2>2, SubmittedInit
<1>3. QED
  BY <1>1, <1>2, SubmittedStep, EnforcedStep, ReloadStepIsFiles, PTL DEF ReloadSpec

-----------------------------------------------------------------------------
(***************************************************************************)
(* Merging.  What is looked up in an object, what one step of the two      *)
(* loops of the merge does to a tree, and, by induction over the loops,    *)
(* what they leave of it.                                                  *)
(***************************************************************************)

\* What Get finds is what the lookup of cJSON finds.
LEMMA GetAt ==
  ASSUME NEW object, Len(object.child) \in Nat, NEW key, <<key>> # NoName,
         NEW i \in Nat, FirstAt(object, key, i)
  PROVE  Get(object, key) = object.child[i]
  BY ItemAt DEF Get

LEMMA GetSome ==
  ASSUME NEW object, Len(object.child) \in Nat, NEW key, Get(object, key) # NULL
  PROVE  \E i \in 1..Len(object.child) : FirstAt(object, key, i) /\ Get(object, key) = object.child[i]
  BY ItemSome DEF Get

LEMMA ItemFields ==
  ASSUME NEW t, IsItem(t)
  PROVE  /\ t.type \in ItemTypes /\ t.string \in Strings
         /\ t.valuestring \in Strings /\ t.valuedouble \in Numbers
         /\ Len(t.child) \in Nat /\ DOMAIN t.child = 1..Len(t.child)
         /\ t.child \in Seq({t.child[i] : i \in DOMAIN t.child} \ {NULL})
         /\ \A i \in DOMAIN t.child : t.child[i] # NULL
         /\ t # NULL
         /\ t = [type |-> t.type, string |-> t.string, valuestring |-> t.valuestring,
                 valuedouble |-> t.valuedouble, child |-> t.child]
<1> DEFINE C == {t.child[i] : i \in DOMAIN t.child} \ {NULL}
<1>1. t \in [type : ItemTypes, string : Strings, valuestring : Strings, valuedouble : Numbers,
             child : Seq(C)]
  BY DEF IsItem
<1> HIDE DEF C
<1>2. /\ t.type \in ItemTypes /\ t.string \in Strings
      /\ t.valuestring \in Strings /\ t.valuedouble \in Numbers /\ t.child \in Seq(C)
  BY <1>1
<1>3. t = [type |-> t.type, string |-> t.string, valuestring |-> t.valuestring,
           valuedouble |-> t.valuedouble, child |-> t.child]
  BY <1>1
<1>4. Len(t.child) \in Nat /\ DOMAIN t.child = 1..Len(t.child)
  BY <1>2, LenProperties
<1>5. t.type # "NULL pointer" /\ NULL.type = "NULL pointer"
  BY <1>2 DEF ItemTypes, NULL, New_Item
<1>6. \A i \in DOMAIN t.child : t.child[i] # NULL
  <2>1. \A i \in 1..Len(t.child) : t.child[i] \in C
    BY <1>2, ElementOfSeq
  <2>2. QED BY <1>4, <2>1 DEF C
<1>7. QED BY <1>2, <1>3, <1>4, <1>5, <1>6 DEF C

\* An item with another list of children.
LEMMA ItemWith ==
  ASSUME NEW t, IsItem(t), NEW T, NULL \notin T, NEW c \in Seq(T)
  PROVE  LET u == [t EXCEPT !.child = c] IN
         IsItem(u) /\ u.child = c /\ u.type = t.type /\ u.string = t.string
<1> DEFINE u == [t EXCEPT !.child = c]
           C == {c[i] : i \in DOMAIN c} \ {NULL}
<1>1. u = [type |-> t.type, string |-> t.string, valuestring |-> t.valuestring,
           valuedouble |-> t.valuedouble, child |-> c]
  <2>1. t = [type |-> t.type, string |-> t.string, valuestring |-> t.valuestring,
             valuedouble |-> t.valuedouble, child |-> t.child]
    BY ItemFields
  <2>2. QED BY <2>1
<1>2. u.child = c /\ u.type = t.type /\ u.string = t.string
  BY <1>1
<1>3. c \in Seq(C)
  <2>1. Len(c) \in Nat /\ c \in [1..Len(c) -> T] /\ DOMAIN c = 1..Len(c)
    BY LenProperties
  <2>2. c \in [1..Len(c) -> C]
    BY <2>1
  <2> HIDE DEF C
  <2>3. QED BY <2>1, <2>2, SeqDef
<1>4. t.type \in ItemTypes /\ t.string \in Strings /\ t.valuestring \in Strings /\ t.valuedouble \in Numbers
  BY ItemFields
<1>5. IsItem(u)
  <2> HIDE DEF C
  <2>1. u \in [type : ItemTypes, string : Strings, valuestring : Strings, valuedouble : Numbers,
               child : Seq(C)]
    BY <1>1, <1>3, <1>4
  <2>2. C = {u.child[i] : i \in DOMAIN u.child} \ {NULL}
    BY <1>2 DEF C
  <2>3. QED BY <2>1, <2>2 DEF IsItem
<1>6. QED BY <1>2, <1>5

\* An item with another child at k.
LEMMA ItemWithAt ==
  ASSUME NEW t, IsItem(t), NEW k \in 1..Len(t.child), NEW x, IsItem(x),
         NEW u, u = [t EXCEPT !.child[k] = x]
  PROVE  /\ IsItem(u) /\ u.type = t.type /\ u.string = t.string
         /\ Len(u.child) = Len(t.child) /\ u.child[k] = x
         /\ \A j \in 1..Len(t.child) : j # k => u.child[j] = t.child[j]
<1> DEFINE c == [t.child EXCEPT ![k] = x]
           C == {t.child[i] : i \in DOMAIN t.child} \ {NULL}
<1>1. Len(t.child) \in Nat /\ DOMAIN t.child = 1..Len(t.child) /\ t.child \in Seq(C)
  BY ItemFields
<1>2. t.child \in Seq(C \cup {x})
  <2> HIDE DEF C
  <2>1. QED BY <1>1
<1>3. c \in Seq(C \cup {x}) /\ Len(c) = Len(t.child) /\ c[k] = x
      /\ \A j \in 1..Len(t.child) : j # k => c[j] = t.child[j]
  <2> HIDE DEF C
  <2>1. QED BY <1>1, <1>2
<1>4. u = [t EXCEPT !.child = c]
  <2>1. t = [type |-> t.type, string |-> t.string, valuestring |-> t.valuestring,
             valuedouble |-> t.valuedouble, child |-> t.child]
    BY ItemFields
  <2>2. QED BY <2>1
<1>0. NULL \notin C \cup {x}
  <2>1. x # NULL
    BY ItemFields
  <2>2. QED BY <2>1
<1> HIDE DEF c, C
<1>5. IsItem(u) /\ u.child = c /\ u.type = t.type /\ u.string = t.string
  BY <1>3, <1>4, <1>0, ItemWith
<1>6. QED BY <1>3, <1>5

\* An item with one more child.
LEMMA ItemAppended ==
  ASSUME NEW t, IsItem(t), NEW x, IsItem(x)
  PROVE  LET u == [t EXCEPT !.child = Append(@, x)] IN
         /\ IsItem(u) /\ u.type = t.type /\ u.string = t.string
         /\ Len(u.child) = Len(t.child) + 1 /\ u.child[Len(t.child) + 1] = x
         /\ \A j \in 1..Len(t.child) : u.child[j] = t.child[j]
<1> DEFINE c == Append(t.child, x)
           u == [t EXCEPT !.child = Append(@, x)]
           C == {t.child[i] : i \in DOMAIN t.child} \ {NULL}
<1>1. Len(t.child) \in Nat /\ t.child \in Seq(C)
  BY ItemFields
<1>2. /\ c \in Seq(C \cup {x}) /\ Len(c) = Len(t.child) + 1 /\ c[Len(t.child) + 1] = x
      /\ \A j \in 1..Len(t.child) : c[j] = t.child[j]
  <2> HIDE DEF C
  <2>1. t.child \in Seq(C \cup {x})
    BY <1>1
  <2>2. QED BY <1>1, <2>1
<1>3. u = [t EXCEPT !.child = c]
  <2>1. t = [type |-> t.type, string |-> t.string, valuestring |-> t.valuestring,
             valuedouble |-> t.valuedouble, child |-> t.child]
    BY ItemFields
  <2>2. QED BY <2>1
<1>0. NULL \notin C \cup {x}
  <2>1. x # NULL
    BY ItemFields
  <2>2. QED BY <2>1
<1> HIDE DEF c, u, C
<1>4. IsItem(u) /\ u.child = c /\ u.type = t.type /\ u.string = t.string
  BY <1>2, <1>3, <1>0, ItemWith
<1>5. QED BY <1>2, <1>4 DEF u

\* A list with the items of another behind its own.
Extended(list, more) == [list EXCEPT !.child = @ \o more.child]

LEMMA ItemExtended ==
  ASSUME NEW t, NEW s, IsItem(t), IsItem(s)
  PROVE  LET u == Extended(t, s) IN
         /\ IsItem(u) /\ u.type = t.type /\ u.string = t.string
         /\ \A j \in 1..Len(t.child) : \E i \in 1..Len(u.child) : u.child[i] = t.child[j]
         /\ \A j \in 1..Len(s.child) : \E i \in 1..Len(u.child) : u.child[i] = s.child[j]
<1> DEFINE c == t.child \o s.child
           u == Extended(t, s)
           C == {t.child[i] : i \in DOMAIN t.child} \ {NULL}
           D == {s.child[i] : i \in DOMAIN s.child} \ {NULL}
<1>1. Len(t.child) \in Nat /\ t.child \in Seq(C) /\ Len(s.child) \in Nat /\ s.child \in Seq(D)
  BY ItemFields
<1>2. /\ c \in Seq(C \cup D)
      /\ \A j \in 1..Len(t.child) : \E i \in 1..Len(c) : c[i] = t.child[j]
      /\ \A j \in 1..Len(s.child) : \E i \in 1..Len(c) : c[i] = s.child[j]
  <2> HIDE DEF C, D
  <2>1. t.child \in Seq(C \cup D) /\ s.child \in Seq(C \cup D)
    BY <1>1
  <2> HIDE DEF c
  <2>2. c \in Seq(C \cup D) /\ Len(c) = Len(t.child) + Len(s.child)
    BY <2>1, ConcatProperties DEF c
  <2>3. \A j \in 1..(Len(t.child) + Len(s.child)) :
          c[j] = IF j <= Len(t.child) THEN t.child[j] ELSE s.child[j - Len(t.child)]
    BY <2>1, ConcatProperties DEF c
  <2> DEFINE m == Len(t.child)
             n == Len(s.child)
  <2> HIDE DEF m, n
  <2>0. m \in Nat /\ n \in Nat
    BY <1>1 DEF m, n
  <2>4. \A j \in 1..n : m + j \in 1..(m + n) /\ c[m + j] = s.child[j]
    <3>1. \A j \in 1..n : m + j \in 1..(m + n) /\ ~(m + j <= m) /\ (m + j) - m = j
      BY <2>0
    <3>2. \A j \in 1..(m + n) : c[j] = IF j <= m THEN t.child[j] ELSE s.child[j - m]
      BY <2>3 DEF m, n
    <3>3. QED BY <3>1, <3>2
  <2>5. \A j \in 1..m : j \in 1..(m + n) /\ j <= m
    BY <2>0
  <2>6. Len(c) = m + n
    BY <2>2 DEF m, n
  <2>7. \A j \in 1..m : \E i \in 1..Len(c) : c[i] = t.child[j]
    <3>1. \A j \in 1..(m + n) : j <= m => c[j] = t.child[j]
      BY <2>3 DEF m, n
    <3>2. QED BY <2>5, <2>6, <3>1
  <2>8. \A j \in 1..n : \E i \in 1..Len(c) : c[i] = s.child[j]
    BY <2>4, <2>6
  <2>9. QED BY <2>2, <2>7, <2>8 DEF m, n
<1>3. u = [t EXCEPT !.child = c]
  <2>1. t = [type |-> t.type, string |-> t.string, valuestring |-> t.valuestring,
             valuedouble |-> t.valuedouble, child |-> t.child]
    BY ItemFields
  <2>2. QED BY <2>1 DEF Extended
<1>0. NULL \notin C \cup D
  OBVIOUS
<1> HIDE DEF c, u, C, D
<1>4. IsItem(u) /\ u.child = c /\ u.type = t.type /\ u.string = t.string
  BY <1>2, <1>3, <1>0, ItemWith
<1>5. QED BY <1>2, <1>4 DEF u

\* An item given its own name again.
LEMMA SameName ==
  ASSUME NEW t, IsItem(t)
  PROVE  [t EXCEPT !.string = t.string] = t
<1>1. t = [type |-> t.type, string |-> t.string, valuestring |-> t.valuestring,
           valuedouble |-> t.valuedouble, child |-> t.child]
  BY ItemFields
<1>2. QED BY <1>1

\* What the loop over the members of a section has made of it, by steps.
MembersSteps(section, members) ==
  CHOOSE g : g = [n \in 0..Len(members) |-> IF n = 0 THEN section ELSE MergeMember(g[n - 1], members[n])]

LEMMA MembersLoop ==
  ASSUME NEW section, NEW members, Len(members) \in Nat
  PROVE  /\ MembersSteps(section, members)[0] = section
         /\ \A n \in 1..Len(members) : MembersSteps(section, members)[n] = MergeMember(MembersSteps(section, members)[n - 1], members[n])
         /\ MergeMembers(section, members) = MembersSteps(section, members)[Len(members)]
<1> DEFINE N == Len(members)
           Next1(g, n) == IF n = 0 THEN section ELSE MergeMember(g[n - 1], members[n])
           Good(g, k) == \A n \in 0..k : g[n] = Next1(g, n)
           K == {k \in 0..N : \E g : Good(g, k)}
<1>0. N \in Nat
  OBVIOUS
<1>1. 0 \in K
  <2> DEFINE g == [n \in {0} |-> section]
  <2>1. Good(g, 0)
    OBVIOUS
  <2> HIDE DEF Good
  <2>2. QED BY <2>1
<1>2. ASSUME NEW k \in 1..N, k - 1 \in K PROVE k \in K
  <2>1. PICK g : Good(g, k - 1)
    BY <1>2
  <2> DEFINE h == [n \in 0..k |-> IF n = k THEN MergeMember(g[k - 1], members[k]) ELSE g[n]]
  <2>2. ASSUME NEW n \in 0..k PROVE h[n] = Next1(h, n)
    <3>1. CASE n = 0
      BY <2>1, <3>1
    <3>2. CASE n \in 1..(k - 1)
      <4>1. n - 1 \in 0..k /\ n # k /\ n - 1 # k /\ n # 0 /\ n \in 0..(k - 1)
        BY <3>2
      <4>2. h[n] = g[n] /\ h[n - 1] = g[n - 1]
        BY <4>1
      <4>3. g[n] = MergeMember(g[n - 1], members[n])
        BY <2>1, <4>1
      <4> HIDE DEF h
      <4>4. QED BY <4>1, <4>2, <4>3
    <3>3. CASE n = k
      <4>1. k - 1 \in 0..k /\ k - 1 # k /\ k # 0 /\ k \in 0..k
        OBVIOUS
      <4>2. h[k - 1] = g[k - 1] /\ h[k] = MergeMember(g[k - 1], members[k])
        BY <4>1
      <4> HIDE DEF h
      <4>3. QED BY <3>3, <4>1, <4>2
    <3>4. QED BY <3>1, <3>2, <3>3
  <2> HIDE DEF h
  <2>3. Good(h, k)
    BY <2>2
  <2> HIDE DEF Good
  <2>4. QED BY <2>3
<1>3. N \in K
  <2> HIDE DEF K, N
  <2>1. N \in 0..N
    BY <1>0
  <2>2. QED BY <1>0, <1>1, <1>2, <2>1, UpTo
<1>4. \E g : g = [n \in 0..N |-> Next1(g, n)]
  <2>1. PICK g : Good(g, N)
    BY <1>3
  <2> DEFINE h == [n \in 0..N |-> g[n]]
  <2>2. ASSUME NEW n \in 0..N PROVE h[n] = Next1(h, n)
    <3>1. n # 0 => n - 1 \in 0..N
      BY <1>0
    <3>2. h[n] = g[n] /\ (n # 0 => h[n - 1] = g[n - 1])
      BY <3>1
    <3>3. g[n] = Next1(g, n)
      BY <2>1
    <3> HIDE DEF h
    <3>4. QED BY <3>2, <3>3
  <2>3. h = [n \in 0..N |-> h[n]]
    OBVIOUS
  <2> HIDE DEF h, N
  <2>4. h = [n \in 0..N |-> Next1(h, n)]
    BY <2>2, <2>3
  <2>5. QED BY <2>4
<1> DEFINE after == MembersSteps(section, members)
<1>5. after = [n \in 0..N |-> Next1(after, n)]
  BY <1>4, Zenon DEF MembersSteps
<1>6. MergeMembers(section, members) = after[N]
  BY Zenon DEF MergeMembers, MembersSteps
<1> HIDE DEF after
<1>7. \A n \in 0..N : after[n] = Next1(after, n)
  BY <1>5
<1>8. \A n \in 1..N : n \in 0..N /\ n # 0
  BY <1>0
<1>9. QED BY <1>0, <1>6, <1>7, <1>8 DEF after


\* What the loop over the local file has made of the tree, by steps.
ItemsSteps(root, local) ==
  CHOOSE g : g = [n \in 0..Len(local.child) |-> IF n = 0 THEN root ELSE MergeItem(g[n - 1], local.child[n])]

LEMMA ItemsLoop ==
  ASSUME NEW root, NEW local, Len(local.child) \in Nat
  PROVE  /\ ItemsSteps(root, local)[0] = root
         /\ \A n \in 1..Len(local.child) : ItemsSteps(root, local)[n] = MergeItem(ItemsSteps(root, local)[n - 1], local.child[n])
         /\ MergeLocal(root, local) = ItemsSteps(root, local)[Len(local.child)]
<1> DEFINE N == Len(local.child)
           Next1(g, n) == IF n = 0 THEN root ELSE MergeItem(g[n - 1], local.child[n])
           Good(g, k) == \A n \in 0..k : g[n] = Next1(g, n)
           K == {k \in 0..N : \E g : Good(g, k)}
<1>0. N \in Nat
  OBVIOUS
<1>1. 0 \in K
  <2> DEFINE g == [n \in {0} |-> root]
  <2>1. Good(g, 0)
    OBVIOUS
  <2> HIDE DEF Good
  <2>2. QED BY <2>1
<1>2. ASSUME NEW k \in 1..N, k - 1 \in K PROVE k \in K
  <2>1. PICK g : Good(g, k - 1)
    BY <1>2
  <2> DEFINE h == [n \in 0..k |-> IF n = k THEN MergeItem(g[k - 1], local.child[k]) ELSE g[n]]
  <2>2. ASSUME NEW n \in 0..k PROVE h[n] = Next1(h, n)
    <3>1. CASE n = 0
      BY <2>1, <3>1
    <3>2. CASE n \in 1..(k - 1)
      <4>1. n - 1 \in 0..k /\ n # k /\ n - 1 # k /\ n # 0 /\ n \in 0..(k - 1)
        BY <3>2
      <4>2. h[n] = g[n] /\ h[n - 1] = g[n - 1]
        BY <4>1
      <4>3. g[n] = MergeItem(g[n - 1], local.child[n])
        BY <2>1, <4>1
      <4> HIDE DEF h
      <4>4. QED BY <4>1, <4>2, <4>3
    <3>3. CASE n = k
      <4>1. k - 1 \in 0..k /\ k - 1 # k /\ k # 0 /\ k \in 0..k
        OBVIOUS
      <4>2. h[k - 1] = g[k - 1] /\ h[k] = MergeItem(g[k - 1], local.child[k])
        BY <4>1
      <4> HIDE DEF h
      <4>3. QED BY <3>3, <4>1, <4>2
    <3>4. QED BY <3>1, <3>2, <3>3
  <2> HIDE DEF h
  <2>3. Good(h, k)
    BY <2>2
  <2> HIDE DEF Good
  <2>4. QED BY <2>3
<1>3. N \in K
  <2> HIDE DEF K, N
  <2>1. N \in 0..N
    BY <1>0
  <2>2. QED BY <1>0, <1>1, <1>2, <2>1, UpTo
<1>4. \E g : g = [n \in 0..N |-> Next1(g, n)]
  <2>1. PICK g : Good(g, N)
    BY <1>3
  <2> DEFINE h == [n \in 0..N |-> g[n]]
  <2>2. ASSUME NEW n \in 0..N PROVE h[n] = Next1(h, n)
    <3>1. n # 0 => n - 1 \in 0..N
      BY <1>0
    <3>2. h[n] = g[n] /\ (n # 0 => h[n - 1] = g[n - 1])
      BY <3>1
    <3>3. g[n] = Next1(g, n)
      BY <2>1
    <3> HIDE DEF h
    <3>4. QED BY <3>2, <3>3
  <2>3. h = [n \in 0..N |-> h[n]]
    OBVIOUS
  <2> HIDE DEF h, N
  <2>4. h = [n \in 0..N |-> Next1(h, n)]
    BY <2>2, <2>3
  <2>5. QED BY <2>4
<1> DEFINE after == ItemsSteps(root, local)
<1>5. after = [n \in 0..N |-> Next1(after, n)]
  BY <1>4, Zenon DEF ItemsSteps
<1>6. MergeLocal(root, local) = after[N]
  BY Zenon DEF MergeLocal, ItemsSteps
<1> HIDE DEF after
<1>7. \A n \in 0..N : after[n] = Next1(after, n)
  BY <1>5
<1>8. \A n \in 1..N : n \in 0..N /\ n # 0
  BY <1>0
<1>9. QED BY <1>0, <1>6, <1>7, <1>8 DEF after

\* A member replaces the one it is found under, or extends it.
LEMMA MergeMemberCases ==
  ASSUME NEW section, NEW sub, IsList(section), IsItem(sub)
  PROVE  LET k == IndexOf(section, sub.string)
             old == section.child[k]
         IN
         /\ k \in 0..Len(section.child)
         /\ k = 0 => MergeMember(section, sub) = section
         /\ k # 0 => MergeMember(section, sub) =
              [section EXCEPT !.child[k] = IF IsArray(old) /\ IsArray(sub) THEN Extended(old, sub) ELSE sub]
<1> DEFINE k == IndexOf(section, sub.string)
           old == section.child[k]
<1>1. Len(section.child) \in Nat /\ DOMAIN section.child = 1..Len(section.child) /\ section # NULL
  BY ItemFields DEF IsList
<1>2. k \in 0..Len(section.child) /\ GetObjectItem(section, sub.string) = IF k = 0 THEN NULL ELSE old
  BY <1>1, IndexOfFinds
<1>3. ~IsArray(NULL)
  BY DEF IsArray, NULL, New_Item
<1>4. [sub EXCEPT !.string = sub.string] = sub
  BY SameName
<1>5. k = 0 => MergeMember(section, sub) = section
  BY <1>2, <1>3 DEF MergeMember, ReplaceItemInObject
<1>6. ASSUME k # 0, IsArray(old), IsArray(sub)
      PROVE  MergeMember(section, sub) = [section EXCEPT !.child[k] = Extended(old, sub)]
  <2>1. MergeMember(section, sub) = [section EXCEPT !.child[k].child = @ \o sub.child]
    BY <1>2, <1>6 DEF MergeMember
  <2>2. QED BY <2>1 DEF Extended
<1>7. ASSUME k # 0, ~(IsArray(old) /\ IsArray(sub))
      PROVE  MergeMember(section, sub) = [section EXCEPT !.child[k] = sub]
  BY <1>1, <1>2, <1>4, <1>7 DEF MergeMember, ReplaceItemInObject
<1>8. QED BY <1>2, <1>5, <1>6, <1>7

\* Members keep a section what it is.
LEMMA MergeMemberShape ==
  ASSUME NEW section, NEW sub, IsList(section), IsItem(sub)
  PROVE  LET new == MergeMember(section, sub) IN
         IsList(new) /\ new.type = section.type /\ new.string = section.string
<1> DEFINE k == IndexOf(section, sub.string)
           old == section.child[k]
           x == IF IsArray(old) /\ IsArray(sub) THEN Extended(old, sub) ELSE sub
           new == MergeMember(section, sub)
<1>1. k \in 0..Len(section.child) /\ (k = 0 => new = section) /\ (k # 0 => new = [section EXCEPT !.child[k] = x])
  BY MergeMemberCases
<1>2. IsItem(section) /\ DOMAIN section.child = 1..Len(section.child) /\ Len(section.child) \in Nat
  BY ItemFields DEF IsList
<1>3. CASE k = 0
  BY <1>1, <1>3
<1>4. CASE k # 0
  <2>1. k \in 1..Len(section.child)
    BY <1>1, <1>2, <1>4
  <2>2. IsItem(x)
    <3>1. IsItem(old)
      BY <1>2, <2>1 DEF IsList
    <3>2. QED BY <3>1, ItemExtended
  <2> HIDE DEF x, k
  <2>3. /\ IsItem(new) /\ new.type = section.type /\ new.string = section.string
        /\ Len(new.child) = Len(section.child) /\ new.child[k] = x
        /\ \A j \in 1..Len(section.child) : j # k => new.child[j] = section.child[j]
    <3> HIDE DEF new
    <3>1. new = [section EXCEPT !.child[k] = x]
      BY <1>1, <1>4
    <3>2. QED BY <1>2, <2>1, <2>2, <3>1, ItemWithAt
  <2> HIDE DEF new
  <2>4. DOMAIN new.child = 1..Len(section.child)
    BY <2>3, ItemFields
  <2>5. \A j \in DOMAIN new.child : IsItem(new.child[j])
    BY <1>2, <2>2, <2>3, <2>4 DEF IsList
  <2>6. QED BY <2>3, <2>5 DEF IsList, new
<1>5. QED BY <1>3, <1>4

LEMMA MergeMembersShape ==
  ASSUME NEW section, NEW members, IsList(section), Len(members) \in Nat,
         \A n \in 1..Len(members) : IsItem(members[n]),
         NEW n \in 0..Len(members)
  PROVE  LET new == MembersSteps(section, members)[n] IN
         IsList(new) /\ new.type = section.type /\ new.string = section.string
<1> DEFINE g == MembersSteps(section, members)
           Shape(t) == IsList(t) /\ t.type = section.type /\ t.string = section.string
           S == {m \in 0..Len(members) : Shape(g[m])}
<1>1. g[0] = section /\ \A m \in 1..Len(members) : g[m] = MergeMember(g[m - 1], members[m])
  BY MembersLoop
<1>2. 0 \in S
  BY <1>1
<1>3. ASSUME NEW m \in 1..Len(members), m - 1 \in S PROVE m \in S
  <2>1. Shape(g[m - 1]) /\ IsItem(members[m]) /\ g[m] = MergeMember(g[m - 1], members[m])
    BY <1>1, <1>3
  <2> HIDE DEF g
  <2>2. Shape(g[m])
    BY <2>1, MergeMemberShape
  <2>3. QED BY <2>2
<1>4. n \in S
  <2> HIDE DEF S
  <2>1. QED BY <1>2, <1>3, UpTo
<1>5. QED BY <1>4

\* An item is added to the tree, merged into the one it is found under, or
\* replaces it; one without a name is passed over.
LEMMA MergeItemCases ==
  ASSUME NEW root, NEW item, IsTree(root), IsList(item)
  PROVE  LET k == IndexOf(root, item.string)
             old == root.child[k]
         IN
         /\ k \in 0..Len(root.child)
         /\ k = 0 => MergeItem(root, item) =
              IF item.string = NoName THEN root ELSE [root EXCEPT !.child = Append(@, item)]
         /\ k # 0 => MergeItem(root, item) =
              [root EXCEPT !.child[k] = IF IsObject(item) THEN MergeMembers(old, item.child) ELSE item]
<1> DEFINE k == IndexOf(root, item.string)
           old == root.child[k]
<1>1. /\ Len(root.child) \in Nat /\ DOMAIN root.child = 1..Len(root.child) /\ root # NULL
      /\ item # NULL /\ IsItem(item)
  BY ItemFields DEF IsTree, IsList
<1>2. k \in 0..Len(root.child) /\ GetObjectItem(root, item.string) = IF k = 0 THEN NULL ELSE old
  BY <1>1, IndexOfFinds
<1>3. [item EXCEPT !.string = item.string] = item
  BY <1>1, SameName
<1>4. ASSUME k = 0
      PROVE MergeItem(root, item) =
              IF item.string = NoName THEN root ELSE [root EXCEPT !.child = Append(@, item)]
  <2>1. MergeItem(root, item) = AddItemToObject(root, item.string, item)
    BY <1>2, <1>4 DEF MergeItem
  <2>2. QED BY <1>1, <1>3, <2>1 DEF AddItemToObject, AddItemToArray
<1>5. ASSUME k # 0
      PROVE  /\ old # NULL
             /\ MergeItem(root, item) =
                  IF IsObject(item) THEN [root EXCEPT !.child[k] = MergeMembers(@, item.child)]
                  ELSE ReplaceItemInObject(root, item.string, item)
  <2>1. k \in 1..Len(root.child)
    BY <1>1, <1>2, <1>5
  <2>2. IsItem(old)
    BY <1>1, <2>1 DEF IsTree, IsList
  <2>3. old # NULL
    BY <2>2, ItemFields
  <2>4. QED BY <1>2, <1>5, <2>3 DEF MergeItem
<1>6. ASSUME k # 0, IsObject(item)
      PROVE  MergeItem(root, item) = [root EXCEPT !.child[k] = MergeMembers(old, item.child)]
  BY <1>5, <1>6
<1>7. ASSUME k # 0, ~IsObject(item) PROVE MergeItem(root, item) = [root EXCEPT !.child[k] = item]
  BY <1>1, <1>2, <1>3, <1>5, <1>7 DEF ReplaceItemInObject
<1>8. QED BY <1>2, <1>4, <1>6, <1>7

\* What an item leaves of the tree: at most one child is another, or is new.
LEMMA MergeItemShape ==
  ASSUME NEW root, NEW item, IsTree(root), IsList(item)
  PROVE  LET new == MergeItem(root, item)
             k == IndexOf(root, item.string)
             old == root.child[k]
         IN
         /\ IsTree(new) /\ new.type = root.type /\ new.string = root.string
         /\ \A j \in 1..Len(root.child) : j # k => new.child[j] = root.child[j]
         /\ k # 0 => /\ Len(new.child) = Len(root.child)
                     /\ new.child[k] = IF IsObject(item) THEN MergeMembers(old, item.child) ELSE item
         /\ k = 0 /\ item.string = NoName => new = root
         /\ k = 0 /\ item.string # NoName =>
              Len(new.child) = Len(root.child) + 1 /\ new.child[Len(root.child) + 1] = item
<1> DEFINE new == MergeItem(root, item)
           k == IndexOf(root, item.string)
           old == root.child[k]
           x == IF IsObject(item) THEN MergeMembers(old, item.child) ELSE item
           L == Len(root.child)
<1>1. /\ k \in 0..L
      /\ k = 0 => new = IF item.string = NoName THEN root ELSE [root EXCEPT !.child = Append(@, item)]
      /\ k # 0 => new = [root EXCEPT !.child[k] = x]
  BY MergeItemCases
<1>2. IsItem(root) /\ DOMAIN root.child = 1..L /\ L \in Nat /\ \A j \in 1..L : IsList(root.child[j])
  BY ItemFields DEF IsTree
<1> HIDE DEF new, k
<1>3. CASE k = 0 /\ item.string = NoName
  <2>1. new = root
    BY <1>1, <1>3
  <2>2. QED BY <1>3, <2>1 DEF new, k
<1>4. CASE k = 0 /\ item.string # NoName
  <2>1. /\ IsItem(new) /\ new.type = root.type /\ new.string = root.string
        /\ Len(new.child) = L + 1 /\ new.child[L + 1] = item
        /\ \A j \in 1..L : new.child[j] = root.child[j]
    <3> DEFINE u == [root EXCEPT !.child = Append(@, item)]
    <3>1. new = u
      BY <1>1, <1>4
    <3>2. /\ IsItem(u) /\ u.type = root.type /\ u.string = root.string
          /\ Len(u.child) = Len(root.child) + 1 /\ u.child[Len(root.child) + 1] = item
          /\ \A j \in 1..Len(root.child) : u.child[j] = root.child[j]
      BY <1>2, ItemAppended DEF IsList
    <3> HIDE DEF u
    <3>3. QED BY <3>1, <3>2
  <2>2. DOMAIN new.child = 1..(L + 1)
    BY <2>1, ItemFields
  <2>3. \A j \in DOMAIN new.child : IsList(new.child[j])
    <3>1. \A j \in 1..(L + 1) : j \in 1..L \/ j = L + 1
      BY <1>2
    <3>2. QED BY <1>2, <2>1, <2>2, <3>1
  <2>4. QED BY <1>4, <2>1, <2>3 DEF IsTree, new, k
<1>5. CASE k # 0
  <2>1. k \in 1..L
    BY <1>1, <1>2, <1>5
  <2>2. IsList(x)
    <3>1. IsList(old)
      BY <1>2, <2>1
    <3>2. Len(item.child) \in Nat /\ \A n \in 1..Len(item.child) : IsItem(item.child[n])
      BY ItemFields DEF IsList
    <3>3. Len(item.child) \in 0..Len(item.child)
      BY <3>2
    <3>4. IsList(MembersSteps(old, item.child)[Len(item.child)])
      BY <3>1, <3>2, <3>3, MergeMembersShape
    <3>5. MergeMembers(old, item.child) = MembersSteps(old, item.child)[Len(item.child)]
      BY <3>2, MembersLoop
    <3>6. QED BY <3>4, <3>5
  <2> HIDE DEF x
  <2>0. IsItem(x)
    BY <2>2 DEF IsList
  <2>3. /\ IsItem(new) /\ new.type = root.type /\ new.string = root.string
        /\ Len(new.child) = L /\ new.child[k] = x
        /\ \A j \in 1..L : j # k => new.child[j] = root.child[j]
    <3>1. new = [root EXCEPT !.child[k] = x]
      BY <1>1, <1>5
    <3>2. QED BY <1>2, <2>1, <2>0, <3>1, ItemWithAt
  <2>4. DOMAIN new.child = 1..L
    BY <2>3, ItemFields
  <2>5. \A j \in DOMAIN new.child : IsList(new.child[j])
    BY <1>2, <2>2, <2>3, <2>4
  <2>6. QED BY <1>5, <2>3, <2>5 DEF IsTree, new, k, x
<1>6. QED BY <1>3, <1>4, <1>5

LEMMA MergeShape ==
  ASSUME NEW root, NEW local, IsTree(root), IsTree(local), NEW n \in 0..Len(local.child)
  PROVE  IsTree(ItemsSteps(root, local)[n])
<1> DEFINE g == ItemsSteps(root, local)
           S == {m \in 0..Len(local.child) : IsTree(g[m])}
<1>1. Len(local.child) \in Nat /\ \A m \in 1..Len(local.child) : IsList(local.child[m])
  BY ItemFields DEF IsTree
<1>2. g[0] = root /\ \A m \in 1..Len(local.child) : g[m] = MergeItem(g[m - 1], local.child[m])
  BY <1>1, ItemsLoop
<1>3. 0 \in S
  BY <1>1, <1>2
<1>4. ASSUME NEW m \in 1..Len(local.child), m - 1 \in S PROVE m \in S
  <2>1. IsTree(g[m - 1]) /\ IsList(local.child[m]) /\ g[m] = MergeItem(g[m - 1], local.child[m])
    BY <1>1, <1>2, <1>4
  <2> HIDE DEF g
  <2>2. IsTree(g[m])
    BY <2>1, MergeItemShape
  <2>3. QED BY <2>2
<1>5. n \in S
  <2> HIDE DEF S
  <2>1. QED BY <1>1, <1>3, <1>4, UpTo
<1>6. QED BY <1>5

\* Merging keeps a policy a tree.
THEOREM MergeKeepsTrees ==
  ASSUME NEW root, NEW local, IsTree(root), IsTree(local)
  PROVE  IsTree(MergeLocal(root, local))
<1>1. Len(local.child) \in Nat
  BY ItemFields DEF IsTree
<1>2. QED BY <1>1, ItemsLoop, MergeShape

-----------------------------------------------------------------------------
(***************************************************************************)
(* The shape of what the parser builds: every item is an item, and so are  *)
(* its children, which the parser has built at another place.              *)
(***************************************************************************)

\* The lists of children that parsing a text builds, and the items over them.
ChildLists(text) ==
  {<<>>} \cup {Parses(text)[q].items : q \in {p \in Places(text) : Parses(text)[p].ok}}
BuiltItems(text) ==
  [type : ItemTypes, string : Strings, valuestring : Strings, valuedouble : Numbers,
   child : ChildLists(text)]
Builds(text, r) == r.ok => r.items \in Seq(BuiltItems(text))

LEMMA One ==
  ASSUME NEW S, NEW x \in S
  PROVE  <<x>> \in Seq(S) /\ <<x>>[1] = x
  OBVIOUS

\* A token of a text is one of the tokens, or the end.
LEMMA AtToken ==
  ASSUME NEW text \in Seq(Tokens), NEW i \in 1..(Len(text) + 1)
  PROVE  At(text, i).s \in Strings /\ At(text, i).n \in Numbers
<1>1. Len(text) \in Nat
  OBVIOUS
<1>2. CASE i <= Len(text)
  <2>1. i \in 1..Len(text)
    BY <1>1, <1>2
  <2>2. At(text, i) = text[i] /\ text[i] \in Tokens
    BY <1>2, <2>1, ElementOfSeq DEF At
  <2>3. QED BY <2>2 DEF Strings, Numbers
<1>3. CASE ~(i <= Len(text))
  <2>1. At(text, i) = Token("end")
    BY <1>3 DEF At
  <2>2. QED BY <2>1 DEF Token, Strings, Numbers
<1>4. QED BY <1>2, <1>3

\* A list and its opening bracket.
LEMMA OpenListBuilds ==
  ASSUME NEW text, Len(text) \in Nat, NEW i \in 1..(Len(text) + 1), NEW d \in 0..NestingLimit,
         i <= Len(text), NEW type \in {"Array", "Object"}, NEW list \in {"elements", "members"},
         NEW close, close # "end"
  PROVE  LET r == OpenList(text, Parses(text), i, d, type, list, close) IN
         r.ok => r.items \in Seq(BuiltItems(text)) /\ r.items[1] \in BuiltItems(text)
<1> DEFINE g == Parses(text)
           q == Place(list, i + 1, d + 1)
           r == OpenList(text, g, i, d, type, list, close)
           empty == [New_Item EXCEPT !.type = type]
           full == [New_Item EXCEPT !.type = type, !.child = g[q].items]
<1>1. CASE d >= NestingLimit
  BY <1>1 DEF OpenList, Failed
<1>2. CASE ~(d >= NestingLimit) /\ At(text, i + 1).k = close
  <2>1. r = Built(i + 2, <<empty>>)
    BY <1>2 DEF OpenList
  <2>2. empty \in BuiltItems(text)
    BY DEF BuiltItems, New_Item, ItemTypes, Strings, Numbers, ChildLists
  <2> HIDE DEF empty
  <2>3. r.items = <<empty>>
    BY <2>1 DEF Built
  <2>4. QED BY <2>2, <2>3, One
<1>3. CASE ~(d >= NestingLimit) /\ At(text, i + 1).k # close
  <2>1. q \in Places(text)
    <3>1. list \in {"value", "elements", "members"} /\ i + 1 \in 1..(Len(text) + 1) /\ d + 1 \in 0..NestingLimit
      BY <1>3, JsonAssumption
    <3>2. QED BY <3>1 DEF Place, Places
  <2>2. r = IF g[q].ok THEN Built(g[q].at, <<full>>) ELSE Failed
    BY <1>3 DEF OpenList
  <2>3. CASE ~g[q].ok
    BY <2>2, <2>3 DEF Failed
  <2>4. CASE g[q].ok
    <3>1. g[q].items \in ChildLists(text)
      BY <2>1, <2>4 DEF ChildLists
    <3> HIDE DEF g, q
    <3>2. full \in BuiltItems(text)
      BY <3>1 DEF BuiltItems, New_Item, ItemTypes, Strings, Numbers
    <3> HIDE DEF full, r
    <3>3. r.items = <<full>>
      BY <2>2, <2>4 DEF Built
    <3>4. r.items \in Seq(BuiltItems(text))
      BY <3>2, <3>3, One
    <3>5. r.items[1] \in BuiltItems(text)
      <4>1. r.items[1] = full
        BY <3>3
      <4>2. QED BY <3>2, <4>1
    <3>6. QED BY <3>4, <3>5 DEF r, g
  <2>5. QED BY <2>3, <2>4
<1>4. QED BY <1>1, <1>2, <1>3

\* A value is one item.
LEMMA ValueBuilds ==
  ASSUME NEW text \in Seq(Tokens), NEW p \in Places(text), p.what = "value", Parses(text)[p].ok
  PROVE  Parses(text)[p].items \in Seq(BuiltItems(text)) /\ Parses(text)[p].items[1] \in BuiltItems(text)
<1> DEFINE g == Parses(text)
           i == p.i
           d == p.d
           k == At(text, i).k
           r == parse_value(text, g, i, d)
           OneOf(c) == c.items \in Seq(BuiltItems(text)) /\ c.items[1] \in BuiltItems(text)
<1>1. Len(text) \in Nat /\ i \in 1..(Len(text) + 1) /\ d \in 0..NestingLimit
  BY DEF Places
<1>2. g[p] = r
  BY <1>1, ParserSteps DEF parse_at
<1>3. ASSUME NEW item \in BuiltItems(text), r = Leaf(i, item) PROVE OneOf(r)
  <2>1. r.items = <<item>>
    BY <1>3 DEF Leaf, Built
  <2> HIDE DEF r
  <2>2. QED BY <2>1, One
<1>4. CASE k \in {"null", "false", "true"}
  <2> DEFINE type == IF k = "null" THEN "NULL" ELSE IF k = "false" THEN "False" ELSE "True"
             item == [New_Item EXCEPT !.type = type]
  <2>1. r = Leaf(i, item)
    BY <1>4 DEF parse_value
  <2>2. type \in ItemTypes
    BY DEF ItemTypes
  <2> HIDE DEF type
  <2>3. item \in BuiltItems(text)
    BY <2>2 DEF BuiltItems, New_Item, Strings, Numbers, ChildLists
  <2>4. QED BY <1>2, <1>3, <2>1, <2>3
<1>5. CASE k = "string"
  <2>1. r = Leaf(i, ParseString(At(text, i)))
    BY <1>5 DEF parse_value
  <2>2. At(text, i).s \in Strings
    BY <1>1, AtToken
  <2>3. ParseString(At(text, i)) \in BuiltItems(text)
    BY <2>2 DEF ParseString, BuiltItems, New_Item, ItemTypes, Strings, Numbers, ChildLists
  <2>4. QED BY <1>2, <1>3, <2>1, <2>3
<1>6. CASE k = "number"
  <2>1. r = Leaf(i, ParseNumber(At(text, i)))
    BY <1>6 DEF parse_value
  <2>2. At(text, i).n \in Numbers
    BY <1>1, AtToken
  <2>3. ParseNumber(At(text, i)) \in BuiltItems(text)
    BY <2>2 DEF ParseNumber, BuiltItems, New_Item, ItemTypes, Strings, Numbers, ChildLists
  <2>4. QED BY <1>2, <1>3, <2>1, <2>3
<1>7. CASE k \in {"[", "{"}
  <2>1. i <= Len(text)
    <3>1. k # "end"
      BY <1>7
    <3>2. i \in Nat \ {0}
      BY <1>1
    <3> HIDE DEF i
    <3>3. QED BY <3>1, <3>2, AtInside
  <2>2. CASE k = "["
    <3>1. r = OpenList(text, g, i, d, "Array", "elements", "]")
      BY <2>2 DEF parse_value
    <3>2. "Array" \in {"Array", "Object"} /\ "elements" \in {"elements", "members"} /\ "]" # "end"
      OBVIOUS
    <3> HIDE DEF r, i, d
    <3>3. QED BY <1>1, <1>2, <2>1, <3>1, <3>2, OpenListBuilds
  <2>3. CASE k = "{"
    <3>1. r = OpenList(text, g, i, d, "Object", "members", "}")
      BY <2>3 DEF parse_value
    <3>2. "Object" \in {"Array", "Object"} /\ "members" \in {"elements", "members"} /\ "}" # "end"
      OBVIOUS
    <3> HIDE DEF r, i, d
    <3>3. QED BY <1>1, <1>2, <2>1, <3>1, <3>2, OpenListBuilds
  <2>4. QED BY <1>7, <2>2, <2>3
<1>8. CASE k \notin {"null", "false", "true", "string", "number", "[", "{"}
  <2>1. r = Failed
    BY <1>8 DEF parse_value
  <2>2. QED BY <1>2, <2>1 DEF Failed
<1>9. QED BY <1>4, <1>5, <1>6, <1>7, <1>8

\* What follows an item of a list is items.
LEMMA RestOfListBuilds ==
  ASSUME NEW text, Len(text) \in Nat, NEW item \in BuiltItems(text),
         NEW j \in 1..(Len(text) + 1), NEW d \in 0..NestingLimit,
         NEW list \in {"elements", "members"}, NEW close, close # "end",
         \A q \in Places(text) : q.i > j => Builds(text, Parses(text)[q])
  PROVE  Builds(text, RestOfList(text, Parses(text), item, j, d, list, close))
<1> DEFINE g == Parses(text)
           q == Place(list, j + 1, d)
           r == RestOfList(text, g, item, j, d, list, close)
<1>1. CASE EndsList(At(text, j), close)
  <2>1. r.items = <<item>>
    BY <1>1 DEF RestOfList, Built
  <2> HIDE DEF r
  <2>2. r.items \in Seq(BuiltItems(text))
    BY <2>1, One
  <2>3. QED BY <2>2 DEF Builds, r
<1>2. CASE ~EndsList(At(text, j), close) /\ At(text, j).k # ","
  BY <1>2 DEF RestOfList, Failed, Builds
<1>3. CASE ~EndsList(At(text, j), close) /\ At(text, j).k = ","
  <2>1. j <= Len(text)
    <3>1. At(text, j).k # "end"
      BY <1>3
    <3>2. j \in Nat \ {0}
      OBVIOUS
    <3>3. QED BY <3>1, <3>2, AtInside
  <2>2. q \in Places(text) /\ q.i = j + 1
    <3>1. list \in {"value", "elements", "members"} /\ j + 1 \in 1..(Len(text) + 1)
      BY <2>1
    <3>2. QED BY <3>1 DEF Place, Places
  <2>3. Builds(text, g[q])
    BY <2>2
  <2>4. r = IF g[q].ok THEN Built(g[q].at, <<item>> \o g[q].items) ELSE Failed
    BY <1>3 DEF RestOfList
  <2>5. CASE ~g[q].ok
    BY <2>4, <2>5 DEF Builds, Failed
  <2>6. CASE g[q].ok
    <3>1. g[q].items \in Seq(BuiltItems(text)) /\ <<item>> \in Seq(BuiltItems(text))
      BY <2>3, <2>6, One DEF Builds
    <3>2. <<item>> \o g[q].items \in Seq(BuiltItems(text))
      BY <3>1, ConcatProperties
    <3>3. r.items = <<item>> \o g[q].items
      BY <2>4, <2>6 DEF Built
    <3> HIDE DEF r
    <3>4. r.items \in Seq(BuiltItems(text))
      BY <3>2, <3>3
    <3>5. QED BY <3>4 DEF Builds, r
  <2>7. QED BY <2>5, <2>6
<1>4. QED BY <1>1, <1>2, <1>3

\* The parser builds items at every place, if it does behind the place.
LEMMA PlaceBuilds ==
  ASSUME NEW text \in Seq(Tokens), NEW p \in Places(text),
         \A q \in Places(text) : q.i > p.i => Builds(text, Parses(text)[q])
  PROVE  Builds(text, Parses(text)[p])
<1> DEFINE g == Parses(text)
           i == p.i
           d == p.d
           r == g[p]
<1>1. /\ p.what \in {"value", "elements", "members"}
      /\ Len(text) \in Nat /\ i \in 1..(Len(text) + 1) /\ d \in 0..NestingLimit
  BY DEF Places
<1>2. r = parse_at(text, g, p)
  BY <1>1, ParserSteps
<1>3. CASE p.what = "value"
  BY <1>3, ValueBuilds DEF Builds
<1>4. CASE p.what = "elements"
  <2> DEFINE q == Place("value", i, d)
  <2>1. q \in Places(text) /\ q.what = "value" /\ q.i = i
    BY <1>1 DEF Place, Places
  <2>2. r = IF g[q].ok THEN RestOfList(text, g, g[q].items[1], g[q].at, d, "elements", "]") ELSE Failed
    BY <1>2, <1>4 DEF parse_at, parse_array
  <2>3. CASE ~g[q].ok
    BY <2>2, <2>3 DEF Builds, Failed
  <2>4. CASE g[q].ok
    <3>1. g[q].items[1] \in BuiltItems(text)
      BY <2>1, <2>4, ValueBuilds
    <3>2. g[q].at \in (i + 1)..(Len(text) + 1)
      BY <1>1, <2>1, <2>4, ParserSteps DEF Advances
    <3>3. g[q].at \in 1..(Len(text) + 1) /\ g[q].at > i
      BY <1>1, <3>2
    <3>4. \A t \in Places(text) : t.i > g[q].at => Builds(text, g[t])
      <4>1. \A t \in Places(text) : t.i \in Nat
        BY DEF Places
      <4>2. \A t \in Places(text) : t.i > g[q].at => t.i > i
        BY <1>1, <3>3, <4>1
      <4>3. QED BY <4>2
    <3>5. "elements" \in {"elements", "members"} /\ "]" # "end"
      OBVIOUS
    <3> HIDE DEF r, q, d, i
    <3>6. Builds(text, RestOfList(text, g, g[q].items[1], g[q].at, d, "elements", "]"))
      BY <1>1, <3>1, <3>3, <3>4, <3>5, RestOfListBuilds
    <3>7. QED BY <2>2, <2>4, <3>6 DEF r
  <2>5. QED BY <2>3, <2>4
<1>5. CASE p.what = "members"
  <2> DEFINE q == Place("value", i + 2, d)
             label == At(text, i)
             item == [g[q].items[1] EXCEPT !.string = label.s]
             named == label.k = "string" /\ At(text, i + 1).k = ":"
  <2>1. r = IF named /\ g[q].ok THEN RestOfList(text, g, item, g[q].at, d, "members", "}") ELSE Failed
    BY <1>2, <1>5 DEF parse_at, parse_object
  <2>2. CASE ~(named /\ g[q].ok)
    <3> HIDE DEF r, q, label, named, item, d
    <3>1. r = Failed
      BY <2>1, <2>2
    <3>2. Builds(text, r)
      BY <3>1 DEF Builds, Failed
    <3>3. QED BY <3>2 DEF r
  <2>3. CASE named /\ g[q].ok
    <3>1. i + 1 <= Len(text)
      <4>1. At(text, i + 1).k # "end"
        BY <2>3
      <4>2. i + 1 \in Nat \ {0}
        BY <1>1
      <4> HIDE DEF i
      <4>3. QED BY <4>1, <4>2, AtInside
    <3>2. q \in Places(text) /\ q.i = i + 2 /\ q.what = "value"
      BY <1>1, <3>1 DEF Place, Places
    <3>3. item \in BuiltItems(text)
      <4>1. g[q].items[1] \in BuiltItems(text)
        BY <2>3, <3>2, ValueBuilds
      <4>2. label.s \in Strings
        BY <1>1, AtToken
      <4> HIDE DEF label, g, q
      <4>3. QED BY <4>1, <4>2 DEF BuiltItems
    <3>4. g[q].at \in (i + 3)..(Len(text) + 1)
      BY <1>1, <2>3, <3>2, ParserSteps DEF Advances
    <3>5. g[q].at \in 1..(Len(text) + 1) /\ g[q].at > i
      BY <1>1, <3>4
    <3>6. \A t \in Places(text) : t.i > g[q].at => Builds(text, g[t])
      <4>1. \A t \in Places(text) : t.i \in Nat
        BY DEF Places
      <4>2. \A t \in Places(text) : t.i > g[q].at => t.i > i
        BY <1>1, <3>5, <4>1
      <4>3. QED BY <4>2
    <3>7. "members" \in {"elements", "members"} /\ "}" # "end"
      OBVIOUS
    <3> HIDE DEF r, q, d, i, item, named
    <3>8. Builds(text, RestOfList(text, g, item, g[q].at, d, "members", "}"))
      BY <1>1, <3>3, <3>5, <3>6, <3>7, RestOfListBuilds
    <3>9. QED BY <2>1, <2>3, <3>8 DEF r
  <2>4. QED BY <2>2, <2>3
<1>6. QED BY <1>1, <1>3, <1>4, <1>5

\* At every place, then: from the end of the text backwards.
LEMMA ParserBuilds ==
  ASSUME NEW text \in Seq(Tokens), NEW p \in Places(text)
  PROVE  Builds(text, Parses(text)[p])
<1> DEFINE L == Len(text)
           Fine(q) == Builds(text, Parses(text)[q])
           From(k) == \A q \in Places(text) : q.i >= k => Fine(q)
           S == {m \in 0..(L + 1) : From(L + 2 - m)}
<1>1. L \in Nat /\ \A q \in Places(text) : q.i \in 1..(L + 1)
  BY DEF Places
<1>2. 0 \in S
  <2>1. \A q \in Places(text) : ~(q.i >= L + 2 - 0)
    BY <1>1
  <2>2. QED BY <1>1, <2>1
<1>3. ASSUME NEW m \in 1..(L + 1), m - 1 \in S PROVE m \in S
  <2>1. From(L + 2 - (m - 1))
    BY <1>3
  <2>2. ASSUME NEW q \in Places(text), q.i >= L + 2 - m PROVE Fine(q)
    <3>1. ASSUME NEW t \in Places(text), t.i > q.i PROVE Fine(t)
      <4>1. t.i >= L + 2 - (m - 1)
        BY <1>1, <2>2, <3>1
      <4>2. QED BY <2>1, <4>1
    <3>2. QED BY <3>1, PlaceBuilds
  <2> HIDE DEF Fine, L
  <2>3. From(L + 2 - m) /\ m \in 0..(L + 1)
    BY <1>1, <2>2
  <2>4. QED BY <2>3
<1>4. L + 1 \in S
  <2> HIDE DEF S, L
  <2>1. L + 1 \in Nat /\ L + 1 \in 0..(L + 1)
    BY <1>1
  <2>2. QED BY <1>2, <1>3, <2>1, UpTo
<1>5. p.i >= L + 2 - (L + 1)
  BY <1>1
<1>6. QED BY <1>4, <1>5

\* What is built is an item whose children are built too.
LEMMA BuiltIsItem ==
  ASSUME NEW text \in Seq(Tokens), NEW t \in BuiltItems(text)
  PROVE  IsItem(t) /\ \A i \in DOMAIN t.child : t.child[i] \in BuiltItems(text)
<1> DEFINE I == BuiltItems(text)
           C == {t.child[i] : i \in DOMAIN t.child} \ {NULL}
<1>1. /\ t \in [type : ItemTypes, string : Strings, valuestring : Strings, valuedouble : Numbers,
                child : ChildLists(text)]
      /\ t.child \in ChildLists(text)
  BY DEF BuiltItems
<1>2. t.child \in Seq(I)
  <2>1. CASE t.child = <<>>
    BY <2>1
  <2>2. ASSUME NEW q \in Places(text), Parses(text)[q].ok, t.child = Parses(text)[q].items
        PROVE  t.child \in Seq(I)
    <3>1. Builds(text, Parses(text)[q])
      BY ParserBuilds
    <3>2. QED BY <2>2, <3>1 DEF Builds
  <2>3. QED BY <1>1, <2>1, <2>2 DEF ChildLists
<1>0. NULL \notin I
  BY DEF BuiltItems, ItemTypes, NULL, New_Item
<1> HIDE DEF I
<1>3. Len(t.child) \in Nat /\ DOMAIN t.child = 1..Len(t.child) /\ t.child \in [1..Len(t.child) -> I]
  BY <1>2, LenProperties
<1>4. \A i \in DOMAIN t.child : t.child[i] \in I
  BY <1>3
<1>5. t.child \in Seq(C)
  <2>1. t.child \in [1..Len(t.child) -> C]
    BY <1>3, <1>0
  <2> HIDE DEF C
  <2>2. QED BY <1>3, <2>1, SeqDef
<1>6. IsItem(t)
  BY <1>1, <1>5 DEF IsItem
<1>7. QED BY <1>4, <1>6 DEF I

\* cJSON_Parse gives a tree or nothing.
THEOREM ParseGivesTree ==
  ASSUME NEW text \in Seq(Tokens)
  PROVE  Parse(text) = NULL \/ IsTree(Parse(text))
<1> DEFINE p == Place("value", 1, 0)
<1>1. Len(text) \in Nat
  OBVIOUS
<1>2. p \in Places(text) /\ p.what = "value" /\ Parser(text) = Parses(text)[p]
  BY <1>1, RootPlace, ParserSteps DEF Place
<1>3. CASE ~Parser(text).ok
  BY <1>3 DEF Parse
<1>4. CASE Parser(text).ok
  <2>1. Parse(text) = Parses(text)[p].items[1]
    BY <1>2, <1>4 DEF Parse
  <2>2. Parse(text) \in BuiltItems(text)
    BY <1>2, <1>4, <2>1, ValueBuilds
  <2>3. QED BY <2>2, BuiltIsItem DEF IsTree, IsList
<1>5. QED BY <1>3, <1>4

-----------------------------------------------------------------------------
\* The text of a file is made of tokens, so that it parses to a tree.
LEMMA ReadGivesTree ==
  ASSUME FilesInv, NEW f \in Files
  PROVE  Parse(Read(f)) = NULL \/ IsTree(Parse(Read(f)))
<1>1. Read(f) \in Seq(Tokens)
  <2>1. CASE name[f] = NoInode
    BY <2>1 DEF Read
  <2>2. CASE name[f] # NoInode
    <3>1. content \in Seq(Seq(Tokens)) /\ name[f] \in 1..Len(content)
      BY <2>2, LenProperties DEF FilesInv, FilesTypeOK, InodesInv, NoInode
    <3>2. QED BY <2>2, <3>1, ElementOfSeq DEF Read
  <2>3. QED BY <2>1, <2>2
<1>2. QED BY <1>1, ParseGivesTree

LEMMA NullFields == NULL.child = <<>> /\ NULL.type = "NULL pointer"
  BY DEF NULL, New_Item

LEMMA TreeIsNotNull ==
  ASSUME NEW t, IsTree(t)
  PROVE  t # NULL
  BY ItemFields DEF IsTree

\* A local file that is no JSON changes nothing.
LEMMA MergeNothing ==
  ASSUME NEW root
  PROVE  MergeLocal(root, NULL) = root
<1>1. Len(NULL.child) = 0
  <2>1. Len(<<>>) = 0
    OBVIOUS
  <2>2. QED BY <2>1, NullFields
<1>2. QED BY <1>1, ItemsLoop

\* One more tree behind the ones merged.
LEMMA MergedAppended ==
  ASSUME merged \in Seq({merged[i] : i \in DOMAIN merged}), NEW x
  PROVE  LET new == Append(merged, x) IN
         /\ new \in Seq({new[i] : i \in DOMAIN new})
         /\ Len(merged) \in Nat /\ DOMAIN merged = 1..Len(merged)
         /\ DOMAIN new = 1..(Len(merged) + 1) /\ Len(new) = Len(merged) + 1
         /\ \A i \in 1..Len(merged) : new[i] = merged[i]
         /\ new[Len(merged) + 1] = x
<1> DEFINE M == {merged[i] : i \in DOMAIN merged}
           new == Append(merged, x)
           N == {new[i] : i \in DOMAIN new}
<1>1. Len(merged) \in Nat /\ DOMAIN merged = 1..Len(merged) /\ merged \in Seq(M \cup {x})
  <2> HIDE DEF M
  <2>1. merged \in Seq(M)
    BY DEF M
  <2>2. QED BY <2>1, LenProperties
<1>2. /\ new \in Seq(M \cup {x}) /\ Len(new) = Len(merged) + 1
      /\ \A i \in 1..Len(merged) : new[i] = merged[i]
      /\ new[Len(merged) + 1] = x
  <2> HIDE DEF M
  <2>1. QED BY <1>1
<1> HIDE DEF M, new
<1>3. Len(new) \in Nat /\ DOMAIN new = 1..Len(new) /\ new \in [1..Len(new) -> M \cup {x}]
  BY <1>2, LenProperties
<1>4. new \in Seq(N)
  <2>1. new \in [1..Len(new) -> N]
    BY <1>3
  <2> HIDE DEF N
  <2>2. QED BY <1>3, <2>1, SeqDef
<1>5. DOMAIN new = 1..(Len(merged) + 1)
  BY <1>2, <1>3
<1>6. QED BY <1>1, <1>2, <1>4, <1>5 DEF N, new

LEMMA TypeInit == ReloadInit => TypeOK
<1> SUFFICES ASSUME ReloadInit PROVE TypeOK
  OBVIOUS
<1>1. FilesTypeOK
  BY FilesInitInv DEF ReloadInit, FilesInv
<1>2. merged = <<>> /\ \A i \in DOMAIN merged : FALSE
  BY DEF ReloadInit
<1>3. merged \in Seq({merged[i] : i \in DOMAIN merged})
  BY <1>2
<1>4. 0 \in 0..MaxBoots
  BY BootsAssumption
<1>5. QED BY <1>1, <1>2, <1>3, <1>4 DEF ReloadInit, TypeOK, Booting

LEMMA TypeStep == FilesInv /\ FilesInv' /\ TypeOK /\ [ReloadNext]_vars => TypeOK'
<1> SUFFICES ASSUME FilesInv, FilesInv', TypeOK, [ReloadNext]_vars PROVE TypeOK'
  OBVIOUS
<1>0. FilesTypeOK' /\ Base \in Files /\ Local \in Files
  BY DEF FilesInv, Files
<1>1. ASSUME policy_root' = policy_root, pidFile' = pidFile, boots' = boots, loaded' = loaded, merged' = merged,
             reload' \in BOOLEAN,
             daemon' \in {daemon, "down"} \/ (daemon = "boot_ready" /\ daemon' = "idle")
      PROVE  TypeOK'
  BY <1>0, <1>1 DEF TypeOK
<1>2. CASE Boot
  <2>1. boots' \in 0..MaxBoots
    BY <1>2, BootsAssumption DEF Boot, TypeOK
  <2>2. merged' = <<>> /\ merged' \in Seq({merged'[i] : i \in DOMAIN merged'}) /\ \A i \in DOMAIN merged' : FALSE
    BY <1>2 DEF Boot
  <2>3. QED BY <1>0, <1>2, <2>1, <2>2 DEF Boot, TypeOK, Booting
<1>3. CASE Load
  <2> DEFINE new == Parse(Read(Base))
  <2>1. new = NULL \/ IsTree(new)
    BY <1>0, ReadGivesTree
  <2>2. /\ daemon \in {"boot", "idle"} /\ reload' = FALSE /\ boots' = boots /\ pidFile' = pidFile
        /\ policy_root' = IF new = NULL THEN policy_root ELSE new
        /\ IF new = NULL THEN loaded' = loaded /\ merged' = merged ELSE loaded' = new /\ merged' = <<>>
        /\ \/ daemon = "boot" /\ daemon' = IF new = NULL THEN "down" ELSE "boot_merge"
           \/ daemon = "idle" /\ daemon' = "merge"
    BY <1>3 DEF Load, NewRoot
  <2> HIDE DEF new
  <2>3. CASE new = NULL
    BY <1>0, <2>2, <2>3 DEF TypeOK, Booting
  <2>4. CASE new # NULL
    <3>1. merged' = <<>> /\ merged' \in Seq({merged'[i] : i \in DOMAIN merged'}) /\ \A i \in DOMAIN merged' : FALSE
      BY <2>2, <2>4
    <3>2. QED BY <1>0, <2>1, <2>2, <2>4, <3>1 DEF TypeOK, Booting
  <2>5. QED BY <2>3, <2>4
<1>4. CASE Merge
  <2> DEFINE local == Parse(Read(Local))
  <2>1. local = NULL \/ IsTree(local)
    BY <1>0, ReadGivesTree
  <2>2. /\ policy_root' = MergeLocal(policy_root, local)
        /\ merged' = IF local = NULL THEN merged ELSE Append(merged, local)
        /\ reload' = reload /\ pidFile' = pidFile /\ boots' = boots /\ loaded' = loaded
        /\ daemon \in {"boot_merge", "merge"} /\ daemon' \in {"boot_ready", "idle"}
    BY <1>4 DEF Merge
  <2> HIDE DEF local
  <2>3. IsTree(policy_root)
    BY <2>2 DEF TypeOK
  <2>4. IsTree(policy_root')
    BY <2>1, <2>2, <2>3, MergeNothing, MergeKeepsTrees
  <2>5. policy_root' # NULL
    BY <2>4, TreeIsNotNull
  <2>6. merged' \in Seq({merged'[i] : i \in DOMAIN merged'}) /\ \A i \in DOMAIN merged' : IsTree(merged'[i])
    <3>1. CASE local = NULL
      BY <2>2, <3>1 DEF TypeOK
    <3>2. CASE local # NULL
      <4>1. merged' = Append(merged, local) /\ IsTree(local)
        BY <2>1, <2>2, <3>2
      <4>2. /\ merged' \in Seq({merged'[i] : i \in DOMAIN merged'})
            /\ DOMAIN merged = 1..Len(merged) /\ DOMAIN merged' = 1..(Len(merged) + 1) /\ Len(merged) \in Nat
            /\ \A i \in 1..Len(merged) : merged'[i] = merged[i]
            /\ merged'[Len(merged) + 1] = local
        BY <4>1, MergedAppended DEF TypeOK
      <4>3. \A i \in 1..(Len(merged) + 1) : i \in 1..Len(merged) \/ i = Len(merged) + 1
        BY <4>2
      <4>4. QED BY <4>1, <4>2, <4>3 DEF TypeOK
    <3>3. QED BY <3>1, <3>2
  <2>7. QED BY <1>0, <2>2, <2>4, <2>5, <2>6 DEF TypeOK, Booting
<1>5. ASSUME NEW h \in Handlers, SignalDaemon(h) PROVE TypeOK'
  <2>1. reload' \in BOOLEAN
    <3>1. reload' = reload \/ reload' = (reload \/ daemon \in {"idle", "merge"})
      BY <1>5, Zenon DEF SignalDaemon, Usr1
    <3>2. reload \in BOOLEAN
      BY DEF TypeOK
    <3>3. QED BY <3>1, <3>2, Zenon
  <2>2. /\ policy_root' = policy_root /\ pidFile' = pidFile /\ boots' = boots /\ loaded' = loaded /\ merged' = merged
        /\ daemon' \in {daemon, "down"}
    BY <1>5 DEF SignalDaemon, Usr1
  <2>3. QED BY <1>1, <2>1, <2>2
<1>6. CASE Listen \/ Die \/ UNCHANGED daemonVars
  <2>1. /\ policy_root' = policy_root /\ pidFile' = pidFile /\ boots' = boots /\ loaded' = loaded /\ merged' = merged
        /\ reload' = reload
        /\ daemon' \in {daemon, "down"} \/ (daemon = "boot_ready" /\ daemon' = "idle")
    BY <1>6 DEF Listen, Die, daemonVars
  <2>2. reload' \in BOOLEAN
    BY <2>1 DEF TypeOK
  <2>3. QED BY <1>1, <2>1, <2>2
<1>7. QED
  BY <1>2, <1>3, <1>4, <1>5, <1>6 DEF ReloadNext, vars

\* PROPERTY TypeOK: what the daemon has in force, loaded and merged are trees,
\* three levels down, whatever was PUT, and there is one where it merges.
THEOREM PolicyTypeCorrect == ReloadSpec => []TypeOK
<1>1. ReloadSpec => []FilesInv
  BY ReloadImplementsFiles, FilesInvariance, PTL
<1>2. QED BY <1>1, TypeInit, TypeStep, PTL DEF ReloadSpec

-----------------------------------------------------------------------------
LEMMA SameEitherWay ==
  ASSUME NEW s, NEW t, SameButCase(s, t)
  PROVE  SameButCase(t, s) /\ s # NoName /\ t # NoName
  BY DEF SameButCase

LEMMA NullHasNothing ==
  ASSUME NEW key
  PROVE  Get(NULL, key) = NULL
<1>1. Len(NULL.child) = 0
  <2>1. Len(<<>>) = 0
    OBVIOUS
  <2>2. QED BY <2>1, NullFields
<1>2. QED BY <1>1, GetSome

\* Merging members into an item keeps its type and its name.
LEMMA MergedMembers ==
  ASSUME NEW old, NEW item, IsList(old), IsList(item)
  PROVE  LET new == MergeMembers(old, item.child) IN
         IsList(new) /\ new.type = old.type /\ new.string = old.string
<1>1. Len(item.child) \in Nat /\ \A n \in 1..Len(item.child) : IsItem(item.child[n])
  BY ItemFields DEF IsList
<1>2. Len(item.child) \in 0..Len(item.child)
  BY <1>1
<1> DEFINE g == MembersSteps(old, item.child)[Len(item.child)]
<1>3. IsList(g) /\ g.type = old.type /\ g.string = old.string
  BY <1>1, <1>2, MergeMembersShape
<1>4. MergeMembers(old, item.child) = g
  BY <1>1, MembersLoop
<1>5. QED BY <1>3, <1>4

\* A member of the tree that is a string stays one under its name, unless an
\* item of another type or another spelling takes its place.
LEMMA DefaultItem ==
  ASSUME NEW root, NEW item, IsTree(root), IsList(item), NEW key, <<key>> # NoName,
         IsString(Get(root, key)), ~Displaces(item, <<key>>)
  PROVE  IsString(Get(MergeItem(root, item), key))
<1> DEFINE new == MergeItem(root, item)
           k == IndexOf(root, item.string)
           L == Len(root.child)
           old == root.child[k]
<1>1. /\ IsItem(root) /\ L \in Nat /\ \A j \in 1..L : IsList(root.child[j])
  BY ItemFields DEF IsTree
<1>2. PICK i \in 1..L : FirstAt(root, key, i) /\ Get(root, key) = root.child[i]
  <2>1. Get(root, key) # NULL
    BY NullFields DEF IsString
  <2>2. QED BY <1>1, <2>1, GetSome
<1>3. /\ i \in 1..L /\ root.child[i].string = <<key>> /\ root.child[i].type = "String"
      /\ \A j \in 1..(i - 1) : root.child[j].string \notin {NoName, <<key>>}
  BY <1>2 DEF FirstAt, IsString
<1>4. k \in 0..L /\ (k # 0 => SameButCase(old.string, item.string))
  BY <1>1, IndexOfFinds
<1>5. /\ IsTree(new)
      /\ \A j \in 1..L : j # k => new.child[j] = root.child[j]
      /\ k # 0 => /\ Len(new.child) = L
                  /\ new.child[k] = IF IsObject(item) THEN MergeMembers(old, item.child) ELSE item
      /\ k = 0 /\ item.string = NoName => new = root
      /\ k = 0 /\ item.string # NoName => Len(new.child) = L + 1
  BY MergeItemShape
<1>6. Len(new.child) \in Nat /\ Len(new.child) >= L
  BY <1>1, <1>4, <1>5
<1> SUFFICES IsString(Get(new, key))
  OBVIOUS
<1> HIDE DEF new, k, L
<1>7. \A j \in 1..(i - 1) : j \in 1..L
  BY <1>1, <1>3
<1>8. ASSUME NEW m \in 1..L, new.child[m].string = <<key>>, new.child[m].type = "String",
             \A j \in 1..(m - 1) : new.child[j].string \notin {NoName, <<key>>}
      PROVE  IsString(Get(new, key))
  <2>1. m \in 1..Len(new.child) /\ m \in Nat
    BY <1>1, <1>6
  <2>2. FirstAt(new, key, m)
    BY <1>8, <2>1 DEF FirstAt
  <2>3. QED BY <1>6, <1>8, <2>1, <2>2, GetAt DEF IsString
<1>9. CASE k = 0
  <2>1. \A j \in 1..L : new.child[j] = root.child[j]
    BY <1>1, <1>5, <1>9
  <2>2. QED BY <1>1, <1>3, <1>7, <1>8, <2>1
<1>10. CASE k # 0
  <2>1. k \in 1..L /\ IsList(old)
    BY <1>1, <1>4, <1>10
  <2> DEFINE x == new.child[k]
  <2>2. IsObject(item) => x.type = old.type /\ x.string = old.string
    <3> SUFFICES ASSUME IsObject(item) PROVE x.type = old.type /\ x.string = old.string
      OBVIOUS
    <3>1. x = MergeMembers(old, item.child)
      BY <1>5, <1>10
    <3> HIDE DEF x, old
    <3>2. QED BY <2>1, <3>1, MergedMembers
  <2>3. ~IsObject(item) => x = item
    BY <1>5, <1>10
  <2>4. item.string # NoName /\ SameButCase(item.string, old.string)
    BY <1>4, <1>10, SameEitherWay
  <2> HIDE DEF x, old
  <2>5. \A j \in 1..L : j # k => new.child[j] = root.child[j]
    BY <1>5
  <2>6. CASE k = i
    <3>1. old.string = <<key>> /\ old.type = "String"
      BY <1>3, <2>6 DEF old
    <3>2. x.string = <<key>> /\ x.type = "String"
      BY <2>2, <2>3, <2>4, <3>1 DEF Displaces, IsString
    <3>3. \A j \in 1..(i - 1) : j # k /\ j \in 1..L
      BY <1>1, <2>6
    <3>4. QED BY <1>1, <1>3, <1>8, <2>5, <2>6, <3>2, <3>3 DEF x
  <2>7. CASE k < i
    <3>1. old.string \notin {NoName, <<key>>}
      <4>1. k \in 1..(i - 1)
        BY <2>1, <2>7
      <4>2. QED BY <1>3, <4>1 DEF old
    <3>2. CASE x.string = <<key>>
      <4>1. ~IsObject(item) /\ item.string = <<key>>
        BY <2>2, <2>3, <3>1, <3>2
      <4>2. SameButCase(item.string, <<key>>)
        <5>1. Len(<<key>>) = Len(<<key>>) /\ \A j \in 1..Len(<<key>>) : ToLower(<<key>>[j]) = ToLower(<<key>>[j])
          OBVIOUS
        <5>2. QED BY <4>1, <5>1 DEF SameButCase
      <4>3. IsString(x)
        BY <2>3, <4>1, <4>2 DEF Displaces
      <4>4. \A j \in 1..(k - 1) : j # k /\ j \in 1..L /\ j \in 1..(i - 1)
        BY <1>1, <2>1, <2>7
      <4>5. \A j \in 1..(k - 1) : new.child[j].string \notin {NoName, <<key>>}
        BY <1>3, <2>5, <4>4
      <4>6. QED BY <1>8, <2>1, <3>2, <4>3, <4>5 DEF x, IsString
    <3>3. CASE x.string # <<key>>
      <4>1. x.string # NoName
        BY <2>2, <2>3, <2>4, <3>1
      <4>2. i # k
        BY <2>1, <2>7
      <4>3. \A j \in 1..(i - 1) : new.child[j].string \notin {NoName, <<key>>}
        BY <1>3, <1>7, <2>5, <3>3, <4>1 DEF x
      <4>4. QED BY <1>3, <1>8, <2>5, <4>2, <4>3
    <3>4. QED BY <3>2, <3>3
  <2>8. CASE k > i
    <3>1. i # k /\ \A j \in 1..(i - 1) : j # k /\ j \in 1..L
      BY <1>1, <1>3, <2>1, <2>8
    <3>2. QED BY <1>3, <1>8, <2>5, <3>1
  <2>9. QED BY <1>1, <2>1, <2>6, <2>7, <2>8
<1>11. QED BY <1>9, <1>10

LEMMA DefaultMerged ==
  ASSUME NEW root, NEW local, IsTree(root), IsTree(local), NEW key, <<key>> # NoName,
         IsString(Get(root, key)),
         \A j \in DOMAIN local.child : ~Displaces(local.child[j], <<key>>)
  PROVE  IsString(Get(MergeLocal(root, local), key))
<1> DEFINE g == ItemsSteps(root, local)
           L == Len(local.child)
           S == {m \in 0..L : IsString(Get(g[m], key))}
<1>1. L \in Nat /\ DOMAIN local.child = 1..L /\ \A m \in 1..L : IsList(local.child[m])
  BY ItemFields DEF IsTree
<1>2. /\ g[0] = root /\ \A m \in 1..L : g[m] = MergeItem(g[m - 1], local.child[m])
      /\ MergeLocal(root, local) = g[L]
  BY <1>1, ItemsLoop
<1>3. 0 \in S
  BY <1>1, <1>2
<1>4. ASSUME NEW m \in 1..L, m - 1 \in S PROVE m \in S
  <2>1. m - 1 \in 0..L
    BY <1>1
  <2>2. IsTree(g[m - 1])
    BY <2>1, MergeShape
  <2>3. IsList(local.child[m]) /\ g[m] = MergeItem(g[m - 1], local.child[m])
        /\ IsString(Get(g[m - 1], key)) /\ ~Displaces(local.child[m], <<key>>)
    BY <1>1, <1>2, <1>4
  <2> HIDE DEF g
  <2>4. IsString(Get(g[m], key))
    BY <2>2, <2>3, DefaultItem
  <2>5. QED BY <2>4
<1>5. L \in S
  <2> HIDE DEF S, L
  <2>1. L \in 0..L
    BY <1>1
  <2>2. QED BY <1>1, <1>3, <1>4, <2>1, UpTo
<1>6. QED BY <1>2, <1>5

LEMMA DefaultStep == FilesInv /\ TypeOK /\ DefaultInv /\ [ReloadNext]_vars => DefaultInv'
<1> DEFINE key == "default_action"
<1> SUFFICES ASSUME FilesInv, TypeOK, DefaultInv, [ReloadNext]_vars, IsString(Get(loaded', key))
             PROVE  \/ IsString(Get(policy_root', key))
                    \/ \E i \in DOMAIN merged' : \E j \in DOMAIN merged'[i].child :
                         Displaces(merged'[i].child[j], <<key>>)
  BY DEF DefaultInv
<1>0. <<key>> # NoName /\ Local \in Files
  BY DEF NoName, Files
<1> HIDE DEF key
<1>1. CASE policy_root' = policy_root /\ loaded' = loaded /\ merged' = merged
  BY <1>1 DEF DefaultInv, key
<1>2. CASE Boot
  <2>1. loaded' = NULL
    BY <1>2 DEF Boot
  <2>2. QED BY <2>1, NullHasNothing, NullFields DEF IsString
<1>3. CASE Load
  BY <1>1, <1>3 DEF Load, NewRoot
<1>4. CASE Merge
  <2> DEFINE local == Parse(Read(Local))
  <2>1. /\ policy_root' = MergeLocal(policy_root, local) /\ loaded' = loaded
        /\ merged' = IF local = NULL THEN merged ELSE Append(merged, local)
        /\ daemon \in {"boot_merge", "merge"}
    BY <1>4 DEF Merge
  <2>2. local = NULL \/ IsTree(local)
    BY <1>0, ReadGivesTree
  <2>3. IsTree(policy_root)
    BY <2>1 DEF TypeOK
  <2> HIDE DEF local
  <2>4. CASE local = NULL
    BY <1>1, <2>1, <2>4, MergeNothing
  <2>5. CASE local # NULL
    <3>1. IsTree(local) /\ merged' = Append(merged, local)
      BY <2>1, <2>2, <2>5
    <3>2. /\ DOMAIN merged = 1..Len(merged) /\ DOMAIN merged' = 1..(Len(merged) + 1) /\ Len(merged) \in Nat
          /\ \A i \in 1..Len(merged) : merged'[i] = merged[i]
          /\ merged'[Len(merged) + 1] = local
      BY <3>1, MergedAppended DEF TypeOK
    <3>3. Len(merged) + 1 \in DOMAIN merged' /\ \A i \in DOMAIN merged : i \in DOMAIN merged'
      BY <3>2
    <3>4. CASE IsString(Get(policy_root, key))
      <4>1. CASE \A j \in DOMAIN local.child : ~Displaces(local.child[j], <<key>>)
        BY <1>0, <2>1, <2>3, <3>1, <3>4, <4>1, DefaultMerged
      <4>2. CASE \E j \in DOMAIN local.child : Displaces(local.child[j], <<key>>)
        BY <3>2, <3>3, <4>2
      <4>3. QED BY <4>1, <4>2
    <3>5. CASE ~IsString(Get(policy_root, key))
      <4>1. PICK i \in DOMAIN merged : \E j \in DOMAIN merged[i].child : Displaces(merged[i].child[j], <<key>>)
        BY <2>1, <3>5 DEF DefaultInv, key
      <4>2. merged'[i] = merged[i] /\ i \in DOMAIN merged'
        BY <3>2, <3>3
      <4>3. QED BY <4>1, <4>2
    <3>6. QED BY <3>4, <3>5
  <2>6. QED BY <2>4, <2>5
<1>5. QED
  BY <1>1, <1>2, <1>3, <1>4 DEF ReloadNext, Listen, Die, SignalDaemon, Usr1, vars, daemonVars

\* PROPERTY DefaultStays: the default action of the base file stays, or another
\* takes its place, but under a local file that spells its name in capitals or
\* gives it a value that is no string.
THEOREM DefaultKept == ReloadSpec => []DefaultStays
<1>1. ReloadSpec => []FilesInv
  BY ReloadImplementsFiles, FilesInvariance, PTL
<1>2. ReloadInit => DefaultInv
  BY NullHasNothing, NullFields DEF ReloadInit, DefaultInv, IsString
<1>3. DefaultInv => DefaultStays
  BY DEF DefaultInv, DefaultStays
<1>4. QED BY <1>1, <1>2, <1>3, PolicyTypeCorrect, DefaultStep, PTL DEF ReloadSpec

-----------------------------------------------------------------------------
(***************************************************************************)
(* The rules.  In documents of the form of the shipped ones every name is  *)
(* spelled its own way, so that what the merge finds without regard to     *)
(* case is what Get finds, and the lists of a section only grow.           *)
(***************************************************************************)

LEMMA NamesNamed ==
  /\ \A l \in Lists : <<l>> # NoName
  /\ \A s \in Sections : <<s>> # NoName
  BY DEF Lists, Sections, NoName

LEMMA SameAsItself ==
  ASSUME NEW key, <<key>> # NoName
  PROVE  SameButCase(<<key>>, <<key>>)
<1>1. Len(<<key>>) = Len(<<key>>) /\ \A j \in 1..Len(<<key>>) : ToLower(<<key>>[j]) = ToLower(<<key>>[j])
  OBVIOUS
<1>2. QED BY <1>1 DEF SameButCase

\* The lookup of a name is the same where no child differs that has it.
LEMMA GetUnaffected ==
  ASSUME NEW object, NEW new, Len(object.child) \in Nat, Len(new.child) \in Nat,
         NEW key, <<key>> # NoName, Len(new.child) >= Len(object.child),
         \A j \in 1..Len(object.child) :
           \/ new.child[j] = object.child[j]
           \/ {new.child[j].string, object.child[j].string} \cap {NoName, <<key>>} = {},
         \A j \in 1..Len(new.child) :
           j \in 1..Len(object.child) \/ new.child[j].string \notin {NoName, <<key>>}
  PROVE  Get(new, key) = Get(object, key)
<1> DEFINE L == Len(object.child)
           N == Len(new.child)
<1>1. L \in Nat /\ N \in Nat /\ \A j \in 1..L : j \in 1..N
  OBVIOUS
<1>2. ASSUME NEW i \in 1..L, FirstAt(object, key, i) PROVE FirstAt(new, key, i) /\ new.child[i] = object.child[i]
  <2>1. object.child[i].string = <<key>> /\ \A j \in 1..(i - 1) : object.child[j].string \notin {NoName, <<key>>}
    BY <1>2 DEF FirstAt
  <2>2. new.child[i] = object.child[i]
    BY <2>1
  <2>3. \A j \in 1..(i - 1) : j \in 1..L
    BY <1>1
  <2>4. \A j \in 1..(i - 1) : new.child[j].string \notin {NoName, <<key>>}
    BY <2>1, <2>3
  <2>5. i \in 1..N
    BY <1>1
  <2>6. QED BY <2>1, <2>2, <2>4, <2>5 DEF FirstAt
<1>3. ASSUME NEW i \in 1..N, FirstAt(new, key, i)
      PROVE  i \in 1..L /\ FirstAt(object, key, i) /\ new.child[i] = object.child[i]
  <2>1. new.child[i].string = <<key>> /\ \A j \in 1..(i - 1) : new.child[j].string \notin {NoName, <<key>>}
    BY <1>3 DEF FirstAt
  <2>2. i \in 1..L
    BY <2>1
  <2>3. new.child[i] = object.child[i]
    BY <2>1, <2>2
  <2>4. \A j \in 1..(i - 1) : j \in 1..L
    BY <1>1, <2>2
  <2>5. \A j \in 1..(i - 1) : object.child[j].string \notin {NoName, <<key>>}
    BY <2>1, <2>4
  <2>6. QED BY <2>1, <2>2, <2>3, <2>5 DEF FirstAt
<1>4. CASE Get(object, key) # NULL
  <2>1. PICK i \in 1..L : FirstAt(object, key, i) /\ Get(object, key) = object.child[i]
    BY <1>4, GetSome
  <2>2. FirstAt(new, key, i) /\ new.child[i] = object.child[i] /\ i \in Nat
    BY <1>2, <2>1
  <2>3. QED BY <2>1, <2>2, GetAt
<1>5. CASE Get(new, key) # NULL
  <2>1. PICK i \in 1..N : FirstAt(new, key, i) /\ Get(new, key) = new.child[i]
    BY <1>5, GetSome
  <2>2. FirstAt(object, key, i) /\ new.child[i] = object.child[i] /\ i \in Nat
    BY <1>3, <2>1
  <2>3. QED BY <2>1, <2>2, GetAt
<1>6. QED BY <1>4, <1>5

\* A child with a name is found under it, if none is without one.
LEMMA NamedIsFound ==
  ASSUME NEW object, IsItem(object), NEW key, <<key>> # NoName,
         \A j \in DOMAIN object.child : object.child[j].string # NoName,
         NEW i \in DOMAIN object.child, object.child[i].string = <<key>>
  PROVE  Get(object, key) # NULL
<1> DEFINE I == {j \in DOMAIN object.child : object.child[j].string = <<key>>}
<1>1. /\ Len(object.child) \in Nat /\ DOMAIN object.child = 1..Len(object.child)
      /\ \A j \in DOMAIN object.child : object.child[j] # NULL
  BY ItemFields
<1>2. PICK m \in I : \A j \in I : m <= j
  <2>1. I \in SUBSET Nat /\ i \in I
    BY <1>1
  <2> HIDE DEF I
  <2>2. QED BY <2>1, Least
<1>3. ASSUME NEW j \in 1..(m - 1) PROVE object.child[j].string \notin {NoName, <<key>>}
  <2>1. j \in DOMAIN object.child /\ ~(m <= j)
    BY <1>1, <1>2
  <2>2. QED BY <1>2, <2>1
<1>4. m \in 1..Len(object.child) /\ m \in Nat /\ object.child[m].string = <<key>>
  BY <1>1, <1>2
<1>5. FirstAt(object, key, m)
  BY <1>3, <1>4 DEF FirstAt
<1>6. QED BY <1>1, <1>4, <1>5, GetAt

LEMMA SectionNames ==
  ASSUME NEW item, IsSection(item)
  PROVE  /\ IsObject(item)
         /\ \A j \in DOMAIN item.child : item.child[j].string # NoName
         /\ \A j \in DOMAIN item.child : \A l \in Lists :
              SameButCase(item.child[j].string, <<l>>) =>
                item.child[j].string = <<l>> /\ IsArray(item.child[j])
  BY DEF IsSection, HasMembers

\* A list Get finds in a section is an array.
LEMMA ListIsArray ==
  ASSUME NEW item, IsItem(item), IsSection(item), NEW l \in Lists, Get(item, l) # NULL
  PROVE  IsArray(Get(item, l)) /\ \E i \in DOMAIN item.child : Get(item, l) = item.child[i]
<1>1. Len(item.child) \in Nat /\ DOMAIN item.child = 1..Len(item.child)
  BY ItemFields
<1>2. PICK i \in 1..Len(item.child) : FirstAt(item, l, i) /\ Get(item, l) = item.child[i]
  BY <1>1, GetSome
<1>3. item.child[i].string = <<l>> /\ SameButCase(<<l>>, <<l>>)
  BY <1>2, NamesNamed, SameAsItself DEF FirstAt
<1>4. IsArray(item.child[i])
  BY <1>1, <1>2, <1>3, SectionNames
<1>5. QED BY <1>1, <1>2, <1>4

\* A member of the form a section wants.
Member(sub) ==
  /\ sub.string # NoName
  /\ \A l \in Lists : SameButCase(sub.string, <<l>>) => sub.string = <<l>> /\ IsArray(sub)

\* A member leaves a section a section, and extends the list it names.
LEMMA MemberStep ==
  ASSUME NEW section, NEW sub, IsList(section), IsSection(section), IsItem(sub), Member(sub)
  PROVE  LET new == MergeMember(section, sub) IN
         /\ IsSection(new)
         /\ \A l \in Lists :
              Get(new, l) = IF sub.string = <<l>> /\ Get(section, l) # NULL
                            THEN Extended(Get(section, l), sub) ELSE Get(section, l)
<1> DEFINE new == MergeMember(section, sub)
           L == Len(section.child)
           k == IndexOf(section, sub.string)
           old == section.child[k]
           x == IF IsArray(old) /\ IsArray(sub) THEN Extended(old, sub) ELSE sub
<1>1. /\ L \in Nat /\ DOMAIN section.child = 1..L /\ IsItem(section)
      /\ \A j \in 1..L : IsItem(section.child[j])
  BY ItemFields DEF IsList
<1>2. /\ IsObject(section)
      /\ \A j \in 1..L : section.child[j].string # NoName
      /\ \A j \in 1..L : \A l \in Lists :
           SameButCase(section.child[j].string, <<l>>) =>
             section.child[j].string = <<l>> /\ IsArray(section.child[j])
  BY <1>1, SectionNames
<1>3. /\ k \in 0..L /\ (k # 0 => SameButCase(old.string, sub.string))
      /\ \A j \in 1..L : SameButCase(section.child[j].string, sub.string) => k # 0 /\ k <= j
  BY <1>1, IndexOfFinds
<1>4. (k = 0 => new = section) /\ (k # 0 => new = [section EXCEPT !.child[k] = x])
  BY MergeMemberCases
<1> SUFFICES /\ IsSection(new)
             /\ \A l \in Lists :
                  Get(new, l) = IF sub.string = <<l>> /\ Get(section, l) # NULL
                                THEN Extended(Get(section, l), sub) ELSE Get(section, l)
  OBVIOUS
<1> HIDE DEF new, k
<1>5. CASE k = 0
  <2>1. new = section
    BY <1>4, <1>5
  <2>2. ASSUME NEW l \in Lists, sub.string = <<l>>, Get(section, l) # NULL PROVE FALSE
    <3>1. PICK i \in 1..L : FirstAt(section, l, i)
      BY <1>1, <2>2, GetSome
    <3>2. section.child[i].string = <<l>> /\ SameButCase(<<l>>, <<l>>)
      BY <3>1, NamesNamed, SameAsItself DEF FirstAt
    <3>3. QED BY <1>3, <1>5, <2>2, <3>1, <3>2
  <2>3. QED BY <2>1, <2>2
<1>6. CASE k # 0
  <2>1. k \in 1..L /\ IsItem(old) /\ SameButCase(old.string, sub.string)
    BY <1>1, <1>3, <1>6
  <2>2. IsItem(x) /\ x.string \in {old.string, sub.string} /\ (x = sub \/ (x = Extended(old, sub) /\ x.type = old.type /\ x.string = old.string))
    BY <2>1, ItemExtended
  <2>3. ASSUME NEW l \in Lists, sub.string = <<l>>
        PROVE  old.string = <<l>> /\ x = Extended(old, sub) /\ x.string = <<l>> /\ IsArray(old)
    <3>1. SameButCase(sub.string, <<l>>)
      BY <2>3, NamesNamed, SameAsItself
    <3>2. IsArray(sub)
      BY <3>1 DEF Member
    <3>3. old.string = <<l>> /\ IsArray(old)
      BY <1>2, <2>1, <2>3
    <3>4. x = Extended(old, sub)
      BY <3>2, <3>3
    <3>5. x.string = <<l>>
      BY <2>2, <2>3, <3>3
    <3>6. QED BY <3>3, <3>4, <3>5
  <2>4. ASSUME NEW l \in Lists, sub.string # <<l>> PROVE old.string # <<l>>
    <3>1. ~SameButCase(sub.string, <<l>>)
      BY <2>4 DEF Member
    <3>2. QED BY <2>1, <3>1, SameEitherWay
  <2>5. x.string # NoName /\ \A l \in Lists : SameButCase(x.string, <<l>>) => x.string = <<l>> /\ IsArray(x)
    <3>1. CASE x = sub
      BY <3>1 DEF Member
    <3>2. CASE x = Extended(old, sub) /\ x.type = old.type /\ x.string = old.string
      BY <1>2, <2>1, <3>2 DEF IsArray
    <3>3. QED BY <2>2, <3>1, <3>2
  <2> HIDE DEF x
  <2>6. /\ IsItem(new) /\ new.type = section.type
        /\ Len(new.child) = L /\ new.child[k] = x
        /\ \A j \in 1..L : j # k => new.child[j] = section.child[j]
    <3>1. new = [section EXCEPT !.child[k] = x]
      BY <1>4, <1>6
    <3>2. QED BY <1>1, <2>1, <2>2, <3>1, ItemWithAt
  <2>7. DOMAIN new.child = 1..L
    BY <2>6, ItemFields
  <2>8. IsSection(new)
    <3>1. IsObject(new)
      BY <1>2, <2>6 DEF IsObject
    <3>2. ASSUME NEW j \in 1..L
          PROVE  /\ new.child[j].string # NoName
                 /\ \A l \in Lists : SameButCase(new.child[j].string, <<l>>) =>
                      new.child[j].string = <<l>> /\ IsArray(new.child[j])
      BY <1>2, <2>5, <2>6
    <3>3. QED BY <2>7, <3>1, <3>2 DEF IsSection, HasMembers
  <2>9. ASSUME NEW l \in Lists, sub.string = <<l>>
        PROVE  Get(section, l) = old /\ Get(new, l) = x
    <3>1. ASSUME NEW j \in 1..(k - 1)
          PROVE  j \in 1..L /\ j # k /\ section.child[j].string \notin {NoName, <<l>>}
      <4>1. j \in 1..L /\ j # k /\ ~(k <= j)
        BY <1>1, <2>1
      <4>2. ~SameButCase(section.child[j].string, sub.string)
        BY <1>3, <4>1
      <4>3. QED BY <1>2, <2>9, <4>1, <4>2, NamesNamed, SameAsItself
    <3>2. \A j \in 1..(k - 1) : new.child[j].string \notin {NoName, <<l>>}
      BY <2>6, <3>1
    <3>3. FirstAt(section, l, k)
      BY <2>1, <2>3, <2>9, <3>1 DEF FirstAt
    <3>4. FirstAt(new, l, k)
      BY <2>1, <2>3, <2>6, <2>9, <3>2 DEF FirstAt
    <3>5. k \in Nat
      BY <2>1
    <3>6. QED BY <1>1, <2>6, <3>3, <3>4, <3>5, NamesNamed, GetAt
  <2>10. ASSUME NEW l \in Lists, sub.string # <<l>>
         PROVE  Get(new, l) = Get(section, l)
    <3>1. {x.string, old.string} \cap {NoName, <<l>>} = {}
      BY <1>2, <2>1, <2>2, <2>4, <2>5, <2>10
    <3>2. ASSUME NEW j \in 1..L
          PROVE  \/ new.child[j] = section.child[j]
                 \/ {new.child[j].string, section.child[j].string} \cap {NoName, <<l>>} = {}
      BY <2>6, <3>1
    <3>3. L >= L /\ <<l>> # NoName
      BY <1>1, NamesNamed
    <3>4. QED BY <1>1, <2>6, <3>2, <3>3, GetUnaffected
  <2>11. \A l \in Lists : sub.string = <<l>> => Get(section, l) # NULL
    BY <2>1, <2>9, ItemFields
  <2>12. \A l \in Lists : sub.string = <<l>> => Get(new, l) = Extended(Get(section, l), sub)
    BY <2>3, <2>9
  <2>13. QED BY <2>8, <2>10, <2>11, <2>12
<1>7. QED BY <1>5, <1>6

LEMMA RangeOf ==
  ASSUME NEW t, IsItem(t)
  PROVE  Range(t.child) = {t.child[j] : j \in 1..Len(t.child)}
  BY ItemFields DEF Range

LEMMA ExtendedRange ==
  ASSUME NEW t, NEW s, IsItem(t), IsItem(s)
  PROVE  Range(t.child) \subseteq Range(Extended(t, s).child) /\ Range(s.child) \subseteq Range(Extended(t, s).child)
<1> DEFINE u == Extended(t, s)
<1>1. IsItem(u)
  BY ItemExtended
<1>2. \A j \in 1..Len(t.child) : \E i \in 1..Len(u.child) : u.child[i] = t.child[j]
  BY ItemExtended
<1>3. \A j \in 1..Len(s.child) : \E i \in 1..Len(u.child) : u.child[i] = s.child[j]
  BY ItemExtended
<1> HIDE DEF u
<1>4. /\ Range(t.child) = {t.child[j] : j \in 1..Len(t.child)}
      /\ Range(s.child) = {s.child[j] : j \in 1..Len(s.child)}
      /\ Range(u.child) = {u.child[j] : j \in 1..Len(u.child)}
  BY <1>1, RangeOf
<1>5. QED BY <1>2, <1>3, <1>4 DEF u

LEMMA NullRange == Range(NULL.child) = {}
<1>1. DOMAIN <<>> = {}
  OBVIOUS
<1>2. QED BY <1>1, NullFields DEF Range

LEMMA GrownItself ==
  ASSUME NEW t, t # NULL
  PROVE  Grown(t, t)
  BY DEF Grown

LEMMA GrownTwice ==
  ASSUME NEW t, NEW u, NEW v, Grown(v, u), Grown(u, t)
  PROVE  Grown(v, t)
  BY DEF Grown

\* The rules of an item are in a section, for the lists the section had.
Adds(new, item, old) ==
  \A l \in Lists : Get(item, l) # NULL /\ Get(old, l) # NULL =>
    Range(Get(item, l).child) \subseteq Range(Get(new, l).child)

LEMMA GrownAdds ==
  ASSUME NEW v, NEW u, NEW item, NEW t, Grown(v, u), Adds(u, item, t)
  PROVE  Adds(v, item, t)
  BY DEF Grown, Adds

\* The member's rules are in the list it names.
Added(new, sub, old) ==
  \A l \in Lists : sub.string = <<l>> /\ Get(old, l) # NULL =>
    Range(sub.child) \subseteq Range(Get(new, l).child)

LEMMA GrownAdded ==
  ASSUME NEW v, NEW u, NEW sub, NEW t, Grown(v, u), Added(u, sub, t)
  PROVE  Added(v, sub, t)
  BY DEF Grown, Added

LEMMA MemberGrows ==
  ASSUME NEW section, NEW sub, IsList(section), IsSection(section), IsItem(sub), Member(sub)
  PROVE  LET new == MergeMember(section, sub) IN
         IsList(new) /\ IsSection(new) /\ Grown(new, section) /\ Added(new, sub, section)
<1> DEFINE new == MergeMember(section, sub)
<1>1. /\ IsSection(new)
      /\ \A l \in Lists :
           Get(new, l) = IF sub.string = <<l>> /\ Get(section, l) # NULL
                         THEN Extended(Get(section, l), sub) ELSE Get(section, l)
  BY MemberStep
<1>2. IsList(new)
  BY MergeMemberShape
<1> HIDE DEF new
<1>3. new # NULL
  BY <1>2, ItemFields DEF IsList
<1>4. ASSUME NEW l \in Lists
      PROVE  /\ Get(new, l) = NULL <=> Get(section, l) = NULL
             /\ Range(Get(section, l).child) \subseteq Range(Get(new, l).child)
             /\ sub.string = <<l>> /\ Get(section, l) # NULL => Range(sub.child) \subseteq Range(Get(new, l).child)
  <2>1. CASE sub.string = <<l>> /\ Get(section, l) # NULL
    <3>1. IsItem(section)
      BY DEF IsList
    <3>2. IsItem(Get(section, l))
      BY <2>1, <3>1, ListIsArray DEF IsList
    <3>3. Get(new, l) = Extended(Get(section, l), sub)
      BY <1>1, <2>1
    <3>4. IsItem(Get(new, l))
      BY <3>2, <3>3, ItemExtended
    <3>5. Get(new, l) # NULL
      BY <3>4, ItemFields
    <3>6. QED BY <2>1, <3>2, <3>3, <3>5, ExtendedRange
  <2>2. CASE ~(sub.string = <<l>> /\ Get(section, l) # NULL)
    BY <1>1, <2>2
  <2>3. QED BY <2>1, <2>2
<1>5. QED BY <1>1, <1>2, <1>3, <1>4 DEF Grown, Added, new

\* The members of a section of a local file, merged into one of the tree.
LEMMA MembersGrow ==
  ASSUME NEW section, NEW item, IsList(section), IsSection(section), IsList(item), IsSection(item)
  PROVE  LET new == MergeMembers(section, item.child) IN
         IsList(new) /\ IsSection(new) /\ Grown(new, section) /\ Adds(new, item, section)
<1> DEFINE subs == item.child
           N == Len(subs)
           g == MembersSteps(section, subs)
           Fine(m) == /\ IsList(g[m]) /\ IsSection(g[m]) /\ Grown(g[m], section)
                      /\ \A j \in 1..m : Added(g[m], subs[j], section)
           S == {m \in 0..N : Fine(m)}
<1>1. N \in Nat /\ DOMAIN subs = 1..N /\ \A j \in 1..N : IsItem(subs[j])
  BY ItemFields DEF IsList
<1>2. \A j \in 1..N : Member(subs[j])
  BY <1>1, SectionNames DEF Member
<1>3. /\ g[0] = section /\ \A m \in 1..N : g[m] = MergeMember(g[m - 1], subs[m])
      /\ MergeMembers(section, subs) = g[N]
  BY <1>1, MembersLoop
<1>4. 0 \in S
  <2>1. section # NULL
    BY ItemFields DEF IsList
  <2>2. 0 \in 0..N /\ 1..0 = {}
    BY <1>1
  <2>3. QED BY <1>3, <2>1, <2>2, GrownItself
<1>5. ASSUME NEW m \in 1..N, m - 1 \in S PROVE m \in S
  <2>1. Fine(m - 1) /\ g[m] = MergeMember(g[m - 1], subs[m]) /\ IsItem(subs[m]) /\ Member(subs[m])
    BY <1>1, <1>2, <1>3, <1>5
  <2> DEFINE u == g[m - 1]
             v == g[m]
  <2>2. /\ IsList(u) /\ IsSection(u) /\ Grown(u, section)
        /\ \A j \in 1..(m - 1) : Added(u, subs[j], section)
        /\ v = MergeMember(u, subs[m])
    BY <2>1
  <2> HIDE DEF u, v
  <2>3. IsList(v) /\ IsSection(v) /\ Grown(v, u) /\ Added(v, subs[m], u)
    BY <2>1, <2>2, MemberGrows
  <2>4. Grown(v, section)
    BY <2>2, <2>3, GrownTwice
  <2>5. Added(v, subs[m], section)
    BY <2>2, <2>3 DEF Grown, Added
  <2>6. \A j \in 1..m : Added(v, subs[j], section)
    <3>1. \A j \in 1..m : j \in 1..(m - 1) \/ j = m
      OBVIOUS
    <3>2. QED BY <2>2, <2>3, <2>5, <3>1, GrownAdded
  <2>7. m \in 0..N
    BY <1>1
  <2>8. QED BY <2>3, <2>4, <2>6, <2>7 DEF v
<1>6. N \in S
  <2> HIDE DEF S, N
  <2>1. N \in 0..N
    BY <1>1
  <2>2. QED BY <1>1, <1>4, <1>5, <2>1, UpTo
<1> DEFINE new == MergeMembers(section, item.child)
<1>7. IsList(new) /\ IsSection(new) /\ Grown(new, section) /\ \A j \in 1..N : Added(new, subs[j], section)
  BY <1>3, <1>6
<1> HIDE DEF new, g
<1>8. ASSUME NEW l \in Lists, Get(item, l) # NULL, Get(section, l) # NULL
      PROVE  Range(Get(item, l).child) \subseteq Range(Get(new, l).child)
  <2>1. PICK j \in 1..N : FirstAt(item, l, j) /\ Get(item, l) = subs[j]
    BY <1>1, <1>8, GetSome
  <2>2. subs[j].string = <<l>> /\ Added(new, subs[j], section)
    BY <1>7, <2>1 DEF FirstAt
  <2>3. QED BY <1>8, <2>1, <2>2 DEF Added
<1>9. QED BY <1>7, <1>8 DEF Adds, new

LEMMA PolicyNames ==
  ASSUME NEW tree, IsPolicy(tree)
  PROVE  /\ IsObject(tree)
         /\ \A j \in DOMAIN tree.child : tree.child[j].string # NoName
         /\ \A j \in DOMAIN tree.child : \A s \in Sections :
              SameButCase(tree.child[j].string, <<s>>) =>
                tree.child[j].string = <<s>> /\ IsSection(tree.child[j])
  BY DEF IsPolicy, HasMembers

\* A section Get finds in a policy is one.
LEMMA SectionIsSection ==
  ASSUME NEW tree, IsTree(tree), IsPolicy(tree), NEW s \in Sections, Get(tree, s) # NULL
  PROVE  IsSection(Get(tree, s)) /\ IsList(Get(tree, s))
<1>1. /\ Len(tree.child) \in Nat /\ DOMAIN tree.child = 1..Len(tree.child)
      /\ \A j \in DOMAIN tree.child : IsList(tree.child[j])
  BY ItemFields DEF IsTree
<1>2. PICK i \in 1..Len(tree.child) : FirstAt(tree, s, i) /\ Get(tree, s) = tree.child[i]
  BY <1>1, GetSome
<1>3. tree.child[i].string = <<s>> /\ SameButCase(<<s>>, <<s>>)
  BY <1>2, NamesNamed, SameAsItself DEF FirstAt
<1>4. IsSection(tree.child[i])
  BY <1>1, <1>2, <1>3, PolicyNames
<1>5. QED BY <1>1, <1>2, <1>4

\* An item of the form a policy wants.
PolicyMember(item) ==
  /\ item.string # NoName
  /\ \A s \in Sections : SameButCase(item.string, <<s>>) => item.string = <<s>> /\ IsSection(item)

\* An item leaves a policy a policy: it is a new section, or extends one.
LEMMA ItemStep ==
  ASSUME NEW root, NEW item, IsTree(root), IsPolicy(root), IsList(item), PolicyMember(item)
  PROVE  LET new == MergeItem(root, item) IN
         /\ IsTree(new) /\ IsPolicy(new)
         /\ \A s \in Sections :
              /\ item.string # <<s>> => Get(new, s) = Get(root, s)
              /\ item.string = <<s>> /\ Get(root, s) = NULL => Get(new, s) = item
              /\ item.string = <<s>> /\ Get(root, s) # NULL =>
                   Grown(Get(new, s), Get(root, s)) /\ Adds(Get(new, s), item, Get(root, s))
<1> DEFINE new == MergeItem(root, item)
           L == Len(root.child)
           k == IndexOf(root, item.string)
           old == root.child[k]
<1>1. /\ L \in Nat /\ DOMAIN root.child = 1..L /\ IsItem(root)
      /\ \A j \in 1..L : IsList(root.child[j])
  BY ItemFields DEF IsTree
<1>2. /\ IsObject(root)
      /\ \A j \in 1..L : root.child[j].string # NoName
      /\ \A j \in 1..L : \A s \in Sections :
           SameButCase(root.child[j].string, <<s>>) =>
             root.child[j].string = <<s>> /\ IsSection(root.child[j])
  BY <1>1, PolicyNames
<1>3. /\ k \in 0..L /\ (k # 0 => SameButCase(old.string, item.string))
      /\ \A j \in 1..L : SameButCase(root.child[j].string, item.string) => k # 0 /\ k <= j
  BY <1>1, IndexOfFinds
<1>4. /\ IsTree(new) /\ new.type = root.type
      /\ \A j \in 1..L : j # k => new.child[j] = root.child[j]
      /\ k # 0 => /\ Len(new.child) = L
                  /\ new.child[k] = IF IsObject(item) THEN MergeMembers(old, item.child) ELSE item
      /\ k = 0 /\ item.string # NoName => Len(new.child) = L + 1 /\ new.child[L + 1] = item
  BY MergeItemShape
<1> SUFFICES /\ IsPolicy(new)
             /\ \A s \in Sections :
                  /\ item.string # <<s>> => Get(new, s) = Get(root, s)
                  /\ item.string = <<s>> /\ Get(root, s) = NULL => Get(new, s) = item
                  /\ item.string = <<s>> /\ Get(root, s) # NULL =>
                       Grown(Get(new, s), Get(root, s)) /\ Adds(Get(new, s), item, Get(root, s))
  BY <1>4
<1> HIDE DEF new, k
<1>5. Len(new.child) \in Nat /\ DOMAIN new.child = 1..Len(new.child) /\ IsObject(new)
  BY <1>2, <1>4, ItemFields DEF IsTree, IsObject
<1>6. ASSUME NEW s \in Sections, item.string # <<s>> PROVE ~SameButCase(item.string, <<s>>)
  BY <1>6 DEF PolicyMember
<1>7. CASE k = 0
  <2>1. /\ Len(new.child) = L + 1 /\ new.child[L + 1] = item
        /\ \A j \in 1..L : new.child[j] = root.child[j]
    <3>1. item.string # NoName /\ \A j \in 1..L : j # k
      BY <1>1, <1>7 DEF PolicyMember
    <3>2. QED BY <1>4, <1>7, <3>1
  <2>2. \A j \in 1..(L + 1) : j \in 1..L \/ j = L + 1
    BY <1>1
  <2>3. IsPolicy(new)
    <3>1. ASSUME NEW j \in 1..(L + 1)
          PROVE  /\ new.child[j].string # NoName
                 /\ \A s \in Sections : SameButCase(new.child[j].string, <<s>>) =>
                      new.child[j].string = <<s>> /\ IsSection(new.child[j])
      BY <1>2, <2>1, <2>2 DEF PolicyMember
    <3>2. QED BY <1>5, <2>1, <3>1 DEF IsPolicy, HasMembers
  <2>4. ASSUME NEW s \in Sections, item.string = <<s>>
        PROVE  Get(root, s) = NULL /\ Get(new, s) = item
    <3>1. \A j \in 1..L : root.child[j].string \notin {NoName, <<s>>}
      BY <1>2, <1>3, <1>7, <2>4, NamesNamed, SameAsItself
    <3>2. Get(root, s) = NULL
      BY <1>1, <3>1, GetSome DEF FirstAt
    <3>3. L + 1 \in 1..(L + 1) /\ L + 1 \in Nat /\ \A j \in 1..((L + 1) - 1) : j \in 1..L
      BY <1>1
    <3>4. \A j \in 1..((L + 1) - 1) : new.child[j].string \notin {NoName, <<s>>}
      BY <2>1, <3>1, <3>3
    <3>5. FirstAt(new, s, L + 1)
      BY <2>1, <2>4, <3>3, <3>4 DEF FirstAt
    <3>6. QED BY <1>5, <2>1, <3>2, <3>3, <3>5, NamesNamed, GetAt
  <2>5. ASSUME NEW s \in Sections, item.string # <<s>> PROVE Get(new, s) = Get(root, s)
    <3>1. \A j \in 1..(L + 1) : j \in 1..L \/ new.child[j].string \notin {NoName, <<s>>}
      BY <2>1, <2>2, <2>5 DEF PolicyMember
    <3>2. Len(new.child) >= L /\ <<s>> # NoName
      BY <1>1, <2>1, NamesNamed
    <3>3. QED BY <1>1, <1>5, <2>1, <3>1, <3>2, GetUnaffected
  <2>6. QED BY <2>3, <2>4, <2>5
<1>8. CASE k # 0
  <2> DEFINE x == new.child[k]
  <2>1. k \in 1..L /\ IsList(old) /\ SameButCase(old.string, item.string)
    BY <1>1, <1>3, <1>8
  <2>2. (IsObject(item) => x = MergeMembers(old, item.child)) /\ (~IsObject(item) => x = item)
    BY <1>4, <1>8
  <2>3. x.string \in {old.string, item.string}
    <3> HIDE DEF x, old
    <3>1. MergeMembers(old, item.child).string = old.string
      BY <2>1, MergedMembers
    <3>2. QED BY <2>2, <3>1
  <2>4. ASSUME NEW s \in Sections, item.string = <<s>>
        PROVE  /\ old.string = <<s>> /\ x.string = <<s>> /\ IsSection(x)
               /\ Grown(x, old) /\ Adds(x, item, old)
    <3>1. SameButCase(item.string, <<s>>)
      BY <2>4, NamesNamed, SameAsItself
    <3>2. IsSection(item)
      BY <3>1 DEF PolicyMember
    <3>3. IsObject(item)
      BY <3>2, SectionNames
    <3>4. old.string = <<s>> /\ IsSection(old)
      BY <1>2, <2>1, <2>4
    <3>5. x = MergeMembers(old, item.child)
      BY <2>2, <3>3
    <3>6. x.string = <<s>>
      BY <2>3, <2>4, <3>4
    <3> HIDE DEF x, old
    <3>7. IsSection(x) /\ Grown(x, old) /\ Adds(x, item, old)
      BY <2>1, <3>2, <3>4, <3>5, MembersGrow
    <3>8. QED BY <3>4, <3>6, <3>7
  <2>5. ASSUME NEW s \in Sections, item.string # <<s>>
        PROVE  old.string # <<s>> /\ x.string # <<s>> /\ ~SameButCase(x.string, <<s>>)
    <3>1. ~SameButCase(item.string, <<s>>)
      BY <1>6, <2>5
    <3>2. old.string # <<s>>
      BY <2>1, <3>1, SameEitherWay
    <3>3. ~SameButCase(old.string, <<s>>)
      BY <1>2, <2>1, <3>2
    <3>4. QED BY <2>3, <2>5, <3>1, <3>2, <3>3
  <2>6. x.string # NoName /\ old.string # NoName
    BY <1>2, <2>1, <2>3 DEF PolicyMember
  <2>7. Len(new.child) = L /\ \A j \in 1..L : j # k => new.child[j] = root.child[j]
    BY <1>4, <1>8
  <2>8. IsPolicy(new)
    <3>1. ASSUME NEW j \in 1..L
          PROVE  /\ new.child[j].string # NoName
                 /\ \A s \in Sections : SameButCase(new.child[j].string, <<s>>) =>
                      new.child[j].string = <<s>> /\ IsSection(new.child[j])
      <4>1. CASE j = k
        BY <2>4, <2>5, <2>6, <4>1
      <4>2. CASE j # k
        BY <1>2, <2>7, <4>2
      <4>3. QED BY <4>1, <4>2
    <3>2. QED BY <1>5, <2>7, <3>1 DEF IsPolicy, HasMembers
  <2>9. ASSUME NEW s \in Sections, item.string = <<s>>
        PROVE  Get(root, s) = old /\ Get(new, s) = x
    <3>1. ASSUME NEW j \in 1..(k - 1)
          PROVE  j \in 1..L /\ j # k /\ root.child[j].string \notin {NoName, <<s>>}
      <4>1. j \in 1..L /\ j # k /\ ~(k <= j)
        BY <1>1, <2>1
      <4>2. ~SameButCase(root.child[j].string, item.string)
        BY <1>3, <4>1
      <4>3. QED BY <1>2, <2>9, <4>1, <4>2, NamesNamed, SameAsItself
    <3>2. \A j \in 1..(k - 1) : new.child[j].string \notin {NoName, <<s>>}
      BY <2>7, <3>1
    <3>3. FirstAt(root, s, k)
      BY <2>1, <2>4, <2>9, <3>1 DEF FirstAt
    <3>4. FirstAt(new, s, k)
      BY <2>1, <2>4, <2>7, <2>9, <3>2 DEF FirstAt
    <3>5. k \in Nat
      BY <2>1
    <3>6. QED BY <1>1, <1>5, <3>3, <3>4, <3>5, NamesNamed, GetAt
  <2>10. ASSUME NEW s \in Sections, item.string # <<s>>
         PROVE  Get(new, s) = Get(root, s)
    <3>1. {x.string, old.string} \cap {NoName, <<s>>} = {}
      BY <2>5, <2>6, <2>10
    <3>2. ASSUME NEW j \in 1..L
          PROVE  \/ new.child[j] = root.child[j]
                 \/ {new.child[j].string, root.child[j].string} \cap {NoName, <<s>>} = {}
      BY <2>7, <3>1
    <3>3. L >= L /\ <<s>> # NoName
      BY <1>1, NamesNamed
    <3>4. QED BY <1>1, <1>5, <2>7, <3>2, <3>3, GetUnaffected
  <2>11. old # NULL
    BY <2>1, ItemFields DEF IsList
  <2>12. QED BY <2>4, <2>8, <2>9, <2>10, <2>11
<1>9. QED BY <1>7, <1>8

\* A local policy of the form of the shipped ones, merged: what was there has
\* grown, and has the rules of the file for the lists it had.
LEMMA LocalGrows ==
  ASSUME NEW root, NEW local, IsTree(root), IsPolicy(root), IsTree(local), IsPolicy(local)
  PROVE  LET new == MergeLocal(root, local) IN
         /\ IsTree(new) /\ IsPolicy(new)
         /\ \A s \in Sections :
              /\ Get(root, s) # NULL =>
                   Grown(Get(new, s), Get(root, s)) /\ Adds(Get(new, s), Get(local, s), Get(root, s))
              /\ Get(root, s) = NULL /\ Get(local, s) = NULL => Get(new, s) = NULL
              /\ Get(root, s) = NULL /\ Get(local, s) # NULL => Grown(Get(new, s), Get(local, s))
<1> DEFINE L == Len(local.child)
           g == ItemsSteps(root, local)
<1>1. /\ L \in Nat /\ DOMAIN local.child = 1..L /\ IsItem(local)
      /\ \A j \in 1..L : IsList(local.child[j])
  BY ItemFields DEF IsTree
<1>2. \A j \in 1..L : PolicyMember(local.child[j])
  BY <1>1, PolicyNames DEF PolicyMember
<1>3. /\ g[0] = root /\ \A m \in 1..L : g[m] = MergeItem(g[m - 1], local.child[m])
      /\ MergeLocal(root, local) = g[L]
  BY <1>1, ItemsLoop
<1>4. \A m \in 0..L : IsTree(g[m])
  BY MergeShape
<1> DEFINE Step(u, item, v) ==
      /\ IsTree(u) /\ IsPolicy(u) /\ IsList(item) /\ PolicyMember(item) /\ v = MergeItem(u, item)
<1> HIDE DEF g, L
<1>5. \A m \in 0..L : IsPolicy(g[m])
  <2> DEFINE S == {m \in 0..L : IsPolicy(g[m])}
  <2>1. 0 \in S
    BY <1>1, <1>3
  <2>2. ASSUME NEW m \in 1..L, m - 1 \in S PROVE m \in S
    <3>1. m \in 0..L /\ m - 1 \in 0..L
      BY <1>1
    <3>2. Step(g[m - 1], local.child[m], g[m])
      BY <1>1, <1>2, <1>3, <1>4, <2>2, <3>1
    <3>3. IsPolicy(g[m])
      BY <3>2, ItemStep
    <3>4. QED BY <3>1, <3>3
  <2> HIDE DEF S
  <2>3. \A m \in 0..L : m \in S
    BY <1>1, <2>1, <2>2, UpTo
  <2>4. QED BY <2>3 DEF S
<1>6. ASSUME NEW m \in 1..L PROVE Step(g[m - 1], local.child[m], g[m]) /\ m - 1 \in 0..L /\ m \in 0..L
  <2>1. m \in 0..L /\ m - 1 \in 0..L
    BY <1>1
  <2>2. QED BY <1>1, <1>2, <1>3, <1>4, <1>5, <2>1
<1>7. ASSUME NEW m \in 1..L, NEW s \in Sections
      PROVE  LET u == Get(g[m - 1], s)
                 v == Get(g[m], s)
             IN
             /\ local.child[m].string # <<s>> => v = u
             /\ local.child[m].string = <<s>> /\ u = NULL => v = local.child[m]
             /\ local.child[m].string = <<s>> /\ u # NULL => Grown(v, u) /\ Adds(v, local.child[m], u)
             /\ u # NULL => Grown(v, u)
  <2>1. Step(g[m - 1], local.child[m], g[m])
    BY <1>6
  <2> DEFINE w == MergeItem(g[m - 1], local.child[m])
             u == Get(g[m - 1], s)
  <2>2. /\ local.child[m].string # <<s>> => Get(w, s) = u
        /\ local.child[m].string = <<s>> /\ u = NULL => Get(w, s) = local.child[m]
        /\ local.child[m].string = <<s>> /\ u # NULL => Grown(Get(w, s), u) /\ Adds(Get(w, s), local.child[m], u)
    BY <2>1, ItemStep
  <2> HIDE DEF w
  <2>3. w = g[m]
    BY <2>1 DEF w
  <2> HIDE DEF u
  <2>4. u # NULL => Grown(Get(w, s), u)
    BY <2>2, GrownItself
  <2>5. QED BY <2>2, <2>3, <2>4 DEF u
<1>8. ASSUME NEW s \in Sections, Get(root, s) # NULL
      PROVE  Grown(Get(g[L], s), Get(root, s)) /\ Adds(Get(g[L], s), Get(local, s), Get(root, s))
  <2> DEFINE old == Get(root, s)
             now(m) == Get(g[m], s)
             Fine(m) == /\ now(m) # NULL /\ Grown(now(m), old)
                        /\ \A j \in 1..m : local.child[j].string = <<s>> => Adds(now(m), local.child[j], old)
             S == {m \in 0..L : Fine(m)}
  <2>1. 0 \in S
    <3>1. now(0) = old /\ 0 \in 0..L /\ 1..0 = {}
      BY <1>1, <1>3
    <3>2. QED BY <1>8, <3>1, GrownItself
  <2>2. ASSUME NEW m \in 1..L, m - 1 \in S PROVE m \in S
    <3> DEFINE u == now(m - 1)
               v == now(m)
    <3>1. /\ u # NULL /\ Grown(u, old)
          /\ \A j \in 1..(m - 1) : local.child[j].string = <<s>> => Adds(u, local.child[j], old)
      BY <2>2
    <3>2. Grown(v, u) /\ (local.child[m].string = <<s>> => Adds(v, local.child[m], u))
      BY <1>7, <3>1
    <3> HIDE DEF u, v, old
    <3>3. v # NULL /\ Grown(v, old)
      BY <3>1, <3>2, GrownTwice DEF Grown
    <3>4. local.child[m].string = <<s>> => Adds(v, local.child[m], old)
      BY <3>1, <3>2 DEF Grown, Adds
    <3>5. \A j \in 1..(m - 1) : local.child[j].string = <<s>> => Adds(v, local.child[j], old)
      BY <3>1, <3>2, GrownAdds
    <3>6. \A j \in 1..m : j \in 1..(m - 1) \/ j = m
      OBVIOUS
    <3>7. \A j \in 1..m : local.child[j].string = <<s>> => Adds(v, local.child[j], old)
      BY <3>4, <3>5, <3>6
    <3>8. m \in 0..L
      BY <1>6
    <3>9. QED BY <3>3, <3>7, <3>8 DEF v, old
  <2>3. L \in S
    <3> HIDE DEF S
    <3>1. L \in 0..L
      BY <1>1
    <3>2. QED BY <1>1, <2>1, <2>2, <3>1, UpTo
  <2>4. Adds(Get(g[L], s), Get(local, s), Get(root, s))
    <3>1. CASE Get(local, s) = NULL
      BY <3>1, NullHasNothing DEF Adds
    <3>2. CASE Get(local, s) # NULL
      <4>1. PICK j \in 1..L : FirstAt(local, s, j) /\ Get(local, s) = local.child[j]
        BY <1>1, <3>2, GetSome DEF L
      <4>2. local.child[j].string = <<s>>
        BY <4>1 DEF FirstAt
      <4>3. QED BY <2>3, <4>1, <4>2
    <3>3. QED BY <3>1, <3>2
  <2>5. QED BY <2>3, <2>4
<1>9. ASSUME NEW s \in Sections, Get(root, s) = NULL, Get(local, s) = NULL
      PROVE  Get(g[L], s) = NULL
  <2> DEFINE S == {m \in 0..L : Get(g[m], s) = NULL}
  <2>1. 0 \in S
    BY <1>1, <1>3, <1>9
  <2>2. ASSUME NEW m \in 1..L, m - 1 \in S PROVE m \in S
    <3>1. local.child[m].string # <<s>>
      <4>1. \A j \in DOMAIN local.child : local.child[j].string # NoName
        BY PolicyNames
      <4>2. QED BY <1>1, <1>9, <4>1, NamesNamed, NamedIsFound
    <3>2. Get(g[m], s) = NULL /\ m \in 0..L
      BY <1>6, <1>7, <2>2, <3>1
    <3>3. QED BY <3>2
  <2>3. L \in S
    <3> HIDE DEF S
    <3>1. L \in 0..L
      BY <1>1
    <3>2. QED BY <1>1, <2>1, <2>2, <3>1, UpTo
  <2>4. QED BY <2>3
<1>10. ASSUME NEW s \in Sections, Get(root, s) = NULL, Get(local, s) # NULL
       PROVE  Grown(Get(g[L], s), Get(local, s))
  <2>1. PICK i \in 1..L : FirstAt(local, s, i) /\ Get(local, s) = local.child[i]
    BY <1>1, <1>10, GetSome DEF L
  <2>2. local.child[i].string = <<s>> /\ \A j \in 1..(i - 1) : local.child[j].string # <<s>>
    BY <2>1 DEF FirstAt
  <2> DEFINE now(m) == Get(g[m], s)
             Fine(m) == IF m < i THEN now(m) = NULL ELSE Grown(now(m), local.child[i])
             S == {m \in 0..L : Fine(m)}
  <2>3. 0 \in S
    <3>1. 0 < i /\ 0 \in 0..L
      BY <1>1, <2>1
    <3>2. QED BY <1>3, <1>10, <3>1
  <2>4. ASSUME NEW m \in 1..L, m - 1 \in S PROVE m \in S
    <3>0. m \in 0..L /\ Fine(m - 1)
      BY <1>6, <2>4
    <3>1. CASE m < i
      <4>1. m - 1 < i /\ m \in 1..(i - 1)
        BY <2>1, <3>1
      <4>2. now(m) = NULL
        BY <1>7, <2>2, <3>0, <4>1
      <4>3. QED BY <3>0, <3>1, <4>2
    <3>2. CASE m = i
      <4>1. m - 1 < i /\ ~(m < i)
        BY <2>1, <3>2
      <4>2. now(m) = local.child[i]
        BY <1>7, <2>2, <3>0, <3>2, <4>1
      <4>3. Grown(now(m), local.child[i])
        BY <1>10, <2>1, <4>2, GrownItself
      <4>4. QED BY <3>0, <4>1, <4>3
    <3>3. CASE m > i
      <4>1. ~(m - 1 < i) /\ ~(m < i)
        BY <2>1, <3>3
      <4>2. Grown(now(m - 1), local.child[i])
        BY <3>0, <4>1
      <4>3. now(m - 1) # NULL
        BY <4>2 DEF Grown
      <4>4. Grown(now(m), now(m - 1))
        BY <1>7, <4>3
      <4> HIDE DEF now
      <4>5. Grown(now(m), local.child[i])
        BY <4>2, <4>4, GrownTwice
      <4>6. QED BY <3>0, <4>1, <4>5
    <3>4. QED BY <1>1, <2>1, <3>1, <3>2, <3>3
  <2>5. L \in S
    <3> HIDE DEF S
    <3>1. L \in 0..L
      BY <1>1
    <3>2. QED BY <1>1, <2>3, <2>4, <3>1, UpTo
  <2>6. ~(L < i)
    BY <1>1, <2>1
  <2>7. QED BY <2>1, <2>5, <2>6
<1>11. IsTree(g[L]) /\ IsPolicy(g[L])
  <2>1. L \in 0..L
    BY <1>1
  <2>2. QED BY <1>4, <1>5, <2>1
<1>12. QED BY <1>3, <1>8, <1>9, <1>10, <1>11

\* What merging has made of the base tree stays what RulesInv says.
LEMMA RulesMerged ==
  ASSUME NEW root, NEW base, NEW trees, NEW local, NEW N \in Nat, DOMAIN trees = 1..N,
         IsTree(root), IsTree(local), IsPolicy(local), RulesKept(root, base, trees),
         NEW more, DOMAIN more = 1..(N + 1), \A i \in 1..N : more[i] = trees[i], more[N + 1] = local
  PROVE  RulesKept(MergeLocal(root, local), base, more)
<1> DEFINE new == MergeLocal(root, local)
<1>0. /\ IsPolicy(root)
      /\ \A s \in Sections :
           /\ Get(base, s) # NULL => Grown(Get(root, s), Get(base, s))
           /\ \A i \in 1..N : \A l \in Lists :
                Get(Get(trees[i], s), l) # NULL =>
                  \/ Range(Get(Get(trees[i], s), l).child) \subseteq Range(Get(Get(root, s), l).child)
                  \/ CameWithout({base} \cup {trees[j] : j \in 1..(i - 1)}, s, l)
           /\ \A l \in Lists :
                Get(root, s) # NULL /\ Get(Get(root, s), l) = NULL =>
                  CameWithout({base} \cup {trees[j] : j \in 1..N}, s, l)
  BY DEF RulesKept
<1>1. /\ IsTree(new) /\ IsPolicy(new)
      /\ \A s \in Sections :
           /\ Get(root, s) # NULL =>
                Grown(Get(new, s), Get(root, s)) /\ Adds(Get(new, s), Get(local, s), Get(root, s))
           /\ Get(root, s) = NULL /\ Get(local, s) = NULL => Get(new, s) = NULL
           /\ Get(root, s) = NULL /\ Get(local, s) # NULL => Grown(Get(new, s), Get(local, s))
  BY <1>0, LocalGrows
<1> HIDE DEF new
<1>2. /\ \A i \in 1..(N + 1) : i \in 1..N \/ i = N + 1
      /\ \A i \in 1..N : \A j \in 1..(i - 1) : j \in 1..N
      /\ (N + 1) - 1 = N /\ N + 1 \in 1..(N + 1) /\ \A i \in 1..N : i \in 1..(N + 1)
  OBVIOUS
<1>3. ASSUME NEW s \in Sections, Get(base, s) # NULL PROVE Grown(Get(new, s), Get(base, s))
  <2>1. Grown(Get(root, s), Get(base, s))
    BY <1>0, <1>3
  <2>2. Get(root, s) # NULL
    BY <2>1 DEF Grown
  <2>3. Grown(Get(new, s), Get(root, s))
    BY <1>1, <2>2
  <2>4. QED BY <2>1, <2>3, GrownTwice
<1>4. ASSUME NEW s \in Sections, NEW i \in 1..N, NEW l \in Lists, Get(Get(more[i], s), l) # NULL
      PROVE  \/ Range(Get(Get(more[i], s), l).child) \subseteq Range(Get(Get(new, s), l).child)
             \/ CameWithout({base} \cup {more[j] : j \in 1..(i - 1)}, s, l)
  <2>1. more[i] = trees[i] /\ {more[j] : j \in 1..(i - 1)} = {trees[j] : j \in 1..(i - 1)}
    BY <1>2
  <2>2. CASE CameWithout({base} \cup {trees[j] : j \in 1..(i - 1)}, s, l)
    BY <2>1, <2>2
  <2>3. CASE Range(Get(Get(trees[i], s), l).child) \subseteq Range(Get(Get(root, s), l).child)
    <3>1. CASE Get(root, s) = NULL
      <4>1. Get(Get(root, s), l) = NULL
        BY <3>1, NullHasNothing
      <4>2. Range(Get(Get(trees[i], s), l).child) = {}
        BY <2>3, <4>1, NullRange
      <4>3. QED BY <2>1, <4>2
    <3>2. CASE Get(root, s) # NULL
      <4>1. Grown(Get(new, s), Get(root, s))
        BY <1>1, <3>2
      <4>2. Range(Get(Get(root, s), l).child) \subseteq Range(Get(Get(new, s), l).child)
        BY <4>1 DEF Grown
      <4>3. QED BY <2>1, <2>3, <4>2
    <3>3. QED BY <3>1, <3>2
  <2>4. QED BY <1>0, <1>4, <2>1, <2>2, <2>3
<1>5. ASSUME NEW s \in Sections, NEW l \in Lists, Get(Get(local, s), l) # NULL
      PROVE  \/ Range(Get(Get(local, s), l).child) \subseteq Range(Get(Get(new, s), l).child)
             \/ CameWithout({base} \cup {trees[j] : j \in 1..N}, s, l)
  <2>1. Get(local, s) # NULL
    BY <1>5, NullHasNothing
  <2>2. CASE Get(root, s) = NULL
    <3>1. Grown(Get(new, s), Get(local, s))
      BY <1>1, <2>1, <2>2
    <3>2. QED BY <3>1 DEF Grown
  <2>3. CASE Get(root, s) # NULL /\ Get(Get(root, s), l) # NULL
    <3>1. Adds(Get(new, s), Get(local, s), Get(root, s))
      BY <1>1, <2>3
    <3>2. QED BY <1>5, <2>3, <3>1 DEF Adds
  <2>4. CASE Get(root, s) # NULL /\ Get(Get(root, s), l) = NULL
    BY <1>0, <2>4
  <2>5. QED BY <2>2, <2>3, <2>4
<1>6. {more[j] : j \in 1..N} = {trees[j] : j \in 1..N}
  OBVIOUS
<1>7. \A s \in Sections : \A i \in 1..(N + 1) : \A l \in Lists :
        Get(Get(more[i], s), l) # NULL =>
          \/ Range(Get(Get(more[i], s), l).child) \subseteq Range(Get(Get(new, s), l).child)
          \/ CameWithout({base} \cup {more[j] : j \in 1..(i - 1)}, s, l)
  <2> SUFFICES ASSUME NEW s \in Sections, NEW i \in 1..(N + 1), NEW l \in Lists,
                      Get(Get(more[i], s), l) # NULL
               PROVE  \/ Range(Get(Get(more[i], s), l).child) \subseteq Range(Get(Get(new, s), l).child)
                      \/ CameWithout({base} \cup {more[j] : j \in 1..(i - 1)}, s, l)
    OBVIOUS
  <2>1. CASE i \in 1..N
    BY <1>4, <2>1
  <2>2. CASE i = N + 1
    <3>1. more[i] = local /\ {more[j] : j \in 1..(i - 1)} = {trees[j] : j \in 1..N}
      BY <1>2, <1>6, <2>2
    <3>2. QED BY <1>5, <3>1
  <2>3. QED BY <1>2, <2>1, <2>2
<1>8. ASSUME NEW s \in Sections, NEW l \in Lists, Get(new, s) # NULL, Get(Get(new, s), l) = NULL
      PROVE  CameWithout({base} \cup {more[j] : j \in 1..(N + 1)}, s, l)
  <2>1. CASE Get(root, s) = NULL
    <3>1. Get(local, s) # NULL
      BY <1>1, <1>8, <2>1
    <3>2. Get(Get(local, s), l) = NULL
      BY <1>1, <1>8, <2>1, <3>1 DEF Grown
    <3>3. local \in {base} \cup {more[j] : j \in 1..(N + 1)}
      BY <1>2
    <3>4. QED BY <3>1, <3>2, <3>3 DEF CameWithout
  <2>2. CASE Get(root, s) # NULL
    <3>1. Get(Get(root, s), l) = NULL
      BY <1>1, <1>8, <2>2 DEF Grown
    <3>2. CameWithout({base} \cup {trees[j] : j \in 1..N}, s, l)
      BY <1>0, <2>2, <3>1
    <3>3. {trees[j] : j \in 1..N} \subseteq {more[j] : j \in 1..(N + 1)}
      BY <1>2
    <3>4. QED BY <3>2, <3>3 DEF CameWithout
  <2>3. QED BY <2>1, <2>2
<1>9. QED BY <1>1, <1>3, <1>7, <1>8 DEF RulesKept, new

LEMMA RulesStep == FilesInv /\ TypeOK /\ RulesInv /\ [ReloadNext]_vars => RulesInv'
<1> SUFFICES ASSUME FilesInv, TypeOK, RulesInv, [ReloadNext]_vars, loaded' # NULL, WellFormed'
             PROVE  RulesInv'
  BY DEF RulesInv
<1>0. Base \in Files /\ Local \in Files
  BY DEF Files
<1>1. CASE policy_root' = policy_root /\ loaded' = loaded /\ merged' = merged
  BY <1>1 DEF RulesInv, WellFormed
<1>2. CASE Boot
  BY <1>2 DEF Boot
<1>3. CASE Load
  <2>1. CASE Parse(Read(Base)) = NULL
    BY <1>1, <1>3, <2>1 DEF Load, NewRoot
  <2>2. CASE Parse(Read(Base)) # NULL
    <3>1. loaded' = Parse(Read(Base)) /\ policy_root' = loaded' /\ merged' = <<>>
      BY <1>3, <2>2 DEF Load, NewRoot
    <3>2. IsPolicy(policy_root')
      BY <3>1 DEF WellFormed
    <3>3. \A i \in DOMAIN merged' : FALSE
      BY <3>1
    <3>4. ASSUME NEW s \in Sections, Get(loaded', s) # NULL
          PROVE  Grown(Get(policy_root', s), Get(loaded', s))
      BY <3>1, <3>4, GrownItself
    <3>5. ASSUME NEW s \in Sections, NEW l \in Lists,
                 Get(policy_root', s) # NULL, Get(Get(policy_root', s), l) = NULL
          PROVE  CameWithout({loaded'} \cup {merged'[j] : j \in DOMAIN merged'}, s, l)
      BY <3>1, <3>5 DEF CameWithout
    <3>6. QED BY <3>2, <3>3, <3>4, <3>5 DEF RulesInv, RulesKept
  <2>3. QED BY <2>1, <2>2
<1>4. CASE Merge
  <2> DEFINE local == Parse(Read(Local))
  <2>1. /\ policy_root' = MergeLocal(policy_root, local) /\ loaded' = loaded
        /\ merged' = IF local = NULL THEN merged ELSE Append(merged, local)
        /\ daemon \in {"boot_merge", "merge"}
    BY <1>4 DEF Merge
  <2>2. local = NULL \/ IsTree(local)
    BY <1>0, ReadGivesTree
  <2>3. IsTree(policy_root)
    BY <2>1 DEF TypeOK
  <2> HIDE DEF local
  <2>4. CASE local = NULL
    BY <1>1, <2>1, <2>4, MergeNothing
  <2>5. CASE local # NULL
    <3> DEFINE N == Len(merged)
    <3>1. IsTree(local) /\ merged' = Append(merged, local)
      BY <2>1, <2>2, <2>5
    <3>2. /\ DOMAIN merged = 1..N /\ DOMAIN merged' = 1..(N + 1) /\ N \in Nat
          /\ \A i \in 1..N : merged'[i] = merged[i]
          /\ merged'[N + 1] = local
      BY <3>1, MergedAppended DEF TypeOK
    <3> HIDE DEF N
    <3>3. N + 1 \in DOMAIN merged' /\ \A i \in DOMAIN merged : i \in DOMAIN merged'
      BY <3>2
    <3>4. IsPolicy(local) /\ WellFormed
      BY <2>1, <3>2, <3>3 DEF WellFormed
    <3>5. RulesKept(policy_root, loaded, merged)
      BY <2>1, <3>4 DEF RulesInv
    <3>6. RulesKept(policy_root', loaded, merged')
      BY <2>1, <2>3, <3>1, <3>2, <3>4, <3>5, RulesMerged
    <3>7. QED BY <2>1, <3>6 DEF RulesInv
  <2>6. QED BY <2>4, <2>5
<1>5. QED
  BY <1>1, <1>2, <1>3, <1>4 DEF ReloadNext, Listen, Die, SignalDaemon, Usr1, vars, daemonVars

\* However many local files were merged, the policy in force has every rule of
\* the base file, and those of the local files where there was a list for them.
THEOREM RulesInvariance == ReloadSpec => []RulesInv
<1>1. ReloadSpec => []FilesInv
  BY ReloadImplementsFiles, FilesInvariance, PTL
<1>2. ReloadInit => RulesInv
  BY DEF ReloadInit, RulesInv
<1>3. QED BY <1>1, <1>2, PolicyTypeCorrect, RulesStep, PTL DEF ReloadSpec

-----------------------------------------------------------------------------
(***************************************************************************)
(* What the rules say.  A section denies if a rule of its deny list        *)
(* matches, whatever its other lists hold.                                 *)
(***************************************************************************)

LEMMA DecideSays ==
  ASSUME NEW hit, NEW fallback
  PROVE  Decide(hit, fallback).result =
           IF hit.deny # NULL THEN "DENY" ELSE IF hit.allow # NULL THEN "ALLOW" ELSE "UNKNOWN"
  BY DEF Decide, Ruled, Answer

LEMMA FirstOwn ==
  ASSUME NEW list, Len(list) \in Nat, \A i \in 1..Len(list) : list[i] # NULL, NEW ev
  PROVE  FirstOf(list, LAMBDA r : MatchOwn(r, ev)) # NULL <=> \E i \in 1..Len(list) : MatchOwn(list[i], ev)
<1> DEFINE I == {i \in 1..Len(list) : MatchOwn(list[i], ev)}
           k == SelectInSeq(list, LAMBDA r : MatchOwn(r, ev))
<1>1. k = IF I # {} THEN Min(I) ELSE 0
  BY DEF SelectInSeq
<1>2. FirstOf(list, LAMBDA r : MatchOwn(r, ev)) = IF k = 0 THEN NULL ELSE list[k]
  BY DEF FirstOf
<1> HIDE DEF k
<1>3. CASE I = {}
  BY <1>1, <1>2, <1>3
<1>4. CASE I # {}
  <2>1. I \in SUBSET Nat
    BY <1>4
  <2>2. k \in I
    BY <1>1, <1>4, <2>1, MinIs
  <2>3. k # 0 /\ list[k] # NULL
    BY <2>2
  <2>4. QED BY <1>2, <1>4, <2>3
<1>5. QED BY <1>3, <1>4

LEMMA FirstGlobal ==
  ASSUME NEW list, Len(list) \in Nat, \A i \in 1..Len(list) : list[i] # NULL, NEW ev
  PROVE  FirstOf(list, LAMBDA r : MatchGlobal(r, ev)) # NULL <=> \E i \in 1..Len(list) : MatchGlobal(list[i], ev)
<1> DEFINE I == {i \in 1..Len(list) : MatchGlobal(list[i], ev)}
           k == SelectInSeq(list, LAMBDA r : MatchGlobal(r, ev))
<1>1. k = IF I # {} THEN Min(I) ELSE 0
  BY DEF SelectInSeq
<1>2. FirstOf(list, LAMBDA r : MatchGlobal(r, ev)) = IF k = 0 THEN NULL ELSE list[k]
  BY DEF FirstOf
<1> HIDE DEF k
<1>3. CASE I = {}
  BY <1>1, <1>2, <1>3
<1>4. CASE I # {}
  <2>1. I \in SUBSET Nat
    BY <1>4
  <2>2. k \in I
    BY <1>1, <1>4, <2>1, MinIs
  <2>3. k # 0 /\ list[k] # NULL
    BY <2>2
  <2>4. QED BY <1>2, <1>4, <2>3
<1>5. QED BY <1>3, <1>4

\* The rules of a list are there, each of them.
LEMMA RulesThere ==
  ASSUME NEW section, section = NULL \/ IsList(section), NEW l
  PROVE  /\ Len(Rules(section, l)) \in Nat
         /\ \A i \in 1..Len(Rules(section, l)) : Rules(section, l)[i] # NULL
         /\ {Rules(section, l)[i] : i \in 1..Len(Rules(section, l))} =
              IF IsArray(Get(section, l)) THEN Range(Get(section, l).child) ELSE {}
<1> DEFINE item == Get(section, l)
<1>1. CASE ~IsArray(item)
  <2>1. Rules(section, l) = <<>> /\ Len(<<>>) = 0
    BY <1>1 DEF Rules
  <2>2. QED BY <1>1, <2>1
<1>2. CASE IsArray(item)
  <2>1. item # NULL
    BY <1>2, NullFields DEF IsArray
  <2>2. IsList(section)
    BY <2>1, NullHasNothing
  <2>3. Len(section.child) \in Nat /\ DOMAIN section.child = 1..Len(section.child)
    BY <2>2, ItemFields DEF IsList
  <2>4. PICK i \in 1..Len(section.child) : item = section.child[i]
    BY <2>1, <2>3, GetSome
  <2>5. IsItem(item)
    BY <2>2, <2>3, <2>4 DEF IsList
  <2>6. Rules(section, l) = item.child
    BY <1>2 DEF Rules
  <2> HIDE DEF item
  <2>7. /\ Len(item.child) \in Nat /\ DOMAIN item.child = 1..Len(item.child)
        /\ \A j \in DOMAIN item.child : item.child[j] # NULL
    BY <2>5, ItemFields
  <2>8. Range(item.child) = {item.child[j] : j \in 1..Len(item.child)}
    BY <2>5, RangeOf
  <2>9. QED BY <1>2, <2>6, <2>7, <2>8 DEF item
<1>3. QED BY <1>1, <1>2

\* A rule of a list that matches an event of its section, or any event.
OwnRule(section, l, ev) ==
  IsArray(Get(section, l)) /\ \E r \in Range(Get(section, l).child) : MatchOwn(r, ev)
GlobalRule(section, l, ev) ==
  IsArray(Get(section, l)) /\ \E r \in Range(Get(section, l).child) : MatchGlobal(r, ev)

LEMMA SectionSays ==
  ASSUME NEW section, section = NULL \/ IsList(section), NEW ev
  PROVE  EvalSection(section, ev).result = "DENY" <=> OwnRule(section, "deny", ev)
<1> DEFINE hit == [list \in {"deny", "allow", "ml"} |->
                     FirstOf(Rules(section, list), LAMBDA r : MatchOwn(r, ev))]
           rules == Rules(section, "deny")
<1>1. EvalSection(section, ev).result = "DENY" <=> hit.deny # NULL
  <2>1. EvalSection(section, ev) =
          Decide(hit, [deny |-> "deny_rule", allow |-> "allow_rule", ml |-> "ml_rule"])
    BY DEF EvalSection
  <2> HIDE DEF hit
  <2>2. QED BY <2>1, DecideSays
<1>2. hit.deny = FirstOf(rules, LAMBDA r : MatchOwn(r, ev))
  OBVIOUS
<1>3. /\ Len(rules) \in Nat /\ \A i \in 1..Len(rules) : rules[i] # NULL
      /\ {rules[i] : i \in 1..Len(rules)} =
           IF IsArray(Get(section, "deny")) THEN Range(Get(section, "deny").child) ELSE {}
  BY RulesThere
<1> HIDE DEF rules, hit
<1>4. hit.deny # NULL <=> \E i \in 1..Len(rules) : MatchOwn(rules[i], ev)
  BY <1>2, <1>3, FirstOwn
<1>5. (\E i \in 1..Len(rules) : MatchOwn(rules[i], ev)) <=> OwnRule(section, "deny", ev)
  BY <1>3 DEF OwnRule
<1>6. QED BY <1>1, <1>4, <1>5

LEMMA GlobalSays ==
  ASSUME NEW section, section = NULL \/ IsList(section), NEW ev
  PROVE  LET says == EvalGlobal(section, ev).result IN
         /\ says \in {"DENY", "ALLOW", "UNKNOWN"}
         /\ says = "DENY" <=> IsObject(section) /\ GlobalRule(section, "deny", ev)
         /\ says = "ALLOW" => GlobalRule(section, "allow", ev)
<1> DEFINE hit == [list \in {"deny", "allow", "ml"} |->
                     IF list = "ml" \/ ~IsObject(section) THEN NULL
                     ELSE FirstOf(Rules(section, list), LAMBDA r : MatchGlobal(r, ev))]
           says == EvalGlobal(section, ev).result
<1>1. says = IF hit.deny # NULL THEN "DENY" ELSE IF hit.allow # NULL THEN "ALLOW" ELSE "UNKNOWN"
  <2>1. EvalGlobal(section, ev) =
          Decide(hit, [deny |-> "global_deny", allow |-> "global_allow", ml |-> ""])
    BY DEF EvalGlobal
  <2> HIDE DEF hit
  <2>2. QED BY <2>1, DecideSays
<1>2. ASSUME NEW l \in {"deny", "allow"}
      PROVE  hit[l] # NULL <=> IsObject(section) /\ GlobalRule(section, l, ev)
  <2> DEFINE rules == Rules(section, l)
  <2>1. hit[l] = IF ~IsObject(section) THEN NULL ELSE FirstOf(rules, LAMBDA r : MatchGlobal(r, ev))
    OBVIOUS
  <2>2. /\ Len(rules) \in Nat /\ \A i \in 1..Len(rules) : rules[i] # NULL
        /\ {rules[i] : i \in 1..Len(rules)} =
             IF IsArray(Get(section, l)) THEN Range(Get(section, l).child) ELSE {}
    BY RulesThere
  <2> HIDE DEF rules, hit
  <2>3. FirstOf(rules, LAMBDA r : MatchGlobal(r, ev)) # NULL <=> \E i \in 1..Len(rules) : MatchGlobal(rules[i], ev)
    BY <2>2, FirstGlobal
  <2>4. (\E i \in 1..Len(rules) : MatchGlobal(rules[i], ev)) <=> GlobalRule(section, l, ev)
    BY <2>2 DEF GlobalRule
  <2>5. QED BY <2>1, <2>3, <2>4
<1> HIDE DEF hit
<1>3. /\ hit.deny # NULL <=> IsObject(section) /\ GlobalRule(section, "deny", ev)
      /\ hit.allow # NULL <=> IsObject(section) /\ GlobalRule(section, "allow", ev)
  BY <1>2
<1>4. QED BY <1>1, <1>3

LEMMA SectionOfEvent ==
  ASSUME NEW ev \in Events
  PROVE  SectionOf(ev) \in Sections /\ "global" \in Sections /\ "deny" \in Lists /\ "allow" \in Lists
<1>1. ev.type \in EventTypes
  BY EventsAssumption
<1>2. QED BY <1>1 DEF EventTypes, SectionOf, Sections, Lists

\* A rule that is in a list of a policy is looked at.
LEMMA RuleCounts ==
  ASSUME NEW tree, IsTree(tree), IsPolicy(tree), NEW s \in Sections, NEW l \in Lists,
         NEW r \in Range(Get(Get(tree, s), l).child)
  PROVE  /\ Get(tree, s) # NULL /\ IsObject(Get(tree, s)) /\ IsList(Get(tree, s))
         /\ IsArray(Get(Get(tree, s), l))
<1>1. Get(Get(tree, s), l) # NULL
  BY NullRange
<1>2. Get(tree, s) # NULL
  BY <1>1, NullHasNothing
<1>3. IsSection(Get(tree, s)) /\ IsList(Get(tree, s))
  BY <1>2, SectionIsSection
<1>4. IsObject(Get(tree, s))
  BY <1>3, SectionNames
<1>5. IsArray(Get(Get(tree, s), l))
  BY <1>1, <1>3, ListIsArray DEF IsList
<1>6. QED BY <1>2, <1>3, <1>4, <1>5

\* What Get gives for a section of a tree.
LEMMA SectionOrNull ==
  ASSUME NEW tree, IsTree(tree), NEW s
  PROVE  Get(tree, s) = NULL \/ IsList(Get(tree, s))
<1>1. /\ Len(tree.child) \in Nat /\ DOMAIN tree.child = 1..Len(tree.child)
      /\ \A i \in DOMAIN tree.child : IsList(tree.child[i])
  BY ItemFields DEF IsTree
<1>2. QED BY <1>1, GetSome

\* If the section of an event has a rule that denies it, the event is denied
\* or there is a global rule that allows it.
LEMMA OwnDenies ==
  ASSUME NEW tree, IsTree(tree), IsPolicy(tree), NEW ev \in Events,
         OwnRule(Get(tree, SectionOf(ev)), "deny", ev)
  PROVE  RulesSay(tree, ev) = "DENY" \/ GlobalRule(Get(tree, "global"), "allow", ev)
<1> DEFINE G == EvalGlobal(Get(tree, "global"), ev)
           O == EvalSection(Get(tree, SectionOf(ev)), ev)
<1>1. O.result = "DENY"
  BY SectionOrNull, SectionSays
<1>2. /\ G.result \in {"DENY", "ALLOW", "UNKNOWN"}
      /\ G.result = "ALLOW" => GlobalRule(Get(tree, "global"), "allow", ev)
  BY SectionOrNull, GlobalSays
<1>3. RulesSay(tree, ev) = OrElse(G, O).result
  BY DEF RulesSay
<1> HIDE DEF G, O
<1>4. QED BY <1>1, <1>2, <1>3 DEF OrElse

LEMMA GloballyDenies ==
  ASSUME NEW tree, IsTree(tree), NEW ev,
         IsObject(Get(tree, "global")), GlobalRule(Get(tree, "global"), "deny", ev)
  PROVE  RulesSay(tree, ev) = "DENY"
<1> DEFINE G == EvalGlobal(Get(tree, "global"), ev)
           O == EvalSection(Get(tree, SectionOf(ev)), ev)
<1>1. G.result = "DENY"
  BY SectionOrNull, GlobalSays
<1>2. RulesSay(tree, ev) = OrElse(G, O).result
  BY DEF RulesSay
<1> HIDE DEF G, O
<1>3. QED BY <1>1, <1>2 DEF OrElse

\* The rules of a tree deny an event by a global rule or one of its section.
LEMMA WhoDenies ==
  ASSUME NEW tree, IsTree(tree), NEW ev \in Events, RulesSay(tree, ev) = "DENY"
  PROVE  \/ GlobalRule(Get(tree, "global"), "deny", ev)
         \/ OwnRule(Get(tree, SectionOf(ev)), "deny", ev)
<1> DEFINE G == EvalGlobal(Get(tree, "global"), ev)
           O == EvalSection(Get(tree, SectionOf(ev)), ev)
<1>1. O.result = "DENY" => OwnRule(Get(tree, SectionOf(ev)), "deny", ev)
  BY SectionOrNull, SectionSays
<1>2. G.result = "DENY" => GlobalRule(Get(tree, "global"), "deny", ev)
  BY SectionOrNull, GlobalSays
<1>3. OrElse(G, O).result = "DENY"
  BY DEF RulesSay
<1> HIDE DEF G, O
<1>4. QED BY <1>1, <1>2, <1>3 DEF OrElse

\* A global rule that allows the event, in the list as the engine reads it.
LEMMA GlobalAllows ==
  ASSUME NEW tree, NEW ev, GlobalRule(Get(tree, "global"), "allow", ev)
  PROVE  GloballyAllowed(tree, ev)
<1> DEFINE list == Get(Get(tree, "global"), "allow")
<1>1. IsArray(list) /\ \E r \in Range(list.child) : MatchGlobal(r, ev)
  BY DEF GlobalRule
<1>2. IsArray(list) /\ \E i \in DOMAIN list.child : MatchGlobal(list.child[i], ev)
  BY <1>1 DEF Range
<1>3. QED BY <1>2 DEF GloballyAllowed, Hits

\* A list as the engine reads it, and as the set of its rules.
LEMMA HitsOwn ==
  ASSUME NEW list, NEW ev
  PROVE  Hits(list, LAMBDA r : MatchOwn(r, ev)) <=>
           IsArray(list) /\ \E r \in Range(list.child) : MatchOwn(r, ev)
  BY DEF Hits, Range

\* While decisions are made there is a tree, made from a base that is one.
LEMMA InForceTrees ==
  ASSUME TypeOK, RulesInv, Enforcing, WellFormed
  PROVE  /\ loaded # NULL /\ IsTree(loaded) /\ IsPolicy(loaded)
         /\ IsTree(policy_root) /\ RulesKept(policy_root, loaded, merged)
<1>1. IsPolicy(loaded) /\ loaded # NULL
  BY NullFields, PolicyNames DEF WellFormed, IsObject
<1>2. QED BY <1>1 DEF TypeOK, Enforcing, RulesInv

\* PROPERTY DenyIsFinal: a rule of the base file that denies an event is not
\* lifted by any number of local files, but by a global rule that allows it.
THEOREM DenyFinal == ReloadSpec => []DenyIsFinal
<1>1. TypeOK /\ RulesInv => DenyIsFinal
  <2> SUFFICES ASSUME TypeOK, RulesInv, Enforcing, WellFormed,
                      NEW ev \in Events, RulesSay(loaded, ev) = "DENY"
               PROVE  RulesSay(policy_root, ev) = "DENY" \/ GloballyAllowed(policy_root, ev)
    BY DEF DenyIsFinal
  <2>1. /\ IsTree(loaded) /\ IsPolicy(loaded) /\ IsTree(policy_root) /\ IsPolicy(policy_root)
        /\ \A s \in Sections : Get(loaded, s) # NULL => Grown(Get(policy_root, s), Get(loaded, s))
    BY InForceTrees DEF RulesKept
  <2>2. GlobalRule(Get(policy_root, "global"), "allow", ev) => GloballyAllowed(policy_root, ev)
    BY GlobalAllows
  <2>3. ASSUME NEW s \in Sections, NEW r \in Range(Get(Get(loaded, s), "deny").child)
        PROVE  /\ r \in Range(Get(Get(policy_root, s), "deny").child)
               /\ IsObject(Get(policy_root, s)) /\ IsArray(Get(Get(policy_root, s), "deny"))
    <3>1. Get(loaded, s) # NULL /\ "deny" \in Lists
      BY <2>1, <2>3, RuleCounts, SectionOfEvent
    <3>2. Grown(Get(policy_root, s), Get(loaded, s))
      BY <2>1, <3>1
    <3>3. r \in Range(Get(Get(policy_root, s), "deny").child)
      BY <2>3, <3>1, <3>2 DEF Grown
    <3>4. QED BY <2>1, <3>1, <3>3, RuleCounts
  <2>4. CASE GlobalRule(Get(loaded, "global"), "deny", ev)
    <3>1. PICK r \in Range(Get(Get(loaded, "global"), "deny").child) : MatchGlobal(r, ev)
      BY <2>4 DEF GlobalRule
    <3>2. /\ r \in Range(Get(Get(policy_root, "global"), "deny").child)
          /\ IsObject(Get(policy_root, "global")) /\ IsArray(Get(Get(policy_root, "global"), "deny"))
      BY <2>3, <3>1, SectionOfEvent
    <3>3. GlobalRule(Get(policy_root, "global"), "deny", ev)
      BY <3>1, <3>2 DEF GlobalRule
    <3>4. QED BY <2>1, <3>2, <3>3, GloballyDenies
  <2>5. CASE OwnRule(Get(loaded, SectionOf(ev)), "deny", ev)
    <3>1. PICK r \in Range(Get(Get(loaded, SectionOf(ev)), "deny").child) : MatchOwn(r, ev)
      BY <2>5 DEF OwnRule
    <3>2. /\ r \in Range(Get(Get(policy_root, SectionOf(ev)), "deny").child)
          /\ IsArray(Get(Get(policy_root, SectionOf(ev)), "deny"))
      BY <2>3, <3>1, SectionOfEvent
    <3>3. OwnRule(Get(policy_root, SectionOf(ev)), "deny", ev)
      BY <3>1, <3>2 DEF OwnRule
    <3>4. QED BY <2>1, <2>2, <3>3, OwnDenies
  <2>6. QED BY <2>1, <2>4, <2>5, WhoDenies
<1>2. QED BY <1>1, PolicyTypeCorrect, RulesInvariance, PTL

\* PROPERTY LocalDenyHeard: a rule of a local file that denies an event does
\* so, unless a global rule allows it or the section came without a deny list.
THEOREM LocalDenyIsHeard == ReloadSpec => []LocalDenyHeard
<1>1. TypeOK /\ RulesInv => LocalDenyHeard
  <2> DEFINE own(tree, ev) == Get(tree, SectionOf(ev))
  <2> SUFFICES ASSUME TypeOK, RulesInv, Enforcing, WellFormed,
                      NEW ev \in Events, NEW i \in DOMAIN merged,
                      Hits(Get(own(merged[i], ev), "deny"), LAMBDA r : MatchOwn(r, ev))
               PROVE  \/ RulesSay(policy_root, ev) = "DENY"
                      \/ GloballyAllowed(policy_root, ev)
                      \/ \E tree \in {loaded} \cup {merged[j] : j \in 1..(i - 1)} :
                           own(tree, ev) # NULL /\ Get(own(tree, ev), "deny") = NULL
    BY DEF LocalDenyHeard
  <2> DEFINE list == Get(own(merged[i], ev), "deny")
             now == Get(own(policy_root, ev), "deny")
  <2>1. /\ IsTree(policy_root) /\ IsPolicy(policy_root)
        /\ list # NULL =>
             \/ Range(list.child) \subseteq Range(now.child)
             \/ CameWithout({loaded} \cup {merged[j] : j \in 1..(i - 1)}, SectionOf(ev), "deny")
    BY InForceTrees, SectionOfEvent DEF RulesKept
  <2>2. IsArray(list) /\ \E r \in Range(list.child) : MatchOwn(r, ev)
    BY HitsOwn
  <2>3. list # NULL
    BY <2>2, NullFields DEF IsArray
  <2>4. CASE CameWithout({loaded} \cup {merged[j] : j \in 1..(i - 1)}, SectionOf(ev), "deny")
    BY <2>4 DEF CameWithout
  <2>5. CASE Range(list.child) \subseteq Range(now.child)
    <3>1. PICK r \in Range(now.child) : MatchOwn(r, ev)
      BY <2>2, <2>5
    <3>2. IsArray(now)
      BY <2>1, <3>1, RuleCounts, SectionOfEvent
    <3>3. OwnRule(own(policy_root, ev), "deny", ev)
      BY <3>1, <3>2 DEF OwnRule
    <3>4. GlobalRule(Get(policy_root, "global"), "allow", ev) => GloballyAllowed(policy_root, ev)
      BY GlobalAllows
    <3>5. QED BY <2>1, <3>3, <3>4, OwnDenies
  <2>6. QED BY <2>1, <2>3, <2>4, <2>5
<1>2. QED BY <1>1, PolicyTypeCorrect, RulesInvariance, PTL

=============================================================================
