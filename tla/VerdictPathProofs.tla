------------------------- MODULE VerdictPathProofs -------------------------
(***************************************************************************)
(* Proofs that the safety properties of VerdictPath hold for any set of    *)
(* events and any number of deaths of the daemon.                          *)
(***************************************************************************)
EXTENDS VerdictPath, SequenceTheorems, TLAPS

\* The worker is idle or has an event and its local variables.
LEMMA WorkerShape ==
  ASSUME TypeOK
  PROVE  /\ worker = WorkerIdle <=> worker.pc = "idle"
         /\ worker # WorkerIdle => worker \in WorkerBusy
  BY DEF TypeOK, WorkerIdle, WorkerBusy

\* The kernel module's steps of which the daemon hears nothing.
NotSent(e) == Ignore(e) \/ MulticastToOthers(e) \/ Store(e) \/ Expire(e)

\* Nothing is sent, judged or enforced at the start.
LEMMA InitInv == Init => IInv
<1> SUFFICES ASSUME Init PROVE IInv
  OBVIOUS
<1>1. TypeOK
  <2>1. inbox \in Seq(Events) /\ log \in Seq(Lines) /\ reported \in Seq(Events)
    BY EmptySeq DEF Init
  <2>2. kernel \in [Events -> KernelStates] /\ judged \in [Events -> Policies \cup {"none"}]
    BY DEF Init, KernelStates
  <2>3. /\ daemonUp \in BOOLEAN /\ worker \in {WorkerIdle} \cup WorkerBusy
        /\ crashes \in 0..MaxCrashes
        /\ quiet \subseteq Events /\ unwritten \subseteq Events /\ foreign \subseteq Events
    <3>1. /\ daemonUp = FALSE /\ worker = WorkerIdle /\ crashes = 0
          /\ quiet = {} /\ unwritten = {} /\ foreign = {}
      BY DEF Init
    <3>2. daemonUp \in BOOLEAN
      BY <3>1
    <3>3. /\ worker \in {WorkerIdle} \cup WorkerBusy
          /\ quiet \subseteq Events /\ unwritten \subseteq Events /\ foreign \subseteq Events
      BY <3>1
    <3>4. crashes \in 0..MaxCrashes
      BY <3>1, PathAssumption
    <3>5. QED BY <3>2, <3>3, <3>4
  <2>4. QED BY <2>1, <2>2, <2>3 DEF TypeOK
<1>2. HeldOnce
  <2>1. \A i \in DOMAIN inbox : FALSE
    BY EmptySeq DEF Init
  <2>2. QED BY <2>1 DEF Init, HeldOnce, InInbox, AtWorker
<1>3. WorkerInv /\ DenyIsKept /\ EnforcedIsLogged
  BY DEF Init, WorkerInv, DenyIsKept, EnforcedIsLogged, Enforced
<1>4. QED BY <1>1, <1>2, <1>3 DEF IInv

\* Every step keeps the variables in their types.
LEMMA TypeStep == TypeOK /\ [Next]_vars => TypeOK'
<1> SUFFICES ASSUME TypeOK, [Next]_vars PROVE TypeOK'
  OBVIOUS
<1> USE PathAssumption DEF TypeOK, KernelStates
<1>1. ASSUME NEW e \in Events, NotSent(e) \/ OthersVerdict(e) PROVE TypeOK'
  BY <1>1 DEF NotSent, Ignore, MulticastToOthers, Store, Expire, OthersVerdict, Receive, SetKernel
<1>2. ASSUME NEW e \in Events, Multicast(e) PROVE TypeOK'
  BY <1>2 DEF Multicast, SetKernel
<1>3. ASSUME NEW pol \in Policies, NEW suppress \in BOOLEAN, Take(pol, suppress)
      PROVE  TypeOK'
  <2>1. Head(inbox) \in Events /\ Tail(inbox) \in Seq(Events)
    BY <1>3 DEF Take
  <2>2. worker' \in WorkerBusy
    BY <1>3, <2>1 DEF Take, WorkerBusy, FirstVerdicts
  <2>3. QED BY <1>3, <2>1, <2>2 DEF Take
<1>4. ASSUME NEW answer \in {"high", "low", "empty", "unreachable"}, Infer(answer)
      PROVE  TypeOK'
  <2>1. worker \in WorkerBusy
    BY <1>4, WorkerShape DEF Infer
  <2>2. worker' \in WorkerBusy
    BY <1>4, <2>1 DEF Infer, WorkerBusy, Policies
  <2>3. QED BY <1>4, <2>2 DEF Infer
<1>5. ASSUME NEW signed \in BOOLEAN, Sign(signed) PROVE TypeOK'
  <2>1. worker \in WorkerBusy
    BY <1>5, WorkerShape DEF Sign
  <2>2. worker' \in WorkerBusy
    BY <1>5, <2>1 DEF Sign, WorkerBusy, FirstVerdicts
  <2>3. QED BY <1>5, <2>1, <2>2 DEF Sign, WorkerBusy
<1>6. CASE Write
  <2>1. worker \in WorkerBusy
    BY <1>6, WorkerShape DEF Write
  <2>2. worker' \in WorkerBusy
    BY <1>6, <2>1 DEF Write, WorkerBusy
  <2>3. [ev |-> worker.ev, pol |-> worker.pol] \in Lines
    BY <2>1 DEF WorkerBusy, Lines
  <2>4. Append(log, [ev |-> worker.ev, pol |-> worker.pol]) \in Seq(Lines)
    BY <2>3, AppendProperties
  <2>5. log' \in Seq(Lines)
    BY <1>6, <2>4 DEF Write
  <2>6. unwritten' \subseteq Events
    BY <1>6, <2>1 DEF Write, WorkerBusy
  <2>7. QED BY <1>6, <2>2, <2>5, <2>6 DEF Write
<1>7. ASSUME NEW verifies \in BOOLEAN, Send(verifies) PROVE TypeOK'
  BY <1>7 DEF Send, Receive, SetKernel
<1>8. CASE Crash
  <2>1. inbox' \in Seq(Events)
    BY <1>8, EmptySeq DEF Crash
  <2>2. crashes' \in 0..MaxCrashes
    BY <1>8 DEF Crash
  <2>3. QED BY <1>8, <2>1, <2>2 DEF Crash
<1>9. CASE Start \/ UNCHANGED vars
  BY <1>9 DEF Start, vars
<1>10. QED
  BY <1>1, <1>2, <1>3, <1>4, <1>5, <1>6, <1>7, <1>8, <1>9 DEF Next, NotSent

\* The worker's move from inbox to hand, seen per event.
LEMMA TakeMoves ==
  ASSUME TypeOK, HeldOnce, NEW pol \in Policies, NEW suppress \in BOOLEAN,
         Take(pol, suppress)
  PROVE  /\ \A i, j \in DOMAIN inbox' : inbox'[i] = inbox'[j] => i = j
         /\ InInbox(worker'.ev) /\ worker'.ev = Head(inbox)
         /\ \A e \in Events : InInbox(e)' => InInbox(e) /\ e # worker'.ev
<1>1. inbox \in Seq(Events) /\ inbox # <<>> /\ inbox' = Tail(inbox)
  BY DEF Take, TypeOK
<1>2. /\ Len(inbox') = Len(inbox) - 1
      /\ \A i \in DOMAIN inbox' : i + 1 \in DOMAIN inbox /\ inbox'[i] = inbox[i + 1]
      /\ 1 \in DOMAIN inbox
      /\ DOMAIN inbox \subseteq Nat /\ DOMAIN inbox' \subseteq Nat \ {0}
  BY <1>1
<1>3. worker'.ev = inbox[1] /\ worker'.ev = Head(inbox)
  BY <1>1 DEF Take
<1>4. \A i, j \in DOMAIN inbox' : inbox'[i] = inbox'[j] => i = j
  BY <1>2 DEF HeldOnce
<1>5. \A i \in DOMAIN inbox' : inbox'[i] # inbox[1]
  BY <1>2 DEF HeldOnce
<1>6. QED BY <1>2, <1>3, <1>4, <1>5 DEF InInbox

\* The daemon never holds an event twice, nor one that is enforced already.
LEMMA HeldOnceStep == TypeOK /\ HeldOnce /\ [Next]_vars => HeldOnce'
<1> SUFFICES ASSUME TypeOK, HeldOnce, [Next]_vars PROVE HeldOnce'
  OBVIOUS
<1>1. ASSUME NEW e \in Events, NotSent(e) \/ OthersVerdict(e) PROVE HeldOnce'
  BY <1>1 DEF NotSent, Ignore, MulticastToOthers, Store, Expire, OthersVerdict, Receive,
              SetKernel, TypeOK, HeldOnce, InInbox, AtWorker, Enforced
<1>2. ASSUME NEW e \in Events, Multicast(e) PROVE HeldOnce'
  <2>1. /\ kernel' = [kernel EXCEPT ![e] = "multicast"] /\ kernel[e] = "new"
        /\ inbox' = Append(inbox, e) /\ worker' = worker /\ foreign' = foreign
    BY <1>2 DEF Multicast, SetKernel
  <2>2. ~InInbox(e) /\ ~AtWorker(e)
    BY <2>1 DEF HeldOnce
  <2>3. /\ inbox \in Seq(Events) /\ Len(inbox) \in Nat
        /\ DOMAIN inbox = 1..Len(inbox) /\ DOMAIN inbox' = 1..(Len(inbox) + 1)
        /\ \A i \in DOMAIN inbox : inbox'[i] = inbox[i]
        /\ inbox'[Len(inbox) + 1] = e
    BY <2>1 DEF TypeOK
  <2>4. \A i, j \in DOMAIN inbox' : inbox'[i] = inbox'[j] => i = j
    BY <2>2, <2>3 DEF HeldOnce, InInbox
  <2>5. \A d \in Events : InInbox(d)' => InInbox(d) \/ d = e
    BY <2>3 DEF InInbox
  <2>6. \A d \in Events : AtWorker(d)' <=> AtWorker(d)
    BY <2>1 DEF AtWorker
  <2>7. QED BY <2>1, <2>2, <2>4, <2>5, <2>6 DEF HeldOnce, Enforced, TypeOK
<1>3. ASSUME NEW pol \in Policies, NEW suppress \in BOOLEAN, Take(pol, suppress)
      PROVE  HeldOnce'
  <2>1. /\ \A i, j \in DOMAIN inbox' : inbox'[i] = inbox'[j] => i = j
        /\ InInbox(worker'.ev)
        /\ \A e \in Events : InInbox(e)' => InInbox(e) /\ e # worker'.ev
    BY <1>3, TakeMoves
  <2>2. \A e \in Events : AtWorker(e)' => e = worker'.ev
    BY DEF AtWorker
  <2>3. kernel' = kernel /\ foreign' = foreign
    BY <1>3 DEF Take
  <2>4. QED BY <2>1, <2>2, <2>3 DEF HeldOnce, Enforced
<1>4. ASSUME inbox' = inbox, kernel' = kernel, foreign' = foreign, worker.pc # "idle",
             worker' # WorkerIdle, worker'.ev = worker.ev
      PROVE  HeldOnce'
  BY <1>4, WorkerShape DEF HeldOnce, InInbox, AtWorker, Enforced
<1>5. ASSUME NEW answer \in {"high", "low", "empty", "unreachable"}, Infer(answer)
      PROVE  HeldOnce'
  BY <1>4, <1>5, WorkerShape DEF Infer, WorkerBusy, WorkerIdle
<1>6. ASSUME NEW signed \in BOOLEAN, Sign(signed) PROVE HeldOnce'
  BY <1>4, <1>6, WorkerShape DEF Sign, WorkerBusy, WorkerIdle
<1>7. CASE Write
  BY <1>4, <1>7, WorkerShape DEF Write, WorkerBusy, WorkerIdle
<1>8. ASSUME NEW verifies \in BOOLEAN, Send(verifies) PROVE HeldOnce'
  <2>1. worker # WorkerIdle /\ worker.ev \in Events /\ AtWorker(worker.ev)
    BY <1>8, WorkerShape DEF Send, WorkerBusy, WorkerIdle, AtWorker
  <2>2. /\ inbox' = inbox /\ worker' = WorkerIdle /\ foreign' = foreign
        /\ \A d \in Events : d # worker.ev => kernel'[d] = kernel[d]
    BY <1>8, <2>1 DEF Send, Receive, SetKernel, TypeOK
  <2>3. QED BY <2>1, <2>2 DEF HeldOnce, InInbox, AtWorker, Enforced
<1>9. CASE Crash
  BY <1>9 DEF Crash, HeldOnce, InInbox, AtWorker
<1>10. CASE Start \/ UNCHANGED vars
  BY <1>10 DEF Start, vars, HeldOnce, InInbox, AtWorker, Enforced
<1>11. QED
  BY <1>1, <1>2, <1>3, <1>5, <1>6, <1>7, <1>8, <1>9, <1>10 DEF Next, NotSent

\* What the worker has prepared for its event stays true.
LEMMA WorkerStep == TypeOK /\ WorkerInv /\ [Next]_vars => WorkerInv'
<1> SUFFICES ASSUME TypeOK, WorkerInv, [Next]_vars PROVE WorkerInv'
  OBVIOUS
<1>1. ASSUME NEW e \in Events, NotSent(e) \/ Multicast(e) \/ OthersVerdict(e)
      PROVE  WorkerInv'
  <2>1. UNCHANGED <<worker, log, judged, quiet, unwritten>>
    BY <1>1 DEF NotSent, Ignore, MulticastToOthers, Multicast, Store, Expire, OthersVerdict
  <2>2. QED BY <2>1 DEF WorkerInv, Logged
<1>2. ASSUME NEW pol \in Policies, NEW suppress \in BOOLEAN, Take(pol, suppress)
      PROVE  WorkerInv'
  BY <1>2 DEF Take, WorkerInv
<1>3. ASSUME NEW answer \in {"high", "low", "empty", "unreachable"}, Infer(answer)
      PROVE  WorkerInv'
  BY <1>3, WorkerShape DEF Infer, WorkerInv, WorkerBusy
<1>4. ASSUME NEW signed \in BOOLEAN, Sign(signed) PROVE WorkerInv'
  BY <1>4, WorkerShape DEF Sign, WorkerInv, WorkerBusy, TypeOK
<1>5. CASE Write
  <2>1. worker \in WorkerBusy
    BY <1>5, WorkerShape DEF Write
  <2>2. (\E i \in DOMAIN log' : log'[i].ev = worker.ev) \/ worker.ev \in unwritten'
    <3>1. CASE log' = Append(log, [ev |-> worker.ev, pol |-> worker.pol])
      <4>1. [ev |-> worker.ev, pol |-> worker.pol] \in Lines
        BY <2>1 DEF WorkerBusy, Lines
      <4>2. /\ Len(log) + 1 \in DOMAIN log'
            /\ log'[Len(log) + 1] = [ev |-> worker.ev, pol |-> worker.pol]
        BY <3>1, <4>1, AppendProperties, LenProperties DEF TypeOK
      <4>3. QED BY <4>2
    <3>2. CASE unwritten' = unwritten \cup {worker.ev}
      BY <3>2
    <3>3. QED BY <1>5, <3>1, <3>2 DEF Write
  <2>3. worker'.ev = worker.ev /\ worker'.pol = worker.pol
        /\ worker'.suppress = worker.suppress /\ worker'.pc = "send"
    BY <1>5, <2>1 DEF Write, WorkerBusy
  <2>4. (\E i \in DOMAIN log' : log'[i].ev = worker'.ev) \/ worker'.ev \in unwritten'
    BY <2>2, <2>3
  <2>5. worker # WorkerIdle /\ worker.pc = "write" /\ judged' = judged /\ quiet' = quiet
    BY <1>5, WorkerShape DEF Write
  <2>6. judged'[worker'.ev] = worker'.pol /\ (worker'.suppress => worker'.ev \in quiet')
    BY <2>3, <2>5 DEF WorkerInv
  <2>7. QED BY <2>3, <2>4, <2>6 DEF WorkerInv, Logged
<1>6. ASSUME NEW verifies \in BOOLEAN, Send(verifies) PROVE WorkerInv'
  BY <1>6 DEF Send, WorkerInv
<1>7. CASE Crash
  BY <1>7 DEF Crash, WorkerInv
<1>8. CASE Start \/ UNCHANGED vars
  BY <1>8 DEF Start, vars, WorkerInv, Logged
<1>9. QED
  BY <1>1, <1>2, <1>3, <1>4, <1>5, <1>6, <1>7, <1>8 DEF Next, NotSent

\* What the history says of an event does not go away.
LEMMA HistoryGrows ==
  ASSUME TypeOK, [Next]_vars
  PROVE  /\ quiet \subseteq quiet' /\ unwritten \subseteq unwritten' /\ foreign \subseteq foreign'
         /\ \A e \in Events : Logged(e) => Logged(e)'
<1>1. CASE Write
  <2>1. log \in Seq(Lines) /\ [ev |-> worker.ev, pol |-> worker.pol] \in Lines
    BY <1>1, WorkerShape DEF Write, WorkerBusy, WorkerIdle, Lines, TypeOK
  <2>2. \A i \in DOMAIN log : i \in DOMAIN log' /\ log'[i] = log[i]
    <3>1. CASE log' = Append(log, [ev |-> worker.ev, pol |-> worker.pol])
      BY <2>1, <3>1, AppendProperties, LenProperties
    <3>2. QED BY <1>1, <3>1 DEF Write
  <2>3. QED BY <1>1, <2>2 DEF Write, Logged
<1>2. ASSUME log' = log, quiet \subseteq quiet', unwritten' = unwritten, foreign \subseteq foreign'
      PROVE  /\ quiet \subseteq quiet' /\ unwritten \subseteq unwritten' /\ foreign \subseteq foreign'
             /\ \A e \in Events : Logged(e) => Logged(e)'
  BY <1>2 DEF Logged
<1>3. CASE \E e \in Events : OthersVerdict(e)
  BY <1>3 DEF OthersVerdict, Logged
<1>4. CASE ~Write /\ ~\E e \in Events : OthersVerdict(e)
  <2>1. log' = log /\ quiet \subseteq quiet' /\ unwritten' = unwritten /\ foreign' = foreign
    BY <1>4 DEF Next, vars, Ignore, Multicast, MulticastToOthers, Store, Expire, Take, Infer,
                Sign, Send, Crash, Start
  <2>2. QED BY <1>2, <2>1
<1>5. QED BY <1>1, <1>3, <1>4

\* A verdict is the only step that enforces, the worker's for the event it is
\* at, another's as a DENY of an event that is recorded; and Sign is the only
\* step that judges.
LEMMA EnforcedStep ==
  TypeOK /\ HeldOnce /\ WorkerInv /\ DenyIsKept /\ EnforcedIsLogged /\ [Next]_vars
    => DenyIsKept' /\ EnforcedIsLogged'
<1> SUFFICES ASSUME TypeOK, HeldOnce, WorkerInv, DenyIsKept, EnforcedIsLogged,
                    [Next]_vars
             PROVE  DenyIsKept' /\ EnforcedIsLogged'
  OBVIOUS
<1>1. ASSUME \A e \in Events : Enforced(e)' => kernel'[e] = kernel[e],
             \A e \in Events : Enforced(e)' => judged'[e] = judged[e]
      PROVE  DenyIsKept' /\ EnforcedIsLogged'
  BY <1>1, HistoryGrows DEF DenyIsKept, EnforcedIsLogged, Enforced
<1>2. ASSUME NEW e \in Events, NotSent(e) \/ Multicast(e)
      PROVE  DenyIsKept' /\ EnforcedIsLogged'
  BY <1>1, <1>2 DEF NotSent, Ignore, Multicast, MulticastToOthers, Store, Expire, SetKernel,
                    Enforced, TypeOK
<1>7. ASSUME NEW e \in Events, OthersVerdict(e)
      PROVE  DenyIsKept' /\ EnforcedIsLogged'
  <2>1. /\ kernel'[e] = "denied" /\ e \in foreign'
        /\ \A d \in Events : d # e => kernel'[d] = kernel[d]
        /\ judged' = judged
    BY <1>7 DEF OthersVerdict, Receive, SetKernel, TypeOK
  <2>2. QED BY <2>1, HistoryGrows DEF DenyIsKept, EnforcedIsLogged
<1>3. ASSUME NEW signed \in BOOLEAN, Sign(signed)
      PROVE  DenyIsKept' /\ EnforcedIsLogged'
  <2>1. worker.ev \in Events /\ kernel[worker.ev] # "allowed" /\ kernel' = kernel
    BY <1>3, WorkerShape DEF Sign, WorkerBusy, WorkerIdle, HeldOnce, AtWorker, Enforced
  <2>2. \A e \in Events : e # worker.ev => judged'[e] = judged[e]
    BY <1>3 DEF Sign, TypeOK
  <2>3. DenyIsKept'
    BY <2>1, <2>2, HistoryGrows DEF DenyIsKept
  <2>4. EnforcedIsLogged'
    BY <2>1, HistoryGrows DEF EnforcedIsLogged
  <2>5. QED BY <2>3, <2>4
<1>4. ASSUME NEW verifies \in BOOLEAN, Send(verifies)
      PROVE  DenyIsKept' /\ EnforcedIsLogged'
  <2>1. worker \in WorkerBusy /\ worker # WorkerIdle /\ worker.pc = "send"
    BY <1>4, WorkerShape DEF Send, WorkerIdle
  <2>2. worker.ev \in Events
    BY <2>1 DEF WorkerBusy
  <2>3. /\ \A e \in Events : e # worker.ev => kernel'[e] = kernel[e]
        /\ log' = log /\ judged' = judged /\ quiet' = quiet /\ unwritten' = unwritten
        /\ foreign' = foreign
    BY <1>4, <2>2 DEF Send, Receive, SetKernel, TypeOK
  <2>4. /\ worker.suppress => worker.ev \in quiet
        /\ judged[worker.ev] = worker.pol
        /\ worker.ev \in quiet \cup unwritten \/ Logged(worker.ev)
    BY <2>1 DEF WorkerInv
  <2>5. kernel'[worker.ev] = "allowed" => worker.suppress \/ worker.pol # "DENY"
    <3>1. kernel[worker.ev] # "allowed"
      BY <2>1, <2>2 DEF HeldOnce, AtWorker, Enforced
    <3>2. QED BY <1>4, <2>2, <3>1 DEF Send, Receive, SetKernel, Enforced, TypeOK
  <2>6. DenyIsKept'
    BY <2>3, <2>4, <2>5 DEF DenyIsKept
  <2>7. EnforcedIsLogged'
    BY <2>3, <2>4 DEF EnforcedIsLogged, Logged
  <2>8. QED BY <2>6, <2>7
<1>5. CASE UNCHANGED <<kernel, judged>>
  BY <1>1, <1>5
<1>6. QED
  BY <1>2, <1>3, <1>4, <1>5, <1>7 DEF Next, NotSent, vars, Take, Infer, Write, Crash, Start

-----------------------------------------------------------------------------
(* The order of the lines.                                                  *)

\* Only a multicast adds to what was reported, and at its end.
LEMMA ReportedGrows ==
  ASSUME TypeOK, [Next]_vars
  PROVE  /\ \A e : Reported(e) => Reported(e)'
         /\ \A d, e : Precedes(reported, d, e) => Precedes(reported', d, e)
<1>1. ASSUME NEW e \in Events, Multicast(e)
      PROVE  DOMAIN reported \subseteq DOMAIN reported' /\ \A m \in DOMAIN reported : reported'[m] = reported[m]
  BY <1>1, AppendProperties, LenProperties DEF Multicast, TypeOK
<1>2. CASE reported' = reported
  BY <1>2 DEF Reported, Precedes
<1>3. CASE \E e \in Events : Multicast(e)
  BY <1>1, <1>3 DEF Reported, Precedes
<1>4. QED
  BY <1>2, <1>3 DEF Next, vars, Ignore, MulticastToOthers, Store, Expire, OthersVerdict, Take,
                    Infer, Sign, Write, Send, Crash, Start

\* What was reported before comes before what is reported now.
LEMMA MulticastOrder ==
  ASSUME TypeOK, NEW e \in Events, Multicast(e)
  PROVE  Reported(e)' /\ \A d : Reported(d) => Precedes(reported', d, e)
<1>1. /\ Len(reported) \in Nat /\ DOMAIN reported = 1..Len(reported)
      /\ DOMAIN reported' = 1..(Len(reported) + 1)
      /\ \A m \in 1..Len(reported) : reported'[m] = reported[m]
      /\ reported'[Len(reported) + 1] = e
  BY AppendProperties, LenProperties DEF Multicast, TypeOK
<1>2. Reported(e)'
  BY <1>1 DEF Reported
<1>3. \A d : Reported(d) => Precedes(reported', d, e)
  <2> SUFFICES ASSUME NEW d, Reported(d) PROVE Precedes(reported', d, e)
    OBVIOUS
  <2>1. PICK m \in DOMAIN reported : reported[m] = d
    BY DEF Reported
  <2>2. m < Len(reported) + 1 /\ reported'[m] = d
    BY <1>1, <2>1
  <2>3. QED BY <1>1, <2>1, <2>2 DEF Precedes
<1>4. QED BY <1>2, <1>3

\* An event is multicast once, and the daemon has no other events.
LEMMA ReportedOnceStep == TypeOK /\ ReportedOnce /\ [Next]_vars => ReportedOnce'
<1> SUFFICES ASSUME TypeOK, ReportedOnce, [Next]_vars PROVE ReportedOnce'
  OBVIOUS
<1>1. ASSUME NEW e \in Events, Multicast(e) PROVE ReportedOnce'
  <2>1. /\ Len(reported) \in Nat /\ DOMAIN reported = 1..Len(reported)
        /\ DOMAIN reported' = 1..(Len(reported) + 1)
        /\ \A m \in 1..Len(reported) : reported'[m] = reported[m]
        /\ reported'[Len(reported) + 1] = e
    BY <1>1, AppendProperties, LenProperties DEF Multicast, TypeOK
  <2>2. ~Reported(e)
    BY <1>1 DEF Multicast, ReportedOnce
  <2>3. \A m, n \in DOMAIN reported' : reported'[m] = reported'[n] => m = n
    BY <2>1, <2>2 DEF ReportedOnce, Reported
  <2>4. \A d \in Events : kernel'[d] = "new" => ~Reported(d)'
    <3>1. \A d \in Events : kernel'[d] = "new" => d # e /\ kernel[d] = "new"
      BY <1>1 DEF Multicast, SetKernel, TypeOK
    <3>2. \A d \in Events : Reported(d)' => Reported(d) \/ d = e
      BY <2>1 DEF Reported
    <3>3. QED BY <3>1, <3>2 DEF ReportedOnce
  <2>5. \A d \in Events : InInbox(d)' \/ AtWorker(d)' \/ Logged(d)' => InInbox(d) \/ AtWorker(d) \/ Logged(d) \/ d = e
    <3>1. inbox' = Append(inbox, e) /\ worker' = worker /\ log' = log
      BY <1>1 DEF Multicast
    <3>2. \A d \in Events : InInbox(d)' => InInbox(d) \/ d = e
      BY <3>1, AppendProperties, LenProperties DEF InInbox, TypeOK
    <3>3. QED BY <3>1, <3>2 DEF AtWorker, Logged
  <2>6. QED BY <1>1, <2>3, <2>4, <2>5, ReportedGrows, MulticastOrder DEF ReportedOnce
<1>2. ASSUME reported' = reported,
             \A e \in Events : kernel'[e] = "new" => kernel[e] = "new",
             \A e \in Events : InInbox(e)' \/ AtWorker(e)' \/ Logged(e)'
                                 => InInbox(e) \/ AtWorker(e) \/ Logged(e)
      PROVE  ReportedOnce'
  BY <1>2 DEF ReportedOnce, Reported
<1>3. ASSUME NEW e \in Events, NotSent(e) \/ OthersVerdict(e) PROVE ReportedOnce'
  BY <1>2, <1>3 DEF NotSent, Ignore, MulticastToOthers, Store, Expire, OthersVerdict, Receive,
                    SetKernel, TypeOK, InInbox, AtWorker, Logged
<1>4. ASSUME NEW pol \in Policies, NEW suppress \in BOOLEAN, Take(pol, suppress)
      PROVE  ReportedOnce'
  <2>1. \A e \in Events : InInbox(e)' => InInbox(e)
    BY <1>4 DEF Take, InInbox, TypeOK
  <2>2. \A e \in Events : AtWorker(e)' => InInbox(e)
    <3>1. worker'.ev = Head(inbox) /\ inbox # <<>> /\ inbox \in Seq(Events)
      BY <1>4 DEF Take, TypeOK
    <3>2. 1 \in DOMAIN inbox /\ worker'.ev = inbox[1]
      BY <3>1
    <3>3. QED BY <3>2 DEF AtWorker, InInbox
  <2>3. reported' = reported /\ kernel' = kernel /\ log' = log
    BY <1>4 DEF Take
  <2>4. QED BY <1>2, <2>1, <2>2, <2>3 DEF Logged
<1>5. ASSUME reported' = reported, inbox' = inbox, kernel' = kernel, log' = log,
             worker # WorkerIdle, worker'.ev = worker.ev
      PROVE  ReportedOnce'
  BY <1>2, <1>5 DEF InInbox, AtWorker, Logged
<1>6. ASSUME NEW answer \in {"high", "low", "empty", "unreachable"}, Infer(answer)
      PROVE  ReportedOnce'
  BY <1>5, <1>6, WorkerShape DEF Infer, WorkerBusy, WorkerIdle
<1>7. ASSUME NEW signed \in BOOLEAN, Sign(signed) PROVE ReportedOnce'
  BY <1>5, <1>7, WorkerShape DEF Sign, WorkerBusy, WorkerIdle
<1>8. CASE Write
  <2>1. worker \in WorkerBusy /\ worker # WorkerIdle
    BY <1>8, WorkerShape DEF Write, WorkerIdle
  <2>2. worker.ev \in Events /\ AtWorker(worker.ev) /\ worker'.ev = worker.ev
    BY <1>8, <2>1 DEF Write, WorkerBusy, AtWorker
  <2>3. \A e \in Events : Logged(e)' => Logged(e) \/ e = worker.ev
    <3>1. log \in Seq(Lines) /\ [ev |-> worker.ev, pol |-> worker.pol] \in Lines
      BY <2>1 DEF WorkerBusy, Lines, TypeOK
    <3>2. CASE log' = Append(log, [ev |-> worker.ev, pol |-> worker.pol])
      <4>1. /\ DOMAIN log' = 1..(Len(log) + 1) /\ DOMAIN log = 1..Len(log) /\ Len(log) \in Nat
            /\ \A i \in 1..Len(log) : log'[i] = log[i]
            /\ log'[Len(log) + 1].ev = worker.ev
        BY <3>1, <3>2, AppendProperties, LenProperties
      <4>2. QED BY <4>1 DEF Logged
    <3>3. CASE log' = log
      BY <3>3 DEF Logged
    <3>4. QED BY <1>8, <3>2, <3>3 DEF Write
  <2>4. \A e \in Events : (InInbox(e)' => InInbox(e)) /\ (AtWorker(e)' => AtWorker(e))
    BY <1>8, <2>1, <2>2 DEF Write, InInbox, AtWorker
  <2>5. reported' = reported /\ kernel' = kernel
    BY <1>8 DEF Write
  <2>6. QED BY <1>2, <2>2, <2>3, <2>4, <2>5
<1>9. ASSUME NEW verifies \in BOOLEAN, Send(verifies) PROVE ReportedOnce'
  <2>1. worker \in WorkerBusy /\ worker' = WorkerIdle /\ inbox' = inbox /\ log' = log
        /\ reported' = reported
    BY <1>9, WorkerShape DEF Send, WorkerIdle
  <2>2. worker.ev \in Events
    BY <2>1 DEF WorkerBusy
  <2>3. \A e \in Events : kernel'[e] = "new" => kernel[e] = "new"
    BY <1>9, <2>2 DEF Send, Receive, SetKernel, TypeOK
  <2>4. QED BY <1>2, <2>1, <2>3 DEF InInbox, AtWorker, Logged
<1>10. CASE Crash
  BY <1>2, <1>10 DEF Crash, InInbox, AtWorker, Logged
<1>11. CASE Start \/ UNCHANGED vars
  BY <1>2, <1>11 DEF Start, vars, InInbox, AtWorker, Logged
<1>12. QED
  BY <1>1, <1>3, <1>4, <1>6, <1>7, <1>8, <1>9, <1>10, <1>11 DEF Next, NotSent

\* Log, worker and inbox stay in the order of the multicasts.
LEMMA InOrderStep ==
  TypeOK /\ ReportedOnce /\ InOrder /\ [Next]_vars => InOrder'
<1> SUFFICES ASSUME TypeOK, ReportedOnce, InOrder, [Next]_vars PROVE InOrder'
  OBVIOUS
<1>0. \A d, e : Precedes(reported, d, e) => Precedes(reported', d, e)
  BY ReportedGrows
<1>1. ASSUME NEW e \in Events, Multicast(e) PROVE InOrder'
  <2>1. /\ inbox \in Seq(Events) /\ Len(inbox) \in Nat
        /\ DOMAIN inbox = 1..Len(inbox) /\ DOMAIN inbox' = 1..(Len(inbox) + 1)
        /\ \A i \in DOMAIN inbox : inbox'[i] = inbox[i]
        /\ inbox'[Len(inbox) + 1] = e /\ log' = log /\ worker' = worker
    BY <1>1 DEF Multicast, TypeOK
  <2>2. \A d \in Events : InInbox(d) \/ AtWorker(d) \/ Logged(d) => Precedes(reported', d, e)
    BY <1>1, MulticastOrder DEF ReportedOnce
  <2>3. \A i \in DOMAIN inbox : Precedes(reported', inbox[i], e)
    BY <2>1, <2>2, ElementOfSeq DEF InInbox
  <2>4. \A i \in DOMAIN log : Precedes(reported', log[i].ev, e)
    <3>1. log \in Seq(Lines)
      BY DEF TypeOK
    <3>2. DOMAIN log = 1..Len(log) /\ \A i \in 1..Len(log) : log[i] \in Lines
      BY <3>1, ElementOfSeq, LenProperties
    <3>3. \A i \in DOMAIN log : log[i].ev \in Events
      BY <3>2 DEF Lines
    <3>4. QED BY <2>2, <3>3 DEF Logged
  <2>5. worker # WorkerIdle => Precedes(reported', worker.ev, e)
    BY <2>2, WorkerShape DEF AtWorker, WorkerBusy
  <2>6. \A i, j \in DOMAIN inbox' : i < j => Precedes(reported', inbox'[i], inbox'[j])
    <3> SUFFICES ASSUME NEW i \in DOMAIN inbox', NEW j \in DOMAIN inbox', i < j
                 PROVE  Precedes(reported', inbox'[i], inbox'[j])
      OBVIOUS
    <3>1. CASE j = Len(inbox) + 1
      <4>1. i \in DOMAIN inbox /\ inbox'[i] = inbox[i] /\ inbox'[j] = e
        BY <2>1, <3>1
      <4>2. QED BY <2>3, <4>1
    <3>2. CASE j # Len(inbox) + 1
      <4>1. i \in DOMAIN inbox /\ j \in DOMAIN inbox
        BY <2>1, <3>2
      <4>2. Precedes(reported, inbox[i], inbox[j])
        BY <4>1 DEF InOrder
      <4>3. QED BY <1>0, <2>1, <4>1, <4>2
    <3>3. QED BY <3>1, <3>2
  <2>7. \A i \in DOMAIN log', j \in DOMAIN inbox' : Precedes(reported', log'[i].ev, inbox'[j])
    BY <1>0, <2>1, <2>4 DEF InOrder
  <2>8. worker' # WorkerIdle => \A j \in DOMAIN inbox' : Precedes(reported', worker'.ev, inbox'[j])
    BY <1>0, <2>1, <2>5 DEF InOrder
  <2>9. QED BY <1>0, <2>1, <2>6, <2>7, <2>8 DEF InOrder
<1>2. ASSUME NEW pol \in Policies, NEW suppress \in BOOLEAN, Take(pol, suppress)
      PROVE  InOrder'
  <2>1. inbox \in Seq(Events) /\ inbox # <<>> /\ inbox' = Tail(inbox) /\ log' = log
    BY <1>2 DEF Take, TypeOK
  <2>2. /\ 1 \in DOMAIN inbox /\ worker'.ev = inbox[1]
        /\ \A i \in DOMAIN inbox' : i + 1 \in DOMAIN inbox /\ inbox'[i] = inbox[i + 1] /\ 1 < i + 1
        /\ \A i, j \in DOMAIN inbox' : i < j => i + 1 < j + 1
    <3>1. worker'.ev = Head(inbox)
      BY <1>2 DEF Take
    <3>2. QED BY <2>1, <3>1
  <2>3. \A i, j \in DOMAIN inbox' : i < j => Precedes(reported, inbox'[i], inbox'[j])
    BY <2>2 DEF InOrder
  <2>4. \A j \in DOMAIN inbox' : Precedes(reported, worker'.ev, inbox'[j])
    BY <2>2 DEF InOrder
  <2>5. \A i \in DOMAIN log : /\ Precedes(reported, log[i].ev, worker'.ev)
                              /\ \A j \in DOMAIN inbox' : Precedes(reported, log[i].ev, inbox'[j])
    BY <2>2 DEF InOrder
  <2>6. QED BY <1>0, <2>1, <2>3, <2>4, <2>5 DEF InOrder
<1>3. CASE Write
  <2>1. worker \in WorkerBusy /\ worker # WorkerIdle /\ worker.pc = "write" /\ inbox' = inbox
    BY <1>3, WorkerShape DEF Write, WorkerIdle
  <2>2. worker' # WorkerIdle /\ worker'.ev = worker.ev /\ worker'.pc = "send"
    BY <1>3, <2>1 DEF Write, WorkerBusy, WorkerIdle
  <2>3. /\ \A i \in DOMAIN log : Precedes(reported, log[i].ev, worker.ev)
        /\ \A j \in DOMAIN inbox : Precedes(reported, worker.ev, inbox[j])
    BY <2>1 DEF InOrder
  <2>4. CASE log' = log
    BY <1>0, <2>1, <2>2, <2>3, <2>4 DEF InOrder
  <2>5. CASE log' = Append(log, [ev |-> worker.ev, pol |-> worker.pol])
    <3>1. log \in Seq(Lines) /\ [ev |-> worker.ev, pol |-> worker.pol] \in Lines
      BY <2>1 DEF WorkerBusy, Lines, TypeOK
    <3>2. /\ DOMAIN log' = 1..(Len(log) + 1) /\ DOMAIN log = 1..Len(log) /\ Len(log) \in Nat
          /\ \A i \in 1..Len(log) : log'[i] = log[i]
          /\ log'[Len(log) + 1].ev = worker.ev
      BY <2>5, <3>1, AppendProperties, LenProperties
    <3>3. \A i \in DOMAIN log' : i \in DOMAIN log \/ log'[i].ev = worker.ev
      BY <3>2
    <3>4. \A i, j \in DOMAIN log' : i < j => Precedes(reported, log'[i].ev, log'[j].ev)
      <4> SUFFICES ASSUME NEW i \in DOMAIN log', NEW j \in DOMAIN log', i < j
                   PROVE  Precedes(reported, log'[i].ev, log'[j].ev)
        OBVIOUS
      <4>1. i \in DOMAIN log /\ log'[i] = log[i]
        BY <3>2
      <4>2. CASE j = Len(log) + 1
        BY <2>3, <3>2, <4>1, <4>2
      <4>3. CASE j # Len(log) + 1
        <5>1. j \in DOMAIN log /\ log'[j] = log[j]
          BY <3>2, <4>3
        <5>2. QED BY <4>1, <5>1 DEF InOrder
      <4>4. QED BY <4>2, <4>3
    <3>5. \A i \in DOMAIN log', j \in DOMAIN inbox : Precedes(reported, log'[i].ev, inbox[j])
      BY <2>3, <3>2, <3>3 DEF InOrder
    <3>6. \A i \in DOMAIN log' : Precedes(reported, log'[i].ev, worker.ev) \/ log'[i].ev = worker.ev
      BY <2>3, <3>2, <3>3
    <3>7. QED BY <1>0, <2>1, <2>2, <2>3, <3>4, <3>5, <3>6 DEF InOrder
  <2>6. QED BY <1>3, <2>4, <2>5 DEF Write
<1>4. ASSUME inbox' = inbox, log' = log, worker # WorkerIdle, worker.pc # "send",
             worker'.ev = worker.ev
      PROVE  InOrder'
  BY <1>0, <1>4 DEF InOrder
<1>5. ASSUME NEW answer \in {"high", "low", "empty", "unreachable"}, Infer(answer)
      PROVE  InOrder'
  BY <1>4, <1>5, WorkerShape DEF Infer, WorkerBusy, WorkerIdle
<1>6. ASSUME NEW signed \in BOOLEAN, Sign(signed) PROVE InOrder'
  BY <1>4, <1>6, WorkerShape DEF Sign, WorkerBusy, WorkerIdle
<1>7. ASSUME NEW verifies \in BOOLEAN, Send(verifies) PROVE InOrder'
  BY <1>0, <1>7 DEF Send, InOrder
<1>8. CASE Crash
  BY <1>0, <1>8 DEF Crash, InOrder
<1>9. ASSUME UNCHANGED <<inbox, log, worker>> PROVE InOrder'
  BY <1>0, <1>9 DEF InOrder
<1>10. QED
  BY <1>1, <1>2, <1>3, <1>5, <1>6, <1>7, <1>8, <1>9
  DEF Next, vars, Ignore, MulticastToOthers, Store, Expire, OthersVerdict, Start

\* Nothing is reported at the start.
LEMMA InitOrder == Init => OrderInv
<1> SUFFICES ASSUME Init PROVE OrderInv
  OBVIOUS
<1>1. TypeOK
  BY InitInv DEF IInv
<1>2. \A i \in DOMAIN inbox : FALSE
  BY EmptySeq DEF Init
<1>3. \A i \in DOMAIN log : FALSE
  BY EmptySeq DEF Init
<1>4. \A i \in DOMAIN reported : FALSE
  BY EmptySeq DEF Init
<1>5. QED
  BY <1>1, <1>2, <1>3, <1>4 DEF Init, OrderInv, ReportedOnce, InOrder, Reported, InInbox,
                                AtWorker, Logged

-----------------------------------------------------------------------------
\* IInv holds in every state of the system.
THEOREM PathInvariance == Spec => []IInv
<1>1. Init => IInv
  BY InitInv
<1>2. IInv /\ [Next]_vars => IInv'
  BY TypeStep, HeldOnceStep, WorkerStep, EnforcedStep DEF IInv
<1>3. QED BY <1>1, <1>2, PTL DEF Spec

\* The variables keep their types.
THEOREM PathTypeCorrect == Spec => []TypeOK
<1>1. IInv => TypeOK BY DEF IInv
<1>2. QED BY <1>1, PathInvariance, PTL

\* An event that was judged a DENY is never allowed by a verdict, unless its
\* rule suppresses the log.
THEOREM DenyKept == Spec => []DenyIsKept
<1>1. IInv => DenyIsKept BY DEF IInv
<1>2. QED BY <1>1, PathInvariance, PTL

\* The line in events.jsonl comes before what it reports, whenever the daemon
\* dies, but for the rules and the DENY of another process named there.
THEOREM LoggedBeforeEnforced == Spec => []EnforcedIsLogged
<1>1. IInv => EnforcedIsLogged BY DEF IInv
<1>2. QED BY <1>1, PathInvariance, PTL

\* The lines of events.jsonl are in the order of the multicasts, each event at
\* most once, whenever the daemon dies and is started again.
THEOREM LogOrdered == Spec => []LogInOrder
<1>1. Init => OrderInv
  BY InitOrder
<1>2. OrderInv /\ [Next]_vars => OrderInv'
  BY TypeStep, ReportedOnceStep, InOrderStep DEF OrderInv
<1>3. OrderInv => LogInOrder
  <2> SUFFICES ASSUME OrderInv PROVE LogInOrder
    OBVIOUS
  <2>1. \A d, e : Precedes(reported, d, e) => d # e
    BY LenProperties DEF OrderInv, ReportedOnce, Precedes, TypeOK
  <2>2. \A i, j \in DOMAIN log : i < j => Precedes(reported, log[i].ev, log[j].ev)
    BY DEF OrderInv, InOrder
  <2>3. \A i, j \in DOMAIN log : i \in Nat /\ j \in Nat
    BY LenProperties DEF OrderInv, TypeOK
  <2>4. \A i, j \in DOMAIN log : log[i].ev = log[j].ev => i = j
    BY <2>1, <2>2, <2>3
  <2>5. QED BY <2>2, <2>4 DEF LogInOrder
<1>4. QED BY <1>1, <1>2, <1>3, PTL DEF Spec
=============================================================================
