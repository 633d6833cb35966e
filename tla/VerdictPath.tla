---------------------------- MODULE VerdictPath ----------------------------
(***************************************************************************)
(* The path of an event through the whole system: reported by the kernel   *)
(* module, judged by the daemon's worker thread, written to events.jsonl,  *)
(* answered with a signed verdict, enforced by the kernel                  *)
(* (daemon/qks_daemon.c worker_thread_main, kernel/qks_netlink.c).         *)
(*                                                                         *)
(* The daemon may die at any step and systemd starts it again              *)
(* (Restart=on-failure); what it held is lost, the events wait in the      *)
(* kernel until they expire.  Sending a verdict is one step with the       *)
(* kernel's handling of it: generic netlink runs the handler in sendmsg.   *)
(* PendingVerdicts looks into that step and into the timer, DaemonQueue    *)
(* into the inbox, DropList into what a DENY of a packet does.             *)
(***************************************************************************)
EXTENDS Naturals, Sequences

CONSTANTS
  Events,       \* events the probes and hooks see
  MaxCrashes    \* bound: deaths of the daemon

ASSUME PathAssumption == MaxCrashes \in Nat

VARIABLES
  kernel,     \* what the kernel module does about each event
  inbox,      \* events on their way to the worker: socket, then g_queue
  daemonUp,   \* is the daemon in the multicast group?
  worker,     \* the worker thread: where it is and its local variables
  log,        \* events.jsonl: its lines
  crashes,    \* how often the daemon died
  \* what happened, for the properties
  reported,   \* events the daemon was sent, in the order of their multicast
  judged,     \* pol when the verdict on an event was signed
  quiet,      \* events whose rule says suppress_log
  unwritten,  \* events whose line could not be written
  foreign     \* events decided by a verdict that another process sent

vars == <<kernel, inbox, daemonUp, worker, log, crashes, reported, judged,
          quiet, unwritten, foreign>>

Policies     == {"ALLOW", "DENY", "UNKNOWN"}
\* "ignored": let go without a record; "expired": let go by the timer.
KernelStates == {"new", "multicast", "waiting", "ignored", "expired",
                 "allowed", "denied"}
\* v, the verdict that is prepared first: a signed ALLOW, or a DENY that no
\* signature goes with.
FirstVerdicts == {"none", "ALLOW", "DENY"}
WorkerIdle   == [pc |-> "idle"]
WorkerBusy   == [pc : {"infer", "sign", "write", "send"}, ev : Events,
                 pol : Policies, suppress : BOOLEAN, v : FirstVerdicts]
Lines        == [ev : Events, pol : Policies]

TypeOK ==
  /\ kernel \in [Events -> KernelStates]
  /\ inbox \in Seq(Events)
  /\ daemonUp \in BOOLEAN
  /\ worker \in {WorkerIdle} \cup WorkerBusy
  /\ log \in Seq(Lines)
  /\ crashes \in 0..MaxCrashes
  /\ reported \in Seq(Events)
  /\ judged \in [Events -> Policies \cup {"none"}]
  /\ quiet \subseteq Events /\ unwritten \subseteq Events /\ foreign \subseteq Events

Init ==
  /\ kernel = [e \in Events |-> "new"]
  /\ inbox = <<>> /\ daemonUp = FALSE /\ worker = WorkerIdle
  /\ log = <<>> /\ crashes = 0
  /\ reported = <<>> /\ judged = [e \in Events |-> "none"]
  /\ quiet = {} /\ unwritten = {} /\ foreign = {}

-----------------------------------------------------------------------------
(* The kernel module.                                                       *)

SetKernel(e, s) == kernel' = [kernel EXCEPT ![e] = s]

\* qks_send_msg lets an event go: no memory, the daemon is down, or its
\* socket is full, which a multicast to one listener reports as -ESRCH too:
\* "no daemon listeners -> ALLOW".
Ignore(e) ==
  /\ kernel[e] = "new"
  /\ SetKernel(e, "ignored")
  /\ UNCHANGED <<inbox, daemonUp, worker, log, crashes, reported, judged,
                 quiet, unwritten, foreign>>

Multicast(e) ==
  /\ kernel[e] = "new" /\ daemonUp
  /\ SetKernel(e, "multicast")
  /\ inbox' = Append(inbox, e)
  /\ reported' = Append(reported, e)
  /\ UNCHANGED <<daemonUp, worker, log, crashes, judged, quiet, unwritten, foreign>>

\* Another process has joined the group, for anybody may: the multicast is a
\* success, though the daemon is down or its socket is full.
MulticastToOthers(e) ==
  /\ kernel[e] = "new"
  /\ SetKernel(e, "multicast")
  /\ UNCHANGED <<inbox, daemonUp, worker, log, crashes, reported, judged,
                 quiet, unwritten, foreign>>

\* qks_store_pending_event, after the multicast; its -ENOMEM is ignored.
Store(e) ==
  /\ kernel[e] = "multicast"
  /\ \/ SetKernel(e, "waiting")
     \/ SetKernel(e, "ignored")
  /\ UNCHANGED <<inbox, daemonUp, worker, log, crashes, reported, judged,
                 quiet, unwritten, foreign>>

\* qks_verdict_timeout: "-> DENY", but nothing is enforced.
Expire(e) ==
  /\ kernel[e] = "waiting"
  /\ SetKernel(e, "expired")
  /\ UNCHANGED <<inbox, daemonUp, worker, log, crashes, reported, judged,
                 quiet, unwritten, foreign>>

\* qks_cmd_verdict: an event that does not wait is "unknown"; a signed ALLOW
\* is applied; a DENY is applied too, signed or not, for a verdict that does
\* not verify is a DENY.  verifies is FALSE when verification itself fails.
Receive(e, verdict, verifies) ==
  IF kernel[e] # "waiting" THEN UNCHANGED kernel
  ELSE SetKernel(e, IF verdict = "ALLOW" /\ verifies THEN "allowed" ELSE "denied")

\* A process that is not the daemon sends a verdict: the command asks for no
\* privilege (qks_ops, flags 0).  Nothing verifies that the daemon did not sign.
OthersVerdict(e) ==
  /\ kernel[e] = "waiting"
  /\ Receive(e, "DENY", FALSE)
  /\ foreign' = foreign \cup {e}
  /\ UNCHANGED <<inbox, daemonUp, worker, log, crashes, reported, judged, quiet, unwritten>>

-----------------------------------------------------------------------------
(* The worker thread.                                                       *)

\* Slip: the newest event is taken.
TakeLast(pol, suppress) ==
  /\ daemonUp /\ worker = WorkerIdle /\ inbox # <<>>
  /\ inbox' = SubSeq(inbox, 1, Len(inbox) - 1)
  /\ LET e == inbox[Len(inbox)] IN
       /\ worker' = [pc |-> IF pol = "UNKNOWN" THEN "infer" ELSE "sign",
                     ev |-> e, pol |-> pol, suppress |-> suppress, v |-> "none"]
       /\ quiet' = IF suppress THEN quiet \cup {e} ELSE quiet
  /\ UNCHANGED <<kernel, daemonUp, log, crashes, reported, judged, unwritten, foreign>>

\* queue_pop and qks_policy_eval; an ml rule, or none, leaves it to the model.
Take(pol, suppress) ==
  /\ daemonUp /\ worker = WorkerIdle /\ inbox # <<>>
  /\ inbox' = Tail(inbox)
  /\ worker' = [pc |-> IF pol = "UNKNOWN" THEN "infer" ELSE "sign",
                ev |-> Head(inbox), pol |-> pol, suppress |-> suppress, v |-> "none"]
  /\ quiet' = IF suppress THEN quiet \cup {Head(inbox)} ELSE quiet
  /\ UNCHANGED <<kernel, daemonUp, log, crashes, reported, judged, unwritten, foreign>>

\* Slip: the model's answer is taken for a policy result.
InferRaw(answer) ==
  /\ worker.pc = "infer"
  /\ worker' = [worker EXCEPT !.pc = "sign", !.pol = answer]
  /\ UNCHANGED <<kernel, inbox, daemonUp, log, crashes, reported, judged,
                 quiet, unwritten, foreign>>

\* ml_client_infer: a score above 0.7 is a DENY, one that is not an ALLOW.
\* When the server cannot be reached the policy stays UNKNOWN; when it closes
\* the connection without an answer, atof("") is a score of 0.
Infer(answer) ==
  /\ worker.pc = "infer"
  /\ worker' = [worker EXCEPT !.pc = "sign",
                  !.pol = CASE answer = "high" -> "DENY"
                            [] answer \in {"low", "empty"} -> "ALLOW"
                            [] answer = "unreachable" -> "UNKNOWN"]
  /\ UNCHANGED <<kernel, inbox, daemonUp, log, crashes, reported, judged,
                 quiet, unwritten, foreign>>

\* Slip: only a DENY is logged.
SignLogDenies(signed) ==
  /\ worker.pc = "sign"
  /\ worker' = [worker EXCEPT !.pc = IF worker.pol = "DENY" THEN "write" ELSE "send",
                              !.v  = IF signed THEN "ALLOW" ELSE "DENY"]
  /\ judged' = [judged EXCEPT ![worker.ev] = worker.pol]
  /\ UNCHANGED <<kernel, inbox, daemonUp, log, crashes, reported, quiet, unwritten, foreign>>

\* v is an ALLOW whatever pol is; if signing it fails or the signature does
\* not verify, v is a DENY without a signature.
Sign(signed) ==
  /\ worker.pc = "sign"
  /\ worker' = [worker EXCEPT !.pc = IF worker.suppress THEN "send" ELSE "write",
                              !.v  = IF signed THEN "ALLOW" ELSE "DENY"]
  /\ judged' = [judged EXCEPT ![worker.ev] = worker.pol]
  /\ UNCHANGED <<kernel, inbox, daemonUp, log, crashes, reported, quiet, unwritten, foreign>>

\* qks_write_event_jsonl; when events.jsonl cannot be opened the worker goes
\* on without the line.
Write ==
  /\ worker.pc = "write"
  /\ worker' = [worker EXCEPT !.pc = "send"]
  /\ \/ /\ log' = Append(log, [ev |-> worker.ev, pol |-> worker.pol])
        /\ UNCHANGED unwritten
     \/ /\ unwritten' = unwritten \cup {worker.ev}
        /\ UNCHANGED log
  /\ UNCHANGED <<kernel, inbox, daemonUp, crashes, reported, judged, quiet, foreign>>

\* Slip: the verdict of a DENY is not replaced.
SendFirst(verifies) ==
  /\ worker.pc = "send"
  /\ Receive(worker.ev, worker.v, verifies) \/ UNCHANGED kernel
  /\ worker' = WorkerIdle
  /\ UNCHANGED <<inbox, daemonUp, log, crashes, reported, judged,
                 quiet, unwritten, foreign>>

\* A DENY goes out in place of v, but only inside if (!suppress_log).  Without
\* memory for the message send_verdict says so, and nothing goes out.
Send(verifies) ==
  /\ worker.pc = "send"
  /\ \/ Receive(worker.ev,
                IF ~worker.suppress /\ worker.pol = "DENY" THEN "DENY" ELSE worker.v,
                verifies)
     \/ UNCHANGED kernel
  /\ worker' = WorkerIdle
  /\ UNCHANGED <<inbox, daemonUp, log, crashes, reported, judged,
                 quiet, unwritten, foreign>>

-----------------------------------------------------------------------------
(* systemd.                                                                 *)

\* The process ends; its memory and its socket's buffer go with it.
Crash ==
  /\ daemonUp /\ crashes < MaxCrashes
  /\ daemonUp' = FALSE
  /\ crashes' = crashes + 1
  /\ inbox' = <<>> /\ worker' = WorkerIdle
  /\ UNCHANGED <<kernel, log, reported, judged, quiet, unwritten, foreign>>

\* main, up to "joined multicast group OK".
Start ==
  /\ ~daemonUp
  /\ daemonUp' = TRUE
  /\ UNCHANGED <<kernel, inbox, worker, log, crashes, reported, judged,
                 quiet, unwritten, foreign>>

-----------------------------------------------------------------------------
Next ==
  \/ \E e \in Events :
       \/ Ignore(e) \/ Multicast(e) \/ MulticastToOthers(e) \/ Store(e) \/ Expire(e)
       \/ OthersVerdict(e)
  \/ \E pol \in Policies, suppress \in BOOLEAN : Take(pol, suppress)
  \/ \E answer \in {"high", "low", "empty", "unreachable"} : Infer(answer)
  \/ \E signed \in BOOLEAN : Sign(signed)
  \/ Write
  \/ \E verifies \in BOOLEAN : Send(verifies)
  \/ Crash
  \/ Start

Spec == Init /\ [][Next]_vars

-----------------------------------------------------------------------------
(* Properties.                                                              *)

Enforced(e) == kernel[e] \in {"allowed", "denied"}

Logged(e) == \E i \in DOMAIN log : log[i].ev = e

\* d comes before e in s.
Precedes(s, d, e) == \E m, n \in DOMAIN s : m < n /\ s[m] = d /\ s[n] = e

\* Unless its rule suppresses the log, an event that was judged a DENY is
\* never allowed by a verdict, though the verdict that is signed first is an
\* ALLOW (lines 524 and 566-593).
DenyIsKept == \A e \in Events :
  kernel[e] = "allowed" => judged[e] # "DENY" \/ e \in quiet

\* What a verdict allows has its line in events.jsonl already, unless its rule
\* suppresses the log or the file could not be opened: the line is written
\* before the verdict is sent, so a death of the daemon between the two loses
\* the verdict, never the line (lines 561-565).  So has what a verdict denies,
\* but for one more way: another process sent that verdict, which does not
\* verify, and the kernel applies a DENY the daemon knows nothing of
\* (qks_netlink.c 133-139, 158-166).
EnforcedIsLogged == \A e \in Events :
  /\ kernel[e] = "allowed" => Logged(e) \/ e \in quiet \cup unwritten
  /\ kernel[e] = "denied" => Logged(e) \/ e \in quiet \cup unwritten \cup foreign

\* The lines of events.jsonl are in the order of the multicasts and no event
\* has two, across restarts; the backend's "newest first" relies on it.
LogInOrder ==
  /\ \A i, j \in DOMAIN log : log[i].ev = log[j].ev => i = j
  /\ \A i, j \in DOMAIN log : i < j => Precedes(reported, log[i].ev, log[j].ev)

-----------------------------------------------------------------------------
(* The inductive invariant behind DenyIsKept and EnforcedIsLogged.          *)

\* Where an event is in the daemon, if it is there.
InInbox(e) == \E i \in DOMAIN inbox : inbox[i] = e
AtWorker(e) == worker # WorkerIdle /\ worker.ev = e

\* An event is judged once: the daemon holds it in one place, the kernel has
\* sent it and no verdict of the daemon on it has been applied.
HeldOnce ==
  /\ \A i, j \in DOMAIN inbox : inbox[i] = inbox[j] => i = j
  /\ \A e \in Events : InInbox(e) => ~AtWorker(e)
  /\ \A e \in Events : InInbox(e) \/ AtWorker(e) =>
       kernel[e] # "new" /\ (Enforced(e) => kernel[e] = "denied" /\ e \in foreign)

\* What the worker knows of the event it is at.
WorkerInv ==
  worker # WorkerIdle =>
    /\ worker.suppress => worker.ev \in quiet
    /\ worker.pc \in {"write", "send"} => judged[worker.ev] = worker.pol
    /\ worker.pc = "send" =>
         worker.suppress \/ Logged(worker.ev) \/ worker.ev \in unwritten

IInv == TypeOK /\ HeldOnce /\ WorkerInv /\ DenyIsKept /\ EnforcedIsLogged

-----------------------------------------------------------------------------
(* The inductive invariant behind LogInOrder.                               *)

Reported(e) == \E m \in DOMAIN reported : reported[m] = e

\* An event is multicast once, and the daemon has no other events.
ReportedOnce ==
  /\ \A m, n \in DOMAIN reported : reported[m] = reported[n] => m = n
  /\ \A e \in Events : kernel[e] = "new" => ~Reported(e)
  /\ \A e \in Events : InInbox(e) \/ AtWorker(e) \/ Logged(e) => Reported(e)

\* What is logged came before what the worker is at, that before the inbox,
\* and the inbox and the log are in order.
InOrder ==
  /\ \A i, j \in DOMAIN inbox : i < j => Precedes(reported, inbox[i], inbox[j])
  /\ \A i \in DOMAIN log, j \in DOMAIN inbox : Precedes(reported, log[i].ev, inbox[j])
  /\ worker # WorkerIdle =>
       /\ \A j \in DOMAIN inbox : Precedes(reported, worker.ev, inbox[j])
       /\ \A i \in DOMAIN log :
            Precedes(reported, log[i].ev, worker.ev) \/ (worker.pc = "send" /\ log[i].ev = worker.ev)
  /\ \A i, j \in DOMAIN log : i < j => Precedes(reported, log[i].ev, log[j].ev)

OrderInv == TypeOK /\ ReportedOnce /\ InOrder

-----------------------------------------------------------------------------
\* "Verdict: DENY" (line 551) is what the kernel is told.
DenyMeansDeny == \A e \in Events : kernel[e] = "allowed" => judged[e] # "DENY"
=============================================================================
