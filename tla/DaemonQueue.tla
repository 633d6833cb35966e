---------------------------- MODULE DaemonQueue ----------------------------
(***************************************************************************)
(* The two threads of the user-space daemon and the queue between them     *)
(* (daemon/queue.c and the loops of daemon/qks_daemon.c).                  *)
(*                                                                         *)
(* The main thread receives events from the netlink socket and pushes them *)
(* into a FIFO queue; the worker pops an event, reloads the policy if      *)
(* SIGUSR1 asked for it, judges the event and sends the verdict over the   *)
(* same socket.  SIGINT and SIGTERM clear g_running, which either thread   *)
(* reads once per turn of its loop.                                        *)
(*                                                                         *)
(* Each access to the queue is one step: queue_push and queue_pop hold the *)
(* queue's mutex, and pthread_cond_wait releases it and starts to wait     *)
(* atomically.  Nothing calls queue_close, so q->closed stays false.       *)
(*                                                                         *)
(* Without memory for its copy of an event the daemon dies of a NULL       *)
(* pointer; the variables then are what the process left behind.           *)
(***************************************************************************)
EXTENDS Integers, Sequences, SequencesExt

CONSTANTS
  MaxEvents,     \* bound: events the kernel multicasts
  SocketSize,    \* events the socket's receive buffer holds
  MaxVersions    \* bound: versions of the policy files

ASSUME QueueAssumption ==
  /\ MaxEvents \in Nat /\ MaxVersions \in Nat
  /\ SocketSize \in Nat \ {0}

VARIABLES
  sent,        \* number of events multicast so far; they are 1..sent
  socket,      \* events in the socket's receive buffer
  overrun,     \* the buffer overflowed: the next receive fails (-ENOBUFS)
  open,        \* nl_socket_free has not been called
  main,        \* control state of the main thread
  got,         \* the event on_qks_msg was called for
  queue,       \* g_queue
  worker,      \* control state of the worker
  ev,          \* the event the worker popped
  running,     \* g_running
  reload,      \* g_reload_policy
  disk,        \* version of the policy files
  policy,      \* version of the policy in memory
  \* what happened, for the properties
  lost,        \* events dropped before the queue: overrun or no memory
  signalled,   \* version on disk at the last SIGUSR1
  owed,        \* signalled, when the worker took its event
  loadOk,      \* the last reload succeeded
  answers,     \* verdicts in the order they were sent
  afterFree    \* verdicts sent over a freed socket

vars == <<sent, socket, overrun, open, main, got, queue, worker, ev, running,
          reload, disk, policy, lost, signalled, owed, loadOk, answers, afterFree>>

Events    == 1..MaxEvents
Versions  == 0..MaxVersions
MainPCs   == {"recv", "push", "test", "free", "broadcast", "join", "exited", "killed"}
WorkerPCs == {"test", "pop", "waiting", "popped", "loading", "judge", "exited"}
NoEvent   == 0
Verdicts  == [ev : Events, policy : Versions, owed : Versions, ok : BOOLEAN]

kernelVars == <<sent, socket, overrun>>
mainVars   == <<main, got, open>>
workerVars == <<worker, ev, policy, owed, loadOk, answers, afterFree>>
signalVars == <<running, reload, disk, signalled>>

Init ==
  /\ sent = 0 /\ socket = <<>> /\ overrun = FALSE /\ open = TRUE
  /\ main = "test" /\ got = NoEvent
  /\ queue = <<>>
  /\ worker = "test" /\ ev = NoEvent
  /\ running = TRUE /\ reload = FALSE
  /\ disk = 0 /\ policy = 0 /\ signalled = 0 /\ owed = 0 /\ loadOk = TRUE
  /\ lost = {} /\ answers = <<>> /\ afterFree = {}

-----------------------------------------------------------------------------
(* The world outside: the kernel, the administrator, the backend.           *)

\* The process has not been killed.
Alive == main # "killed"

\* The kernel multicasts the next event; a full buffer loses it and makes
\* the next receive fail.
Deliver ==
  /\ sent < MaxEvents /\ open /\ Alive
  /\ sent' = sent + 1
  /\ IF Len(socket) < SocketSize
       THEN socket' = Append(socket, sent + 1) /\ UNCHANGED <<overrun, lost>>
       ELSE overrun' = TRUE /\ lost' = lost \cup {sent + 1} /\ UNCHANGED socket
  /\ UNCHANGED <<mainVars, queue, workerVars, signalVars>>

\* on_sigint
Sigint ==
  /\ running /\ Alive
  /\ running' = FALSE
  /\ UNCHANGED <<kernelVars, mainVars, queue, workerVars, reload, disk, signalled, lost>>

\* New policy files are put in place ...
WritePolicy ==
  /\ disk < MaxVersions
  /\ disk' = disk + 1
  /\ UNCHANGED <<kernelVars, mainVars, queue, workerVars, running, reload, signalled, lost>>

\* ... and on_sigusr1 runs.
Sigusr1 ==
  /\ Alive
  /\ ~reload \/ signalled # disk
  /\ reload' = TRUE /\ signalled' = disk
  /\ UNCHANGED <<kernelVars, mainVars, queue, workerVars, running, disk, lost>>

-----------------------------------------------------------------------------
(* The main thread.                                                         *)

\* while (g_running)
MainTest ==
  /\ main = "test"
  /\ main' = IF running THEN "recv" ELSE "free"
  /\ UNCHANGED <<kernelVars, got, open, queue, workerVars, signalVars, lost>>

\* nl_recvmsgs_default calls on_qks_msg.  A signal does not end the wait:
\* signal() restarts system calls and libnl retries on EINTR.
RecvEvent ==
  /\ main = "recv" /\ ~overrun /\ socket # <<>>
  /\ got' = Head(socket) /\ socket' = Tail(socket) /\ main' = "push"
  /\ UNCHANGED <<sent, overrun, open, queue, workerVars, signalVars, lost>>

\* The overrun is reported, once, before what the buffer holds.
RecvError ==
  /\ main = "recv" /\ overrun
  /\ overrun' = FALSE /\ main' = "test"
  /\ UNCHANGED <<sent, socket, got, open, queue, workerVars, signalVars, lost>>

\* pthread_cond_signal and pthread_cond_broadcast: there is one waiter.
WakeWorker == worker' = IF worker = "waiting" THEN "pop" ELSE worker

\* Slip: the new item becomes the head of the list.
PushFront ==
  /\ main = "push"
  /\ queue' = <<got>> \o queue
  /\ WakeWorker
  /\ got' = NoEvent /\ main' = "test"
  /\ UNCHANGED <<kernelVars, open, ev, policy, owed, loadOk, answers, afterFree,
                 signalVars, lost>>

\* Slip: the condition variable is not signalled.
PushSilent ==
  /\ main = "push"
  /\ queue' = Append(queue, got)
  /\ got' = NoEvent /\ main' = "test"
  /\ UNCHANGED <<kernelVars, open, workerVars, signalVars, lost>>

\* queue_push
Push ==
  /\ main = "push"
  /\ queue' = Append(queue, got)
  /\ WakeWorker
  /\ got' = NoEvent /\ main' = "test"
  /\ UNCHANGED <<kernelVars, open, ev, policy, owed, loadOk, answers, afterFree,
                 signalVars, lost>>

\* queue_push without memory for the item: the event is dropped.
PushNoMemory ==
  /\ main = "push"
  /\ lost' = lost \cup {got}
  /\ got' = NoEvent /\ main' = "test"
  /\ UNCHANGED <<kernelVars, open, queue, workerVars, signalVars>>

\* on_qks_msg does not look at what malloc returns: without memory for the
\* copy of the event memcpy writes through NULL and both threads end.
CopyNoMemory ==
  /\ main = "push"
  /\ main' = "killed"
  /\ UNCHANGED <<kernelVars, got, open, queue, workerVars, signalVars, lost>>

\* nl_socket_free, while the worker may be about to use the socket.
FreeSocket ==
  /\ main = "free"
  /\ open' = FALSE /\ main' = "broadcast"
  /\ UNCHANGED <<kernelVars, got, queue, workerVars, signalVars, lost>>

\* g_running = false; pthread_cond_broadcast, without the mutex.
Broadcast ==
  /\ main = "broadcast"
  /\ running' = FALSE
  /\ WakeWorker
  /\ main' = "join"
  /\ UNCHANGED <<kernelVars, got, open, queue, ev, policy, owed, loadOk, answers,
                 afterFree, reload, disk, signalled, lost>>

\* pthread_join returns; remove_pid_file; return 0.
Join ==
  /\ main = "join" /\ worker = "exited"
  /\ main' = "exited"
  /\ UNCHANGED <<kernelVars, got, open, queue, workerVars, signalVars, lost>>

-----------------------------------------------------------------------------
(* The worker.                                                              *)

\* Slip: while (true)
WorkerForever ==
  /\ worker = "test"
  /\ worker' = "pop"
  /\ UNCHANGED <<kernelVars, mainVars, queue, ev, policy, owed, loadOk, answers,
                 afterFree, signalVars, lost>>

\* while (g_running)
WorkerTest ==
  /\ worker = "test"
  /\ worker' = IF running THEN "pop" ELSE "exited"
  /\ UNCHANGED <<kernelVars, mainVars, queue, ev, policy, owed, loadOk, answers,
                 afterFree, signalVars, lost>>

\* queue_pop takes the head of the queue.
PopTake ==
  /\ worker = "pop" /\ queue # <<>>
  /\ ev' = Head(queue) /\ queue' = Tail(queue)
  /\ owed' = signalled
  /\ worker' = "popped"
  /\ UNCHANGED <<kernelVars, mainVars, policy, loadOk, answers, afterFree, signalVars, lost>>

\* queue_pop waits: the queue is empty, whatever g_running says.
PopWait ==
  /\ worker = "pop" /\ queue = <<>>
  /\ worker' = "waiting"
  /\ UNCHANGED <<kernelVars, mainVars, queue, ev, policy, owed, loadOk, answers,
                 afterFree, signalVars, lost>>

\* Slip: if instead of while: a waiter that wakes for no reason leaves
\* queue_pop with nothing.
WakeWithNothing ==
  /\ worker = "waiting" /\ Alive
  /\ worker' = "popped"
  /\ UNCHANGED <<kernelVars, mainVars, queue, ev, policy, owed, loadOk, answers,
                 afterFree, signalVars, lost>>

\* A condition variable may wake its waiter for no reason.
SpuriousWakeup ==
  /\ worker = "waiting" /\ Alive
  /\ WakeWorker
  /\ UNCHANGED <<kernelVars, mainVars, queue, ev, policy, owed, loadOk, answers,
                 afterFree, signalVars, lost>>

\* Slip: the flag is cleared and the files are not read before the event
\* is judged.
ClearOnly ==
  /\ worker = "popped"
  /\ worker' = "judge"
  /\ reload' = FALSE
  /\ UNCHANGED <<kernelVars, mainVars, queue, ev, policy, owed, loadOk, answers,
                 afterFree, running, disk, signalled, lost>>

\* if (g_reload_policy) g_reload_policy = 0
TestReload ==
  /\ worker = "popped"
  /\ worker' = IF reload THEN "loading" ELSE "judge"
  /\ reload' = FALSE
  /\ UNCHANGED <<kernelVars, mainVars, queue, ev, policy, owed, loadOk, answers,
                 afterFree, running, disk, signalled, lost>>

\* qks_policy_load; a file that cannot be read or parsed leaves the policy.
LoadPolicy ==
  /\ worker = "loading"
  /\ loadOk' \in BOOLEAN
  /\ policy' = IF loadOk' THEN disk ELSE policy
  /\ worker' = "judge"
  /\ UNCHANGED <<kernelVars, mainVars, queue, ev, owed, answers, afterFree, signalVars, lost>>

\* The event is judged, the verdict signed and sent (send_verdict), the
\* event freed.
Answer ==
  /\ worker = "judge"
  /\ answers'   = Append(answers, [ev |-> ev, policy |-> policy, owed |-> owed, ok |-> loadOk])
  /\ afterFree' = IF open THEN afterFree ELSE afterFree \cup {ev}
  /\ ev' = NoEvent /\ worker' = "test"
  /\ UNCHANGED <<kernelVars, mainVars, queue, policy, owed, loadOk, signalVars, lost>>

-----------------------------------------------------------------------------
Main   == \/ MainTest \/ RecvEvent \/ RecvError \/ Push \/ PushNoMemory
          \/ CopyNoMemory \/ FreeSocket \/ Broadcast \/ Join

Worker ==
  /\ Alive
  /\ WorkerTest \/ PopTake \/ PopWait \/ TestReload \/ LoadPolicy \/ Answer

\* The daemon has ended, or the model's bound on events leaves it waiting
\* for one.
AtRest ==
  /\ \/ main \in {"exited", "killed"}
     \/ main = "recv" /\ socket = <<>> /\ ~overrun /\ sent = MaxEvents
  /\ UNCHANGED vars

Next == \/ Deliver \/ Sigint \/ WritePolicy \/ Sigusr1
        \/ Main \/ Worker \/ SpuriousWakeup \/ AtRest

\* The scheduler runs both threads; nobody has to send events or signals.
\* Fairness of Answer assumes that the ML server answers or closes the
\* connection: ml_client_infer waits without a timeout.
Spec == Init /\ [][Next]_vars /\ WF_vars(Main) /\ WF_vars(Worker)

-----------------------------------------------------------------------------
(* Properties.                                                              *)

VarsOK ==
  /\ sent \in 0..MaxEvents
  /\ socket \in Seq(Events) /\ Len(socket) <= SocketSize
  /\ overrun \in BOOLEAN /\ open \in BOOLEAN
  /\ main \in MainPCs /\ worker \in WorkerPCs
  /\ got \in Events \cup {NoEvent} /\ ev \in Events \cup {NoEvent}
  /\ queue \in Seq(Events)
  /\ running \in BOOLEAN /\ reload \in BOOLEAN /\ loadOk \in BOOLEAN
  /\ {disk, policy, signalled, owed} \subseteq Versions
  /\ lost \in SUBSET Events /\ afterFree \in SUBSET Events
  /\ answers \in Seq(Verdicts)

\* Where the worker holds an event.
Holding == {"popped", "loading", "judge"}

\* A thread has an event in hand only on its way with it; the one main had
\* when it was killed stays in its memory.
ControlInv ==
  /\ main \in {"push", "killed"} <=> got # NoEvent
  /\ worker \in Holding <=> ev # NoEvent

\* The variables have their types, and a thread that goes on with an event
\* has one: queue_pop never returns NULL to a worker that does not test it.
TypeOK == VarsOK /\ ControlInv

InHand(e) == IF e = NoEvent THEN <<>> ELSE <<e>>

Answered == [i \in DOMAIN answers |-> answers[i].ev]

\* Front to back: what was answered, what the worker holds, the queue, what
\* the main thread holds and the socket.
Line == Answered \o InHand(ev) \o queue \o InHand(got) \o socket

Increasing(s) == \A i, j \in DOMAIN s : i < j => s[i] < s[j]

\* Verdicts are sent in the order of the events, one per event, and no event
\* vanishes: the line from the answers back to the socket is what was
\* multicast, in that order, without what was lost.
FifoNoLoss == Increasing(Line) /\ ToSet(Line) = (1..sent) \ lost

\* No wake-up is missed: the worker sleeps only in front of an empty queue.
NoLostWakeup == worker = "waiting" => queue = <<>>

\* A SIGUSR1 that came before the worker took an event is honoured for that
\* event: it is judged by the files of that moment or newer ones, unless
\* they do not load.  (g_reload_policy is cleared before the files are read.)
PolicyIsFresh ==
  \A i \in DOMAIN answers : answers[i].ok => answers[i].policy >= answers[i].owed

\* main frees the socket before it joins the worker; what limits the damage
\* is that the worker reads g_running between two events.
OneAnswerAfterFree == \A d, e \in afterFree : d = e

\* While the daemon runs, every event that reaches the queue is answered.
\* (It runs until it is told to stop or has no memory for another event.)
QueuedIsAnswered ==
  \A e \in Events :
    (\E i \in DOMAIN queue : queue[i] = e)
      ~> (~running \/ ~Alive \/ \E i \in DOMAIN answers : answers[i].ev = e)

\* Shutdown completes if the worker holds or finds an event after main left
\* its loop: it then looks at g_running once more.
ShutdownWithWork ==
  (main = "broadcast" /\ (queue # <<>> \/ ev # NoEvent)) ~> (main = "exited")

\* Intended, and not so: pthread_join returns, because at shutdown a waiter
\* is woken and "pop will return NULL when closed and empty" (queue.h:26).
\* Nothing closes the queue, so a worker that waits in queue_pop goes back
\* to waiting after the broadcast.
ShutdownCompletes == (main = "join") ~> (main = "exited")

-----------------------------------------------------------------------------
(* The inductive invariant behind the safety properties.                    *)

\* The socket is freed only when the daemon stops, and who answers after that
\* does not start another turn.
ShutdownInv ==
  /\ main \in {"free", "broadcast", "join", "exited"} => ~running
  /\ ~open => ~running
  /\ afterFree # {} => ~open /\ worker \in {"test", "exited"}

\* What the policy in memory owes to the last SIGUSR1.
FreshInv ==
  /\ owed <= signalled /\ signalled <= disk
  /\ ~reload /\ worker # "loading" /\ loadOk => policy >= signalled
  /\ worker = "judge" /\ loadOk => policy >= owed

\* Only what was multicast can get lost.
LostInv == lost \subseteq 1..sent

IInv ==
  /\ VarsOK /\ ControlInv /\ LostInv /\ FifoNoLoss /\ NoLostWakeup
  /\ ShutdownInv /\ OneAnswerAfterFree /\ FreshInv /\ PolicyIsFresh
=============================================================================
