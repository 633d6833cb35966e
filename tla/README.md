# Verification of the quantum-enhanced IDS

TLA+ models, TLC runs and TLAPS proofs for the intrusion detection system in
this repository: a Linux kernel module that reports what processes do and
enforces verdicts, a user-space daemon that judges, a Go backend that shows and
configures, and an Angular frontend.  Paths below are relative to the
repository's root; line numbers are those of the modelled commit.

## 1. The system

```
 probes, hooks --event--> qks_send_msg --genl multicast--> socket --> g_queue --> worker
 (kernel/qks_syscalls.c,   |  pending table + timers         (daemon/qks_daemon.c, queue.c)
  kernel/qks_netfilter.c)  |  (kernel/qks_netlink.c)            |  policy.c, ml_service/
        ^                  v                                    |  sign (ML-DSA-44)
        |           qks_apply_verdict <---- signed verdict -----+--> events.jsonl
   drop list  <---- (kernel/qks_enforce.c)                              |
                                          backend: tailer -> event store -> HTTP, SSE -> frontend
                                          backend: PUT policy -> files + SIGUSR1 -> daemon
```

| Component | State | Operations | Talks to | What makes it correct |
|---|---|---|---|---|
| Probes (`kernel/qks_syscalls.c`) | registered kprobes | fill an event, send it | netlink | each call of interest becomes one event |
| Netfilter hooks (`kernel/qks_netfilter.c`) | none | look a packet up, drop, report | drop list, netlink | a banned packet is dropped, others pass |
| Pending table (`kernel/qks_netlink.c`) | xarray of records, a timer and a `done` flag per record | send, store, take, time out, apply | daemon, enforcement | one outcome per event, each record freed once, allowed only by a signed ALLOW |
| Signature check (`kernel/qks_sigverify.c`) | public key | verify | crypto API | accepts only what the daemon signed |
| Enforcement (`kernel/qks_enforce.c`) | drop list with expiry times | kill a process, ban a key | hooks, scheduler | a DENY acts on what was judged, for as long as it says |
| Kernel log (`kernel/qks_log.c`) | 16 KB ring | append, dump | /proc | stays within its buffer |
| Module life cycle (`kernel/qks_main.c`) | what is registered | init, exit | all of the above | nothing of an unloaded module runs |
| Daemon threads (`daemon/qks_daemon.c`, `daemon/queue.c`) | queue, `g_running`, `g_reload_policy` | receive, push, pop, signals, shutdown | kernel, backend's signals | order, no lost wake-up, reload honoured, shutdown ends |
| Verdict worker (`worker_thread_main`) | event at hand, two verdict buffers | judge, infer, sign, log, send | policy, ML server, kernel, file | the verdict sent is the one judged; it is logged first |
| Policy engine (`daemon/policy.c`) | the JSON tree | load, merge, evaluate | worker | precedence global, deny, allow, ml, default |
| ML buffer and client (`daemon/ml_service/`) | 1024 windows of counters | get, update, infer | ML server | counts of the last window of the right pid |
| ML server (`ml/ml_server.py`) | a model | answer a request | ML client | answers or closes |
| Event store (`backend/internal/eventstore`) | ring, head, count, totals | push, page, totals, time series | tailer, HTTP | the last N events, their counts |
| Tailer and stream (`backend/internal/tailer`, `api/events.go`) | file offset, subscribers | backfill, drain, reopen, broadcast | store, clients | every line once, in order |
| Policy handler (`backend/api/policy.go`, `policyreload`) | policy files, pid file | write, signal | daemon | files are never half written, the daemon hears of them |
| Authentication (backend, frontend interceptor) | token, refresh in flight | login, refresh, retry | each other | one refresh, no request waits for ever |
| Reports (metrics, status, model), panels, scripts | none of their own | read | | |

**What is hard.**  *Concurrency*: the record of an event is shared by the
sender, a timer callback and the netlink handler on different CPUs; two daemon
threads and signal handlers share a queue, flags and a socket; the tailer
follows a file another process writes.  *Failure*: no memory in atomic context,
a full socket, a daemon that dies and is restarted, an ML server that is gone,
silent or slow, signing that fails.  *Ordering*: multicast before store, arm
before store, log before send, free before join.  *Time*: the verdict deadline,
the ban of 30 s, the ML window.  *Bounds*: the ring, the socket, 64 lines per
subscriber, 1024 pids, 32-bit ids.  `PROJECT.json` lists each hazard at its
line with the properties that watch it, or the reason why none does.

## 2. Modules

| Module | Models | Source |
|---|---|---|
| `PendingVerdicts` | the pending table with sender, timer and verdict handler, access by access | `kernel/qks_netlink.c` |
| `DaemonQueue`, `DaemonQueueProofs` | the daemon's two threads, queue, signals, reload, shutdown; proofs about them | `daemon/qks_daemon.c`, `daemon/queue.c` |
| `VerdictPath` | kernel, worker, log file, ML answers, crash and restart, composed | `daemon/qks_daemon.c`, `kernel/qks_netlink.c`, `ml_client.c` |
| `MCVerdictPath`, `VerdictPathProofs` | its instance for TLC; proofs about it | |
| `DropList` | the packet drop list and the three hooks | `kernel/qks_enforce.c`, `kernel/qks_netfilter.c` |
| `Ban` | what the drop list promises: a ban counted from the last DENY | abstract |
| `KernelTablesProofs` | proofs about `PendingVerdicts`; `DropList` implements `Ban` | |
| `CJson`, `CJsonProofs` | tokens, parser, lookup with and without case, the edits of a tree, printing flat objects; proofs about them | `daemon/cJSON.c` |
| `PolicyEngine` | the conditions of rules, the order of lists, default actions, merging local rules | `daemon/policy.c` |
| `PolicyFiles` | the two policy files, their `.tmp` names and the handlers that write them | `backend/api/policy.go` |
| `PolicyReload`, `MCPolicyReload` | files and rule engine composed with the daemon's boot, reload and death; its instance for TLC | `daemon/qks_daemon.c`, `daemon/policy.c`, `policyreload/reload.go` |
| `PolicyReloadProofs` | proofs about the files, the daemon that reads them and the merge | |
| `Probes` | which event each probe and hook sends of a call | `kernel/qks_syscalls.c`, `kernel/qks_netfilter.c` |
| `MlBuffer` | counters per pid, windows, what is sent to the model and read there | `ml_buffer.c`, `ml_client.c`, `ml/ml_server.py` |
| `ProcessPath`, `MCProcessPath` | processes, threads and pids composed with probes, rule engine, buffer and kill; its instance for TLC | `kernel/qks_enforce.c`, `daemon/qks_daemon.c` |
| `ProcessPathProofs` | proofs about it | |
| `KernelLog` | the log's ring, lock and files in /proc | `kernel/qks_log.c` |
| `KernelModule` | `qks_init`, `qks_exit`, what is registered and armed in between and after | `kernel/qks_main.c` and the init and exit functions |
| `Keys` | key files, header, what daemon and kernel read of them, a verdict under them | `qks_keygen.c`, `qks_sigverify.c`, `qks_daemon.c` |
| `LifeCycle`, `MCLifeCycle` | module and keys composed with the life of the daemon; its instance for TLC | `daemon/qks_daemon.c` main, `qks-daemon.service` |
| `LifeCycleProofs` | proofs about it | |
| `EventStore` | ring buffer and running totals | `backend/internal/eventstore/store.go` |
| `RecentEvents` | what it promises: the last N events and their counts | abstract |
| `MCEventStore`, `EventStoreProofs` | its instance for TLC; `EventStore` implements `RecentEvents` | |

Definitions whose comment begins with *Slip* are not part of the model: each is
a variant of the definition below it with a mistake that is easily made there
(a timer not armed, a wake-up not sent).  They are named in `PROJECT.json`
under `mutants` and show that each property can fail.

### How state and actions correspond to the code

**PendingVerdicts.**  One record per event, named by the event's id, since
`qks_next_id` is an atomic 64-bit counter.  `pending` is the xarray, `mem[id]`
whether `p` is allocated, `done[id]` is `p->done`, `timer[id]` the state of
`p->tmo` and how far a running callback has got, `handler` where
`qks_cmd_verdict` is.  Handlers run one at a time because `qks_family` does not
set `parallel_ops`.  Each access to shared memory is an action: `StoreArm`
(lines 46-62), `StoreInsert` or `StoreFail` (64-80), `TimerXchg`, `TimerErase`,
`TimerGiveUp` (212-223), `VerdictTake`, `VerdictStopTimer`, `VerdictWin` or
`VerdictLose`, `VerdictApply` (113-154).  A read of a freed record returns any
value.  `timer_shutdown_sync` is modelled by what the kernel documents: it
waits for a running callback and no later one starts.  `authentic`, `outcome`,
`frees`, `overlap` and `badTouch` record what happened.  `overlap` collects the
records for which one of two windows was entered, see 5.

**DaemonQueue.**  Events are numbered in the order of their multicast.  `main`
and `worker` are control states; `Push`, `PopTake` and `PopWait` are one step
each because `queue_push` and `queue_pop` hold the mutex.  The socket's buffer
has a size; overflow loses the event and makes the next receive fail.  Policy
files are abstracted to a version number: `WritePolicy` is the backend's PUT,
`Sigusr1` its signal, `LoadPolicy` the worker's load, which may fail and keeps
the old version then.  A reload covers both files; the contents are the policy
engine's business.  `CopyNoMemory` is the copy of an event that `on_qks_msg`
takes without looking at what `malloc` returned: both threads end there.

**VerdictPath.**  `kernel[e]` is the fate of an event, `inbox` the socket and
queue together, `worker` the worker's control state and local variables, `log`
the lines of `events.jsonl`.  `Take` is `queue_pop` and `qks_policy_eval`, whose
result is any of ALLOW, DENY, UNKNOWN with any `suppress_log`, since all of them
can be configured; `Infer` is `ml_client_infer`; `Sign` builds the first
verdict, which is always an ALLOW; `Write` appends the line; `Send` builds the
DENY that replaces the first verdict and sends.  Sending includes the kernel's
handling, because generic netlink runs `doit` inside the sender's `sendmsg`, or
sends nothing when there is no memory for the message.
`Crash` empties inbox and worker; `Start` is systemd's `Restart=on-failure`.
Group and command are open to any process: `MulticastToOthers` is a multicast
that only others hear, so the event waits for a verdict although the daemon has
not got it, and `OthersVerdict` is a verdict of another process, which does not
verify and is enforced as a DENY (`foreign`).

**DropList.**  `expires` is the hash table as a function from keys to expiry
times; each list operation holds `qks_drop_lock`, so it is a step.  A hook looks
the packet up, then reports it or lets it go; `ApplyDeny` is the verdict that
comes later.  `DropAdd` may fail to insert for lack of memory.  There is no
case for `PACKET_IN` in `qks_apply_verdict`, so such a DENY lists nothing.  Pid 0
is among the pids of outgoing packets too, for the idle task.

**EventStore.**  The mutable fields of `Store`, with `Push` as in the source:
evict, advance, insert, count.  Readers are operators.

**CJson, PolicyEngine.**  A document is a sequence of tokens and its tree a
record per item, so that the parser, its failure on a cut text, and the
difference between the two lookups (`get_object_item` with and without case)
are those of the code.  A string is a sequence of words: prefix, suffix and
part are then what `strncmp` and `strstr` find, for texts cut at the borders of
words.  `Eval` is `qks_policy_eval`: global deny, global allow, the event's own
section (deny, allow, ml), default action.  `MergeLocal` is
`qks_policy_merge_local` with the copies that `cJSON_Duplicate` makes left out,
since values are copied here.  `NoName` is the NULL string of an item without a
name, and differs from the empty name.

**PolicyFiles, PolicyReload.**  Inodes are kept apart from names, because two
handlers that PUT one file share the name `<file>.tmp` and may write to an inode
that has been renamed under them.  `Put`, `Open`, `Write` or `WriteFails`,
`Rename` or its failure and `RemoveTmp`, `Signal` are the steps of `writePolicy`;
`BackendKilled` may come between any two.  The daemon's `Load` and `Merge` are
one step each, the two files are read at different times; a file is not written
while it is linked under its final name, except by a handler whose `.tmp` was
renamed, and such a write only grows it, so that reading in one step gives what
some reading in parts could give.  `daemon` is "boot" from the moment of
`write_pid_file`, which may fail (`pidFile`): no PUT reaches such a daemon, and
one that is reached before `Listen` ends (`Usr1`).  What a pid file of an earlier
daemon may hit is in `LifeCycle`.

**Probes, ProcessPath.**  `task[p]` is the task with pid `p`: thread or leader,
its user, its program, the probes its call has still to pass and the event it is
about to send.  `life` names a process for good, its pid only for a while.
`softirq[c]` is the event a packet hook on processor `c` has stamped and not sent
yet: of a packet that comes in (`ComesIn`), or of a SYN that the retransmission
timer sends again (`SentAgain`).  In the latter `current` is what the softirq
interrupted, the idle task with pid 0 or any task that lives; such an event has
the mark `FromTimer` in place of a process.
`Exec` is `de_thread`, in which the caller takes the group's pid and the other
threads end; `Clone`, `SetUid` and `Exit` are the other calls that change who is
who.  `Judge` takes the worker's answer and the kernel's action on it together;
how they are split is the subject of `VerdictPath` and `PendingVerdicts`, and
what is left of it here is `inTime`: a verdict after the deadline does nothing.
A task with a SIGKILL pending finishes no call with an effect.

**MlBuffer.**  `bufs` is `g_bufs`, a slot's counters a function from
their names.  `Expired` computes
the unsigned difference modulo `TsModulus`.  `Payload` builds and prints the
object, `ServerReads` parses it and picks the features by name.

**KernelLog, KernelModule.**  `phase` follows `qks_init` and `qks_exit`; the
calls of a part's init are one action, as nothing is called back that matters
before it returns.  `registered` are the entry points the kernel knows, `inside`
those being run, `timers` the armed timers of pending events; `dangling`,
`staleTimers` and `proc = "orphan"` are what is left of them when `FreeCode`
frees the module.  Unregistering waits until nobody is inside, and
`free_module` waits out an RCU grace period, as the kernel documents.  `harm`
collects what must not happen; the behaviour ends with the first harm, for what
follows is undefined.

**Keys, LifeCycle.** A pair of keys is a number and a signature the number of
its key. `SignedVerdict` is the message the worker sends for a decision, with
`suppress_log` as in the code: it is the first, signed ALLOW then. `keyFile`,
`header`, `kernelKey`, `g_pk`, `qks_sk` are the places a public or secret key
is read from or copied to. `daemon` follows `main` to the end of its start-up;
`fam_id` and `member` are the loads of the module whose family it resolved and
whose group it joined. `pidFile` is "stale" when a daemon that wrote it ended
without removing it. Under the unit `/run` is read-only, so the file is never
written there; without the unit it may fail to be. `policyFile` says whether
`policy.json` loads: `InstallHandlers` ends with return code 1 and the pid file
left behind when it does not, and `EditPolicy` makes the file a bad or a good
one. An end by `nl_socket_alloc` or `genl_connect` is a `Crash`.

## 3. Runs

| Run | Module, cfg | Expect | Shows |
|---|---|---|---|
| `pending` | `PendingVerdicts`, `MCPendingVerdicts.cfg` | pass | nothing leaks, races are confined, one outcome per event, ALLOW only if signed, every record is freed and every entry leaves |
| `pending_deny` | `PendingVerdicts`, `MCPendingDeny.cfg` | violation | the deadline does not deny |
| `pending_race` | `PendingVerdicts`, `MCPendingRace.cfg` | violation | verdict and timer meet on one record: access after free |
| `daemon_queue` | `DaemonQueue`, `MCDaemonQueue.cfg` | pass | order and completeness, no lost wake-up, reload, use of the freed socket, progress, until a copy finds no memory |
| `daemon_shutdown` | `DaemonQueue`, `MCDaemonShutdown.cfg` | violation | shutdown with an idle worker never ends |
| `event_store` | `MCEventStore` | pass | the ring implements `RecentEvents` |
| `drop_list` | `DropList`, `MCDropList.cfg` | pass | the list implements `Ban` |
| `verdict_path` | `MCVerdictPath` | pass | DENY is kept, what is enforced is logged unless another process denied it, the log is in order, across restarts |
| `path_suppressed` | `VerdictPath`, `MCPathSuppressed.cfg` | violation | a suppressed DENY is sent as an ALLOW |
| `policy` | `MCPolicyReload` | pass | policy files whole, in force and only as submitted; merging keeps denials and defaults but in named cases |
| `process_path` | `MCProcessPath` | pass | kills hit the caller or an owner of its pid, a DENY stops, counters are of one window and pid, but for SYNs sent again, and read by name |
| `life_cycle` | `MCLifeCycle` | pass | freed code and memory reached in named ways only, an ALLOW needs one pair of keys and no DENY that is not suppressed, the daemon comes up once keys and policy load |

**Bounds.** `pending`: two events, two verdicts each, and a deadline that may
pass before the record is stored. Events do not interact except through the one
verdict handler, for which two are enough; a second verdict is the shortest
repeat. `daemon_queue`: three events over a socket of two, so the socket
overflows and the queue holds more than one event; two new policy versions, so
that a signal can come for each, before and during a load. `event_store`: a
ring of three wraps around with a slot between oldest and newest; the events
differ in everything the totals read. `drop_list`: a ban of two ticks and five
ticks of time let an entry be added, prolonged, expire and be added again; two
events wait at once; one of the two ports is suspicious, the other is DNS.
`verdict_path`: three events and one crash give an event handled before the
crash, one lost in it and one after it. `policy`: two handlers and two PUTs,
which one after the other or at one time write one file or both, each from one
of two documents of unequal length, so that what is left of the longer one may
follow the shorter; one document is the installed one. Between them the
documents use the conditions and sections of the shipped policies and the cases
merging tells apart (a section or list the base lacks, a scalar, names in
capitals, and with `OddLocal` sections, lists and a default of a wrong type). A
write is cut after four tokens, inside the document; eleven events reach every
section. The daemon is started again once. `process_path`: three pids and three
processes, one of them init, so that a pid can be given away and used again and
a thread can lead its group after an exec; two slots for three pids and pid 0,
so the table is full; a window of one tick in a time of two. What occurs
together is bounded by `Mixes`: changes of user, exec with new processes, exec
with new threads, the other calls and packets, and packets stamped in one order
and sent in another; a SYN may be sent again, in the context of the idle task
or of any task, in the combination with the other calls. `life_cycle`: two
loads, one more pair of keys, up to two deaths of the daemon and changes of its
policy, one PUT, in the five combinations `Lives`: every kind of kernel with
events; packets and a reader of the log; the module loaded again under a daemon
that dies and whose policy turns bad and good again; new keys; a daemon started
by hand, with a pid file or without, and with a bad policy. A ring of three
bytes wraps at each length of line. The largest runs are `verdict_path` with
3.2 million, `life_cycle` with 330,000, `daemon_queue` with 148,000,
`process_path` with 116,000 and `policy` with 80,000 distinct states. The
proofs in section 5 drop the bounds where they exist.

**Deadlock** is checked except in the runs of `VerdictPath`, where the system
stops when all events are settled and the daemon may not die again, and in
`policy`, `process_path` and `life_cycle`, which stop when their bounds are used
up, the last one also at the first harm.  None of the three has a step that
waits for another party without end; the deadlock of the log's lock is one of
the harms of `life_cycle`.
`PendingVerdicts` and `DaemonQueue` have an explicit stuttering action for
their legitimate ends (`Quiescent`, `AtRest`), so any other stop is reported.
A daemon that hangs in `pthread_join` is such a stop only for its main thread:
it shows up in `ShutdownCompletes`.

**Fairness.**  `PendingVerdicts`: a task that is inside `qks_send_msg` or
`qks_cmd_verdict` goes on, and an armed timer fires and its callback runs to
its end; the kernel's scheduler and timer wheel see to that.  Nothing makes a
daemon answer.  `DaemonQueue`: both threads are scheduled; nobody has to send
events or signals, and a waiting worker has to be woken.  Fairness of `Answer`
assumes that the ML server answers or closes the connection, which the code
does not enforce: `ml_client_infer` receives without a timeout
(`ml_client.c:70`), and this is on the list of hazards.  `LifeCycle`: the
daemon goes on with its start-up, `qks_init` runs on, a dump of the log ends,
and systemd starts a failed daemon again (`Restart=on-failure` with
`RestartSec=5` never reaches the default limit of starts).  Nobody has to load
or unload the module, start or stop the unit, or make keys.  The other modules
state safety only.

In `daemon_queue` a daemon that ran out of memory (`CopyNoMemory`) owes nothing:
`QueuedIsAnswered` says that a queued event is answered or the process has ended.

## 4. Findings

1. `pending_deny`: the deadline logs "-> DENY" and enforces nothing
   (`kernel/qks_netlink.c:218-220` against line 23).
2. `pending_race`: the verdict handler and the timer callback can both free the
   record (`kernel/qks_netlink.c:113-126` and 212-223 against the comments in
   119 and 122).
3. `daemon_shutdown`: nobody calls `queue_close`; an idle worker never ends
   (`daemon/qks_daemon.c:680-682` against `daemon/queue.h:26`).
4. `path_suppressed`: a DENY with `suppress_log` is sent as a signed ALLOW
   (`daemon/qks_daemon.c:524`, 561, 597 against 551).  In the shipped policy
   only allow rules have `suppress_log`; the code accepts it on any rule.

Where the code disagrees with itself without a document or a test that says
which side is meant, there is no run of its own; where a model comes near it
follows the code:

- A port is suspicious for the hooks by one list (`kernel/qks_netfilter.c`) and
  for the counters by another, after `ntohs` on a port that is in host order
  already (`ml_buffer.c:68`); the training data counts by a third.
- The window of the counters is one second per pid (`ml_buffer.h`); training
  aggregates five seconds per program (`ml/dataset_builder.py`).
- `PF_KTHREAD` is tested on `current`, which is the daemon that sends the
  verdict, not on the task to be killed (`qks_enforce.c:61`).
- Children that a process forks before its verdict live on when it is killed.
- The unit makes `/run` read-only except for `/run/qks`, so the daemon's pid
  file cannot be written and a PUT never reaches a daemon that runs as the unit;
  it enforces a new policy from its next start on.
- A `qks_init` that fails after `qks_log_init` leaves `/proc/qks` behind, so the
  module cannot be loaded again before a reboot (`qks_main.c:25-38`).
- A local policy file of another form than the shipped ones takes away what the
  base file says: a section or list of a wrong type, or in another spelling,
  replaces the base's and is then not found (`policy.c:131-143`; `cJSON.c`
  looks names up without case when it replaces).  A local deny list is dropped
  when the section came from a file that has none (`policy.c:136-140`).
- A SYN that is sent again from a timer is reported, counted and looked up in the
  drop list under the pid of the task the timer interrupted, 0 for the idle task
  (`qks_netfilter.c:129`, 155).
- A verdict that does not verify is enforced as a DENY whoever sent it, and the
  daemon's own one, which comes later, is then unknown (`qks_netlink.c:113-139`);
  the line in `events.jsonl` may say ALLOW.
- The kernel's key array has 1952 bytes of which 1312 are the key.
- A daemon that resolved the family before the module was loaded again and joined
  the group after it hears every event and answers none (`qks_daemon.c:641-660`).

The passing properties are stated so that they hold with these behaviours in
the model: `RaceConfined` and `DecidedOnce` except the two windows, `DenyIsKept`
except suppressed rules, `EnforcedIsLogged` except what another process denied,
`OneKey` with the DENY of a suppressed rule among what is allowed,
`ShutdownWithWork` for a worker that still has work,
`WholeUnlessShared` except files two handlers wrote at one time,
`InForceIsOnDisk` except such files, a backend killed before it signals and a
daemon without a pid file, `SlotIsOfPid` except SYNs sent again, `ComesUp` except
a daemon that joined the group of an earlier load,
`EnforcedWasSubmitted` except documents made of two bodies, `LocalDenyHeard` and
`DefaultStays` except the ways in which merging loses a rule or the default,
`KillsConfined` and `HarmConfined` with the ways a kill or a harm can go wrong.

## 5. Proofs

Eight proof modules, checked to the last leaf by `tlapm` (SMT, Zenon, LS4).
Together they prove every invariant and every action property that a passing
run checks, and all refinements.  Every inductive invariant below was checked by
TLC on the instance of its run before it was proved.  The assumptions are the
`ASSUME`s of the modules; what is not said to be an assumption is arbitrary: how
many events, processors, pids, handlers, documents, loads and keys there are, how
large tables and buffers are, what the policy says and what the model answers.

**KernelTablesProofs, pending table**, from `PendingAssumption` (the bounds are numbers).
`Invariance` proves `IInv`: types, `NoLeak`, `AllowIsAuthentic` with
`GenuineIsSigned`, and `RecordInv` for each record.  `RaceConfined` and
`DecidedOnce` are not inductive alone: that a record is freed once depends on
who may still free it.  `RecordInv` says that outside the windows a live record
has exactly one such party, told by its timer, `done` and the handler's
position, and that a freed record has none.  The two windows (`overlap`) are: the
callback has set `done` while the handler holds the record or takes it, and the
callback erased before the sender stored.  The proof shows that there is
no third.  Theorems: `TypeCorrect`, `NoRecordLeaks`, `RacesAreConfined`,
`OneDecision`, `Authenticity`.

**KernelTablesProofs, drop list**, from `DropAssumption`.  The refinement mapping `Left` turns
an expiry time into the ticks left of a ban.  Purging changes no `Left`, a tick
lowers each by one, `DropAdd` sets one to `TTL`, or fails and is a stutter,
and `ShouldBlock` is `Left > 0`.  `DropListRefines` follows step by step.

**DaemonQueueProofs**, from `QueueAssumption` (the socket holds at least one
event).  `QueueInvariance` proves `IInv`.  `FifoNoLoss` needs `ControlInv`, which
is part of `TypeOK`: a thread holds an event exactly at the program points on its
way with it, or died with it.
`NoLostWakeup` says that the worker is in `pthread_cond_wait` only in front of
an empty queue.  `PolicyIsFresh` follows from `FreshInv`, what the policy in memory owes: if
the flag is down, no load is under way and the last one did not fail, the
version in memory is at least that of the last signal.  The flag is cleared before the load, so a signal that
comes during one raises it again.  `OneAnswerAfterFree` needs `ShutdownInv`: the
socket is freed after `g_running` went down, so who answers after that finds it
down at the next turn.  Theorems: `QueueTypeCorrect`, `QueueInOrder`,
`WakeupKept`, `PolicyFresh`, `OneAfterFree`.

**VerdictPathProofs**, from `PathAssumption`.  `IInv` adds to `DenyIsKept` and
`EnforcedIsLogged` that the daemon holds an event in one place only and none
that is enforced already, unless as a DENY that another process sent
(`HeldOnce`), and that what the worker has prepared is what was judged and logged
(`WorkerInv`).  Such a DENY is final, since the record is gone: a verdict the
daemon sends later changes nothing, so it can neither turn into an ALLOW nor lose
its mark.  Without `HeldOnce` an event could be
judged again after its enforcement.  `LogInOrder` has an invariant of its own,
`OrderInv`: log, worker and inbox, one behind the other, are in the order of the
multicasts, through which a crash only makes a gap.  Theorems:
`PathTypeCorrect`, `DenyKept`, `LoggedBeforeEnforced`, `LogOrdered`.

**CJsonProofs**, from `JsonAssumption` (a document may be nested once), about
texts of any length.  `Parser` is a recursive function of a place in the text and
a depth; `ParserSteps` shows that it exists, by induction over the rank of a call
(its place, and whether a list asks), and everything else unfolds it.
`ParserIgnoresTail`: a text that parses gives the same tree with any tokens
behind it.  `ParserWantsAll`: no proper prefix of a document that ends at its last
token parses.  Both are proved as minimal counterexamples, the least rank at which
two texts are parsed differently.  `ItemAt` and `ItemSome` say that a lookup finds
the first member of its name and none behind a member without a name,
`IndexOfFinds` the same for the lookup without case.  `NumbersSurvive`: an object
of any number of numbers that is printed and parsed is the same object;
`JoinsThrees` says at which index of the text each token of a member is, by
induction over the printer's loop, and `ParsesNumbers` goes back from the last
member to the first.  The induction itself is `UpTo`, over a set of numbers, since
an induction over a predicate cannot be cited.

**PolicyReloadProofs**, from `FilesAssumption` (bodies are texts over the tokens),
`DocumentsAssumption` (each body is one JSON value to its last token, which
`json.Valid` in `writePolicy` ensures, not nested too deeply for cJSON),
`EventsAssumption` (events are of the five types), `JsonAssumption` and
`BootsAssumption`.

*The files.*  `FilesInvariance` proves `FilesInv`.  `WholeUnlessShared` rests on
`InodesInv`: an inode serves one file, as the file, as its `.tmp` or open for
it, and what is linked as the file is not linked as `.tmp`; and on `AloneInv`:
while nobody else has the `.tmp` of its file open, a PUT has open what `.tmp`
links, with nothing in it before its write and its body after it.
`ReloadImplementsFiles` shows that the composition with the daemon is, seen
from the files, the specification of the files, so `FilesInv` holds in it too
(`WholeFilesToDaemon`).

*What is in force.*  `InForce` needs `InForceInv`: the tree a daemon that wrote
its pid file has merged is that of the files, unless a reload is due or a handler
is still to signal.  `EnforcedSubmitted` needs `SubmittedInv`: whatever an
inode contains, at any moment of any writes, parses to a document that was
installed or submitted or not at all.  That is where the two theorems about the
parser come in, since two handlers may have one inode open and write over each
other, and a write may be cut anywhere.

*What merging makes of it.*  `PolicyTypeCorrect` proves `TypeOK`: what is in
force, loaded and merged is a tree, as deep as merging looks into it.
`ParseGivesTree` shows that of any text, one level at a time, and
`MergeKeepsTrees` that merging any local document, also one of a wrong form, keeps
it: a replaced item has a type, and a list is appended to only where both are
lists.  `DefaultKept` needs `DefaultInv`, which is `DefaultStays` also
between a load and its merge: each item that is merged keeps the default or
displaces it, and one that displaces it is among the local file's members.
`DenyFinal` and `LocalDenyIsHeard` need `RulesInv`, proved in `RulesInvariance`:
if base and local trees are of the shipped form, so is the tree in force; each
section the base had is there, its lists have grown and none was added
(`Grown`); each list of each merged tree is contained in that of the tree in
force, or an earlier tree brought the section without it; and a list that a
section lacks it lacks since it came.  The last clause is what makes the
invariant inductive: without it the next local file's list might be
lost although every earlier file had one.  The step is an induction over the
local file's sections and in it over the lists of one.  That more rules never
turn a DENY is then a fact about `Eval`: it asks for some rule of a list, deny
before allow, global before section.

**LifeCycleProofs**, from the assumptions on the bounds.  `LifeInvariance` proves
`LifeInv`: `PhaseInv` (what is registered, and whose the log and the files in
/proc are, at each step of `qks_init` and `qks_exit` and after each failure of
the former), `LeftInv` (nothing dangles and no timer is left but after an unload
with pending events or a failed init that had created /proc/qks), `CountInv`,
and `InstalledKeys` (until `qks_keygen` runs again, every copy of a key is of the
pair that was installed).  `HarmConfined` and `OneKey` follow only together with
these; `OneKey` then goes through the decisions, with `suppress_log` and without,
and looks at which of the two messages is sent.  Theorems: `LifeTypeCorrect`, `HarmIsConfined`, `OneKeyHolds`.

**ProcessPathProofs**, from `PathAssumption` and `BufferAssumption`: pids 1 to 3
exist, calls are of the probed ones, and time does not use up 64 bits of
nanoseconds.  `PathInvariance` proves `PathInv`.  `DenyStops` needs to know that
the kill finds the process: `TasksTypeOK` and `TasksInv` say that every task has
a leader that lives, in a process that no other group shares, and `EventsInv`
that as long as a process lives its leader has the pid that the leader's events
name, from the probe through both ends of the socket: `exec` of another thread
moves a task to the leader's pid, not the leader to another.  `SlotIsOfPid` needs
from `EventsInv` that who caused an event had its pid by then, however late it is
counted, and that an event marked `FromTimer` is an outgoing packet.  `WindowSpan` needs `SlotsInv`: a window begins in the past, so the
unsigned difference of an event from before it is far larger than a window; the
assumption on time is what makes it so.  `KillsConfined` and `ScoredUnlessFull`
are action properties: only the worker's step kills (`NobodyKilled` in every
other) or takes from the inbox, and `SlotOf` finds a slot of the pid, or a free
one, unless each is another pid's.  `ServerReadsAll` needs no invariant:
`AddsNumbers` turns the calls of `cJSON_AddNumberToObject` into the object of the
features, `NumbersSurvive` takes it through printer and parser, and `SentAre`
says that each feature that is sent is one of the server's, with the value the
server takes it to have, and that none of the server's is left out.  Theorems:
`PathTypeCorrect`, `DeniedIsStopped`, `OneWindow`, `OwnCounts`,
`KillsAreConfined`, `CountedUnlessFull`, `ServerReadsAll`.

**EventStoreProofs**, from `StoreAssumption`.  `RingInv` says that the ring
fills from slot 0, that `head` moves only in a full ring, and that the totals
count the events kept.  `StoreRefines` shows that the initial state maps to that
of `RecentEvents` and each `Push` to its `Push`: in a full ring the slot that is
overwritten is the oldest, so the sequence loses its head and gains a tail.  The
lemmas count the members of a sequence by the cardinality of an index set.

**Model-checked only**: all liveness (`EveryRecordFreed`, `EveryEntryLeaves`,
`QueuedIsAnswered`, `ShutdownWithWork`, `ComesUp`), which is out of the prover's
reach: it has no rules for fairness and `ENABLED`.  And that the code does *not*
keep what the four findings quote: a violation is a behaviour, which TLC shows.
The matching of file name patterns is a recursive function about which nothing
is proved; the proofs about the rules hold for any outcome of it.

## 6. Not modelled

- Cryptography beyond "a signature verifies under the key of its pair": the
  arithmetic of ML-DSA and SHA-256, PQClean, random bytes.
- Text: the wording of log lines and answers, headers of packets and DNS names
  (a packet is what the hooks decide on), literals and numbers of JSON cut in
  their middle (a text is cut between tokens).
- The neural network, training and data set scripts: offline, or a function
  from features to a score that the models leave open.
- The backend's tailer and event stream, the readers of the event store (paging,
  time series), its read-only reports, authentication, and the frontend: see the
  plan.
- Contexts of the kernel (softirq against process context) but for the log's
  lock in `life_cycle`, the order in which softirqs send and the task they
  interrupt in `process_path`; that the xarray's lock is taken in both contexts
  without disabling interrupts is on the hazard list.  Weak memory: the accesses of
  interest are atomic operations or under locks.
- 32-bit event ids in verdicts: ids are opaque, 2^32 events are out of reach.
- The operator's `qks-daemon-ctl.sh reload-policy` sends the SIGUSR1 of a PUT
  without a PUT.  In `DaemonQueue` a SIGUSR1 may come at any time; in `PolicyReload`
  it comes with a PUT, as each further one would only merge the same files
  again.
- `qks_keygen` is taken to run in the daemon's directory, and the operator to
  build the module with a whole key.

## 7. Plan

In order of weight.

1. An abstract gate, one outcome per event, that `VerdictPath` implements.
2. `Tailer`: writer, backfill, seek, drain with torn lines, rotation, subscribers
   with full channels; composed with `EventStore` through the order of pushes.
   To check: what is stored and streamed is in the order of the file, without
   duplicates; what is lost is lost in named windows.
3. Operators of the event store's readers (paging, time series) against set
   definitions.
4. `TokenRefresh`: interceptor and backend, requests that wait, a refresh that
   fails or is intercepted itself.
