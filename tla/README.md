# A TLA+ verification of Apolysis

Apolysis observes what AI agents do on a Linux machine. eBPF programs report
process, file and network effects of the cgroups and process trees they are told
to track; a daemon attributes each effect to an agent session that declared an
intent, writes it to a hash-chained timeline per session, and derives findings.
This directory models the part of the system where that evidence can silently go
wrong: who a cgroup is attributed to, what a timeline holds after failures,
whether the daemon's tasks can block one another, what it takes before the policy
engine may claim to have prevented something, and whether the tool that changes a
host for a validation can put it back. Every definition is
translated from the Rust source; `PROJECT.json` maps each to its lines.

Contents: [inventory](#inventory), [modules](#modules),
[runs](#runs-and-what-they-show), [fairness](#fairness),
[proofs](#proofs), [findings](#findings), [known deviations](#known-deviations),
[not modelled](#not-modelled), [plan](#plan).

## Inventory

| component | source | state | operations | what makes it correct |
|---|---|---|---|---|
| session registry | `apolysis-accountability/src/session.rs` | sessions with status, intent and cgroup list; cgroup index; waiting workloads and their counter | `register`, `renew`, `close`, `degrade`, `expire_at`, `associate_cgroup`, `discover_pending`, `apply_retention_for_tenant` | a cgroup is attributed only to a session that accounts for it; no cgroup changes hands silently; counters exact; limits respected; evidence forgotten only in order |
| event queue and pipeline | `queue.rs`, `apolysis-daemon/src/pipeline.rs` | five priority queues, depth, drop counters, admission flag, `Notify` | `submit` (any thread), `run_writer` (one task), abort | no accepted record vanishes unaccounted; no lost wakeup; a clean stop leaves nothing behind |
| hash-chained timeline | `apolysis-store/src/hash_chain.rs` | file, `BufWriter`, sequence, previous hash | `append_json`, `flush`, `create_or_recover` with quarantine | acknowledged records survive any crash; nothing is accepted that was not appended |
| daemon state | `apolysis-daemon/src/state.rs` | registry (behind an `RwLock`), stores, `paused_sessions`, `storage_writable` | `register_intent`, `renew_session`, `close_session`, `apply_retention`, `discover_cgroup`, `mark_session_degraded`, replay at start | registry, timelines and kernel scope agree |
| server and tasks | `server.rs`, `scope.rs`, `runtime.rs` | registry lock and its queue, bounded scope channel with oneshot replies, connection semaphore | serve, per-connection handlers with a timeout, observer `select!` loop, adapters, shutdown joins | no timeout leaks a lock or a reply; connections end; shutdown completes |
| runtime adapters | `adapter.rs` | seen containers, backlog, backoff | poll, inspect, ingest | every marked workload is discovered once |
| live observer | `apolysis-observer/src/live.rs` | managed child and its gate, drain deadline, counters | spawn or resolve, load, seed the scope, attach, release, read, end | the agent does not run before it is observed; the scope follows its tree; losses are announced; the observation ends |
| kernel programs | `ebpf/observer/apolysis_observer.bpf.c` | tracked cgroups, tracked pids, ring buffer | fork, exec, exit, file and network hooks | children of a tracked process are tracked, and nobody else |
| policy and enforcement | `apolysis-policy/src/lib.rs` | capabilities of the host: one backend, the actions it was shown to prevent | `detect`, `with_validated_block_prototype`, `resolve`, `evaluate_event`, `startup_downgrade` | a block is claimed only where live evidence shows it; everywhere else it is a recorded downgrade |
| observer's records, JSONL store, feedback | `apolysis-observer/src/lib.rs`, `apolysis-store/src/lib.rs`, `apolysis-feedback/src/lib.rs` | active file and archives, `BufWriter`, byte counter, two feedback files | append with rotation, policy evaluation of each event, `write_last_violation` | rotation costs only the oldest records; the feedback names the latest violation; no broken rule without its record |
| host validation | `apolysis-validation/src/lib.rs` (`apolysis-validate-host`) | the host's configuration files and services, the output directory with copies and three documents | capture, registration of the sandbox runtimes, restore | what a restore reports restored is what was captured; no torn file reaches the host; a registration can be undone |
| block gates and guardrail matrix | `apolysis-validation/src/lib.rs` and its tools | documents: reports, gate, enablement policy, audit, matrix | one tool per document | nothing is executed or called validated without live evidence an operator approved |
| runner, CLI, findings, visibility reports, redaction | the other crates | files and child processes | | |

Interactions. Handlers, adapters, the pipeline's writer and serve itself take the
registry's lock. Handlers and adapters, *holding it*, send track and untrack
requests to the observer task and await the reply; the observer takes the same
lock to attribute an event, which it then submits to the pipeline; the writer
appends to the session's timeline and, when that fails, degrades the session. A
restart rebuilds the registry from the timelines. Beside the daemon, an observer
started from the command line evaluates the policy for each event and writes
timeline and feedback itself. The validation tools are processes of their own
that meet only in files: what one printed, perhaps long ago, the next one reads.

What is hard: tasks that are dropped at an await (request timeout, shutdown
deadline) in the middle of an operation on three pieces of state; lock and reply
waiting on each other; torn and failed writes; a process that ends between two
steps; long legal sequences of register, close, renew, discover and purge that
leave the three copies of the cgroup ownership (session list, index, kernel map)
different; several files that are replaced one by one; documents that are old when
they are used. `PROJECT.json` lists each hazard at its line with the properties that
would catch it.

## Modules

| module | models | extends or instantiates |
|---|---|---|
| `SessionRegistry` | session.rs | |
| `EventPipeline` | pipeline.rs, queue.rs | |
| `AppendOnlyLog` | what a timeline promises (abstract specification) | |
| `HashChainStore` | hash_chain.rs and its use by state.rs | `AppendOnlyLog`, through a refinement mapping |
| `DaemonState` | state.rs | extends `SessionRegistry`, whose actions its own are conjoined with |
| `DaemonServer` | server.rs, scope.rs, runtime.rs, the ingest loop of adapter.rs as a client of the lock | |
| `RuntimeAdapter` | adapter.rs: the backends' scans and `run_runtime_adapter_with_policy` | |
| `LiveObserver` | `observe_live` (live.rs) for a process tree, and the scope programs of apolysis_observer.bpf.c | |
| `Enforcement` | apolysis-policy: decision tables as operators, without state | |
| `PolicyTimeline` | the records and feedback of an observer (observer lib.rs, store lib.rs, feedback lib.rs) | `Enforcement` |
| `BlockGates` | the block gates and the guardrail matrix of apolysis-validation, the capabilities of a policy engine | `Enforcement` |
| `HostRestore` | capture, registration and restore of apolysis-validation | |
| `SessionRegistryProofs`, `EventPipelineProofs`, `HashChainStoreProofs`, `DaemonServerProofs`, `LiveObserverProofs`, `RuntimeAdapterProofs`, `EnforcementProofs`, `HostRestoreProofs` | theorems | the module they are about (`SessionRegistryProofs`: `DaemonState` and with it `SessionRegistry`; `EnforcementProofs`: `BlockGates` and `PolicyTimeline`), `TLAPS` |
| `MC*` | instances for TLC | the module they instantiate |

**SessionRegistry.** One action per public method; a method that returns an error
changes nothing and is the action's guard. `sessions` and `cgroup_index` are
partial functions, `pending` the set of (session, cgroup) pairs of
`pending_workloads`, `pending_count` the separate counter the code keeps. Time is
a bounded clock; retention takes the time its caller names (`server.rs:583`),
which need not be the clock's.

**EventPipeline.** `submit` is five steps (admission check, lock, second check,
push, notify), since any thread may be between two of them; `run_writer` is one
step per await or atomic access. `tokio::sync::Notify` is external: one stored
permit. `accepted`, `handled`, `shed` are history variables. `pop` is strict about
priority, and nothing in the code bounds how often a record is overtaken:
`QueuedIsServed` says that a queued record is served unless records of a higher priority
come again and again. In the run each thread submits finitely many records, so there
every one is served.

**HashChainStore.** A line is two tokens, its start and its end with the newline,
so a torn write can stop between them; `file` is what the kernel has, `synced`
how much of it survives a power failure, `buffer` what the `BufWriter` holds. A
hash is the tuple of what it covers, an injective stand-in. `Stop` ends the process at
any point, also inside recovery. The `large` payload is one that does not fit the
buffer and is written through. `CorruptAtRest` alters one record while the daemon
is down. The quarantine copy is written with `fs::write`, which does not sync, so it is
first in the page cache (`cached`) and a power loss takes any of the cached ones; it may
also be left half-written. `cut` and `lost` are history: the tails that were cut off, and
those of them whose copy a power loss took afterwards. Taken for granted: a successful
`sync_data` covers all that was written before it, also after one that failed; the
directory entry of a new timeline survives with its contents; quarantine files have
distinct names.

**DaemonState.** An operation holds the write lock from its first read to the
publication of the changed clone, so it is one action, in variants: completed, not
persisted, dropped at an await. Work that outlives the lock is in `late`. A
timeline is the state `replay_active_session` reaches over its records.
`Disturbances` selects what may go wrong besides failed control records and
crashes. `lost` is a history variable.

**DaemonServer.** Each task has a step (`at`); the registry's lock is `holder` and
a FIFO `waiting` (tokio's fair `RwLock`; readers that only read and go on pass
through the head without holding it across an await). `requests` is the scope
channel, a caller that was dropped leaves its request with `live = FALSE`, and
`replied` are the callers whose oneshot was answered. The registry's contents are
left to `DaemonState`.

**RuntimeAdapter.** One adapter task over one of the five backends. A scan lists
(`listed`), for Kubernetes resolves every listed pod before it remembers any
(`resolved`; a pod's containers are one step), then filters the answer id by id into `pending`, without an await in
between; `remember_seen` writes `seen` before a container is inspected, and at
capacity gives up the first id in sorting order. The loop pops an id into `hand`,
inspects it, and ingests it in three steps that can each fail (associate, record,
report a missing intent). Every error of the backend is counted, sets the health to
Degraded and backs off; every `select!` of the loop may drop the backend's future
where it is. `containers` says of each pod whether all containers its status lists are
up, one has ended (it is inspected like the others and has no pid), or none has an id
(the whole list is then an error, which the model reports at the listing).
Counters saturate at `CounterMax`; `MaxFaults` bounds the failures that
have no lasting cause. `remembered`, `recorded`, `given_up` and `ingests` are
history. Left out: the lengths of delays, the parsing of the engines' JSON, and the
counter of missing intents.

**LiveObserver.** Observer and kernel together. `threads` is the machine: each
live number with its group, its parent and whether it belongs to the agent's tree
(a history fact no code can see). The kernel programs see numbers only:
`tracked` is APOLYSIS_TRACKED_PIDS, and a hook acts if it is attached and the
thread's own number or its group's is in the map. The observer spawns the gated
wrapper or resolves a registered process, loads, seeds the map from /proc, attaches
hook by hook, opens the gate, reads batches, polls the child, and leaves on a
signal, a duration or the drain deadline. A batch is read record by record
(`TakeRecord`) until the ring buffer is found empty; in between nothing else of the
observer runs, while the agent goes on. The events the histories count are bounded by
`MaxActivity`; past the bound the threads of a managed agent may write one more record again and
again (`KeepBusy`, `more`), so that the loop of `read_ring_batch` can be kept busy for
ever. Numbers are free again once thread and
group are gone (the managed child's only after `try_wait`). `escaped` and `strays`
are history: agent threads that left the scope, and entries that outlived their
thread, in one of the known ways (before the hook was attached; exec by a thread
that is not the leader). Foreign processes start and exit but do not fork. Event contents, truncation flags and scopes by cgroup are
left out.

**Enforcement.** Operators only: which list of the policy an event is held against,
which evidence `with_validated_block_prototype` accepts and what it changes, and
`resolve` with its fallback. Whether a path, endpoint or command matches an entry is
an input.

**PolicyTimeline.** One observer after the other on the same output path. An event
turns into two to four records (`RecordsOf`), appended one by one; `rotate` is one
step for the flush and the removal of the oldest archive, one per rename and one for
the new active file, and `Stop` may come between any two. `Spill` is the `BufWriter` writing part of
what it holds on its own. A record is its kind, its event and the decision; `session`
and `n` number the records, as history. Replacing a feedback file (temporary file,
sync, rename) is one step, since nothing reads the temporary one.

**HostRestore.** One process that runs one command at a time: each file captured,
document written, file rewritten or restored and service set is a step, and
`Abandon` ends the command after any of them. Copies and documents are written in
place and may be left torn; configuration files are replaced by a rename. A
document is the number of the capture that wrote it, so documents of several
captures can be mixed; `taken` is what each capture recorded. Contents are told apart
by origin and by whether the runtimes are registered in them. The administrator, who
is external, edits files and operates services at any time; `touched` is the history
of that.

**BlockGates.** Every tool is one action that reads the latest document of the tool
before it; the prototypes leave reports for good, other reports, requests and bundles
exist from the start, and `Reboot` changes what the host offers. Reasons and wording of
refusals are left out; a report keeps the fields the gates test. Adapter, gVisor,
Kubernetes and Kata evidence are reduced to whether the identifiers and booleans that
gate asks for are there. Gates over performance and release signing are not part of
the chain.

## Runs and what they show

| run | instance | states | properties |
|---|---|---|---|
| `session_registry` | 3 sessions, 2 cgroups, 2 tenants, 2 slots, windows {0,1}, time to 1 | 79,154 | `AttributionJustified`, `PendingCountExact`, `NoOwnershipTransfer`, `ForgottenInOrder` |
| `event_pipeline` | 2 threads with 2 records each, capacity 2, an ordinary and a protected priority | 338,480 | `CleanStopIsFinal`, `AcceptedConserved`, `NoLostWakeup`; live: `ShutdownEnds`, `QueuedIsServed` |
| `hash_chain_store` | 4 records, 2 crashes, 1 altered record | 245,752 | `ChainContinues`, `AckedIsRecoverable`, `ImplementsLog`, `CutTailsAreKept`, `MiddleCorruptionFailsClosed` |
| `daemon_state` | 2 sessions, 1 cgroup, every disturbance, any number of crashes | 577,102 | `RegistryMatchesDisk`, `AttributionAcrossRestarts` |
| `daemon_server` | 2 adapters, 2 clients, writer, observer, serve | 416,935 | `NoLockLeaked`, `OneReplyOwed` |
| `daemon_server_live` | 1 adapter, 1 client, writer, observer, serve | 7,150 | live: `RequestsEnd`, `ShutdownCompletes` |
| `live_observer` | 3 numbers, map of 2, ring buffer of 1, 3 acts of the agent, then any number of records of a managed one, both modes | 1,933,644 | `AgentTreeObserved`, `EntriesAreTheAgents`, `GateHolds`, `LossAnnounced`; live: `ObservationEnds` |
| `runtime_adapter` | 2 workloads, seen capacity 1 or 2, 1 fault, Docker, containerd, k3s, Kubernetes and one-shot | 313,836 | `NothingVanishes`, `PodsSurviveFailedScans`, `IngestedOnce`, `HealthIsHonest`; live: `MarkedIsTaken` |
| `policy_timeline` | 2 observers with 3 events each, 4 policies, 3 units per file, 2 archives | 584,366 | `TimelineHasNoGap`, `FeedbackIsLatest`, `ViolationsAreKept` |
| `host_restore` | 2 files, 1 service, 2 captures, any number of restores, 2 acts of the administrator | 3,597,631 | `RestoredIsCaptured`, `HostNeverTorn`, `RegistrationIsUndoable`, `ServicesRunRestored` |
| `block_gates` | both prototypes and 3 further reports in lists of up to 2, 6 requests, 8 bundles, 2 hosts | 108,352 | `ExecutedIsProven`, `BlockAsProven`, `MatrixIsBacked` |

One further run ends in a violation and is described under
[findings](#findings). Each property is preceded by a comment that says what it
means for the code, and each has a mutant of the code's model that violates it. The
type invariants are not among the runs' properties: each module's is proved (`TypeOK`,
`DaemonTypeOK` of the daemon, `TimelineTypeOK` of the timeline). The
further invariants that are only proved (`NoPendingForRegistered`,
`SessionCapacityRespected`, `DepthExact`, `SeenBounded`) are parts of the inductive
invariants below.

Bounds and why they are enough:

- three sessions for two slots and two cgroups let every capacity test fail and
  two sessions compete for a cgroup a third once listed; time 1 lets an intent
  expire, be renewed past the clock, and its window end before or after another's;
- a queue of two with four records reaches every path of `push` (room, shed an
  ordinary record, refuse); only ordinary and protected records differ in `push`,
  and two classes are enough for `pop` to prefer one. Two threads let one be
  between any two steps of `submit` while the other completes;
- two crashes put one inside the recovery from the other, and four records leave
  room for appends after both; one altered record is enough since validation stops
  at the first;
- one cgroup is enough for two sessions to disagree about; `MaxTime = 1` lets
  intents expire between a crash and the replay;
- two adapters and two clients put two waiters behind a holder of the lock; a
  channel of two can be full of dropped requests. The live run has one of each: the waiting cycle needs one
  adapter and the observer;
- three numbers are a leader, a thread of its group and a process that thread
  forks after the leader's exit, or a number used again by a foreign process; a map of two is
  full with three threads, a ring buffer of one with two events; three acts are
  enough for clone, fork or exec, and an effect. For the end of an
  observation the first is a fork that outlives the root, which writes on for ever after
  the last;
- two workloads evict each other from a seen set of one and both fit in a set of two;
  one marked by its sandbox only, or one pod on another node, is enough to separate
  the backends, and one pod whose containers come and go to fail the scans of the other. One fault beside the failures a stopping workload causes makes two
  runs of errors, which counters to two tell apart;
- a file of three units holds between one and three records, so a rotation falls before each kind of
  record; three events fill both archives and push the oldest out, and a second
  observer finds every interrupted rotation of the first. The policies
  ask for a block with each kind of fallback and for a kill; the events break a read
  list, a command list and the credential list, or none;
- two captures are the smallest number whose documents can be mixed. One file is
  rewritten and may be a link, the other is written afresh; two acts of the
  administrator suffice for a change between the captures or inside a command and a
  second one beside it. The service starts running, stopped or activating;
- each of the further reports falls short in one respect, or reuses the evidence id of
  the seccomp prototype for another backend and action; each bundle lacks one thing.
  Two reports in a list are enough for one to spoil, or to shadow, the other; requests are judged
  one by one, so lists of one suffice. The two hosts differ in seccomp and in whether
  the BPF-LSM program can be loaded.

Symmetry is used only in runs without temporal properties (the permuted values
are model values that no definition tells apart). Deadlock checking is off
wherever the system may stop: a pipeline that ended, a store that used its
crashes or refused a file, a daemon that cannot restart, a server that returned, the
last observer of a timeline.

## Fairness

*EventPipeline*: weak fairness of the writer task and of the steps of a thread
that is inside `submit` (it holds or waits for a mutex that is released after a
few instructions). No fairness for starting a submit, requesting shutdown or
aborting the writer.

*DaemonServer*: weak fairness of serve, of the observer's batch and of an
operator's enabled steps: the tokio runtime polls every task that can go on.
Strong fairness where a step is enabled only from time to time: the observer's
scope branch (`select!` picks among ready branches at random), the end of an
operation (it makes finitely many scope requests), and the timers (a passed
deadline stays passed, so a task that is again and again at an await is dropped
there). Nothing obliges a client to send or read, a workload to appear, an event to arrive,
a record to fail, or anybody to stop the daemon.

*LiveObserver*: weak fairness of reading a batch (it is a loop without an await); strong
fairness of the poll of the child (between two batches the loop always passes it, and
without a batch it comes around every 100 ms while the child runs) and, once the poll
found the child gone, of the drain deadline (`select!` chooses at random among ready
branches, and a passed deadline stays ready). Strong, since both are open only while no
batch is read. No fairness of the agent,
the signals, or the set-up, and none that ends a batch: `ObservationEnds` assumes that
no batch is read for ever (`BatchesEnd`), which nothing in the code ensures.

*RuntimeAdapter*: weak fairness of the task (it is scheduled, engine calls and
ingestions return). None for workloads, the signal, or the loop's leaving at it.
`MarkedIsTaken` assumes for Kubernetes that pods and their containers settle, and exempts
what a pod blocks (`Blockers`): one that comes and goes, is on another node, has a
container that ended, or no container id yet, fails every scan, for all pods.

*PolicyTimeline*, *HostRestore* and *BlockGates* state no fairness: they are about
what is on the disk, and nothing obliges anybody to run a tool, to run it to its
end, or to run it again.

## Proofs

The theorems hold for every value of the constants: every set of sessions, cgroups,
producers, adapters, clients, process numbers, paths, services, payloads, reports and
hosts, every capacity and every bound on faults, crashes, edits and activity, under the
named assumptions of the constants (finite sets, positive or natural bounds, a sentinel
outside the data; for `HostRestore` that a list names each path once and that the files
the host starts with, or an administrator writes, are not torn). Each invariant was
first checked by TLC on the instance of its run.

`SessionRegistryProofs` proves `TypeCorrect`, `PendingCounted`,
`AttributionSound`, `CapacitySound`, `RegisteredSound`,
`OwnershipNeverTransferred` and `RetentionOrdered`. The inductive invariant
`RegistryInv` is the conjunction of the five state invariants:
attribution needs that a registered session has no waiting workload (else
`register` could not justify the entries it takes over), that needs the counter
and the set to agree, and all need the types. The two action properties follow
from the same invariant, action by action: `NoOwnershipTransfer` rests on the
guard `Available`, `ForgottenInOrder` on retention being monotone in the end of
a session's window. The cardinalities rest on lemmas about finite sets.

The module extends `DaemonState`, and goes on with the registry inside the daemon:
every step but a start is a step of the registry (`RegistryPart`) and keeps
`RegistryInv`, and a start, which rebuilds the registry from the timelines, establishes
it anew (`RestartStep`). It proves `DaemonTypeCorrect`, `DiskSound`
(`RegistryMatchesDisk`) and `RestartAttributionSound` (`AttributionAcrossRestarts`).
`DaemonInv` strengthens the agreement in three ways that make it inductive. It holds for
an active session whose intent has run out as well: a renewal persists the new expiry
only, and the rest of the intent must be right already. A closed session's timeline says
closed, instead of only not being replayed now. And no session of the daemon is ever
Expired, nor Degraded without being paused (`Finished`), so that a renewal finds a
session that agrees or one that is exempt. The agreement is owed only while the storage
is writable; what a cancelled or unpersisted operation leaves does not enter it.

`EventPipelineProofs` proves `PipelineTypeCorrect`, `CleanStopSound`,
`DepthSound`, `WakeupSound` and `ConservationSound`. `PipelineInv` strengthens the checked invariants with
`MutexHeld` (a thread past the lock step is the holder), `CarriesRecord` and
`WriterHoldsRecord` (who carries which record at which step) and
`StoppingIsClosed` (a stopping writer closed admission): a clean stop is final only
because the thread that could still push holds the mutex the writer needs to see
the queue empty, and rechecks admission under it. `ConservedInv` adds what
`AcceptedConserved` needs to be inductive: each queue holds records of its priority,
each once (`Tidy`, so that a pop takes the record out of the queued ones), what was
shed is not queued, the writer's hand is empty when it pops, and a record on its way to
`push` is not among the accepted ones (`SubmittedIsNew`: each thread numbers its own
records, and none of its accepted ones has a higher number).

`HashChainStoreProofs` proves `ChainSound`, `RecoverySound`, `CutTailsSound`,
`MiddleCorruptionSound`, the refinement `StoreImplementsLog` and `StoreTypeCorrect`. `StoreInv` says that
starts and ends of lines alternate in what is written (`IsTokens`), that an open store
continues the chain written so far (`OpenInv`), that a store that is not open buffers
nothing (`ClosedInv`), that a tail about to be cut is in a quarantine file
(`QuarantineInv`), that an unaltered file is a chain with at most a torn tail (`Clean`),
and that the acknowledged records are a chain on stable storage (`AckedInv`). Nothing
of this needs induction over the file: the number of records a reader accepts is the
least position at which the chain breaks (`Least`), and two files that agree up to
there have the same one. `CopiesInv` carries `CutTailsSound` through power losses: a
cached copy is one that is there, and `QuarantineInv` says that the tail about to be cut
has its whole copy, not only a torn one. For the refinement every action is shown to be a step of the
log on the payloads a reader would get (`LogStep`); what is buffered counts as written
there, so a flush only makes records durable, and a failed write, a crash or a cut tail
only loses records that are not. For the types, `BoundsInv` says that the records handed
to write are numbered without a gap (`CountsTo`) and that what is written carries no
other number, so a recovery, which takes the number to go on from out of the file, stays
within them.

`DaemonServerProofs` proves `LockSound`, `ReplySound` and `ServerTypeCorrect`.
`LockInv` adds to `NoLockLeaked` that a task waits at one place of the lock's queue
(`WaitsOnce`), since a timeout that drops a waiter removes it once, and that the observer
is spawned after serve has read the tracked cgroups (`SpawnedLater`). `ReplyInv` states
`OneReplyOwed` without counting: at most one live request of a task is in the channel,
none when its answer is there, and one of the two exactly while it waits; `OwedCounted`
brings the cardinalities back.

`LiveObserverProofs` proves `ObserverTypeCorrect`, `ScopeFollowsAgent`,
`MapHoldsAgent`, `GateSound` and `LossSound`. `ObserverInv` is the types, the order of
the set-up (`SetupOrder`), the tree and the account of the events. `AgentTreeObserved`
is not inductive: a thread is in scope by its own number or its group's, and its group's
number goes when the leader exits. `EachTracked` says that each thread is in the map by
its own number, which the fork program puts there and only its own exit removes;
`RootTracked` keeps the root there until it passes the gate, even in a full map.


`RuntimeAdapterProofs` proves `AdapterTypeCorrect`, `SeenSetBounded`,
`NoWorkloadVanishes`, `PodsSurvive`, `HealthHonest` and `NeverIngestedTwice`, for
every set of workloads, backend, capacity and number of faults. `AdapterInv` adds
`StepsAgree` to the checked invariants: at which steps an id is in hand, that no
error is outstanding during an ingestion, and that a finding follows its record (an
id leaves the backlog only into the hand, and the hand is emptied only by a record, a
counted error or an unmarked answer). `OnceInv` proves that nothing is ingested twice from `RoomForAll`: with
room for every id nothing is evicted, so an id enters the backlog once, and is there,
in hand, or done.

`EnforcementProofs` is about both users of the policy engine; it extends both modules,
whose state has nothing in common (the gates' enablement policy is `enablement`, an
observer's policy is `policy`). Of the gates it proves `ExecutionProven`, `BlockProven`
and `MatrixBacked`, the three properties of `block_gates`, and `GatesTypeCorrect`, for
lists of any length and any documents.
`ChainInv` says what each document stands for when it is read: `GateSound` (a gate that
passed lists only known, validated reports), `PolicySound` (an approved request is
backed by such a report) and `ExecutedIsProven`; it is inductive because evidence is
only added (`BackedStays`). `EngineInv` says of a policy engine that every action in its
capabilities has adopted live evidence for it, and its backend some, and, where all
evidence is for one backend, that this is it; `BlockResolved`
reduces `resolve` to it. `MatrixBacked` rests on `CountedIsValidated` (the matrix's own
list of tests implies the validation gate's) and, for the cited runtime evidence, on
`BundleAssumption`: gVisor, Kubernetes and Kata evidence speaks for its own runtime,
which those three kinds of evidence have no field to say otherwise.

Of the timeline it proves `TimelineTypeCorrect`, `TimelineWhole` (`TimelineHasNoGap`),
`FeedbackSound` (`FeedbackIsLatest`) and `ViolationsSound` (`ViolationsAreKept`), for any
number of observers, events, archives and any length of lines; it assumes that policies
ask for decisions that exist, events are what `Canonicalize` reads and lines have a
length. The three properties speak of the places a record can be in (`Contents`: the
buffer, the active file, each archive) and never of the files joined together, so that
no step needs an induction over the archives: records of an older place come before
those of a newer one, the numbers of one observer's records form an interval, and
nothing else is said of their order. `OrderInv` makes that inductive. `StoreSound` says
what a rotation leaves between its steps: the place the next rename goes to is empty,
and so is the buffer. `Numbered` says that a record to come has a number nobody has.
`NewestSafe` is the delicate part: while a rotation is still to remove the oldest
archive, the newest record is in the active file or the buffer (`bytes > 0`, and at
least one archive), so it is not removed. A rotation or a truncating start drops whole
places from one end of the order (`DropKeeps`, `DropOldestContiguous`,
`DropNewestContiguous`), a flush, a spill or a rename keeps the set of records and the
order (`FlushKeeps`, `SpillKeeps`, `ShiftKeeps`), and an append adds the greatest record
(`AppendKeeps`).

`FeedbackInv` goes on from there: `TellingSound` counts that the violation being told
and its metadata are both appended once `todo` is empty, and `ToldSound` says that each
violation of the observer is the one being told, or both files name it or a later one.
`KeptSound` adds the records still to come to those in the store (`Everything`): what a
raw record calls for is among them behind it, and since a record is only ever removed
with all before it (`RemoveOldestOrdered`), never removed before the raw record.
`OutcomeOfRequest` is the decision table for a host without evidence: nothing is
prevented, a block and nothing else is downgraded, and only a policy that asks for allow
or falls back to it yields it.

`HostRestoreProofs` proves `HostWholeAlways`, `RegistrationUndoable`, `RestoreSound`,
`ServicesSound` and `HostTypeCorrect`. `HostInv` has three parts. `Whole`: whatever is on the host, loaded
by a service, captured, or about to be written is whole; only the copies in the output
directory may be torn, since they alone are written in place. `CaptureInv`: the copies
are checked before the first document names the capture, the documents are written one
by one, and from the rendering on all three name it. `RestoreInv`: the copies and
documents a restore checked stay as they are while it runs, so that at position n every
path before n that nobody touched is back, the path at n is half back as its phase
says (contents before owner), and the services before n run from files that were put
back before them. For the types, `Counted` says that no document names a capture that is
yet to come, and `Outcomes` what the last command can report.

Model-checked only: the six liveness properties, under fairness, which is out of the
prover's reach (it handles neither ENABLED nor the fairness of an action). Every other
property of a run is stated by a theorem, and so is the type invariant of every component.

## Findings

| run | what the code does |
|---|---|
| `restart_is_possible` | a waiting workload is forgotten at a restart and stays in its timeline; another session may claim the cgroup, and the next start fails on the conflict |

## Known deviations

Statements of the documentation that the code does not keep, and two that a reader of
the code may expect (`CutTailsSurvivePowerLoss`, `EndsWithTheAgent`). They are
definitions in the modules, TLC refutes each when it is added to the cfg of its module,
and the properties above are stated so as to hold beside them.

| definition | what the code does |
|---|---|
| `DaemonServer!ScopeCommandsProcessed` | the observer waits for the registry's lock inside its batch, while an adapter that holds the lock waits, without a timeout, for the observer |
| `LiveObserver!EverySideEffectCaptured` | an exit deletes the exiting thread's number from the map; when another thread of the group execs it takes the leader's number over, which the leader's exit has just deleted, and the process is observed no more, without a count |
| `LiveObserver!CompleteOrWarned` | the loop ends without a last read of the ring buffer, and the warning does not count what is left in it |
| `LiveObserver!EndsWithTheAgent` | `read_ring_batch` reads on as long as it finds records, without an await or a deadline (`live.rs:1566`): processes that outlive the agent and write as fast as it reads keep it there, and neither `try_wait` nor the drain deadline is looked at |
| `HashChainStore!CutTailsSurvivePowerLoss` | the quarantine copy is not synced (`hash_chain.rs:122`) before `set_len` cuts the tail (`hash_chain.rs:129`), so a power loss after the cut can take the only copy |

What follows was seen while modelling and has no definition of its own.

Of the pipeline: `pop` takes the highest priority first (`queue.rs:97`), so a stream of
protected records that never pauses starves ordinary ones.

Of the server and the daemon: an adapter spawned before the observer can hold the registry's write
lock while it awaits the observer, and serve needs that lock to spawn the observer
(`server.rs:117`); a cgroup discovered between `session_closed` and the next
`intent_registered` is attached to the live session and dropped by the replay
(`state.rs:650`). For an attached agent there is a gap between the reading of /proc and
the attachment of the fork and exit hooks (`live.rs:575-589`).

`deactivate` forgets the index entries of a session and keeps its cgroup list; a
later purge removes index entries by that list, also one that another tenant's
Active session owns by now, although `tests/socket_api.rs` says it "removes only
matching tenant state". Further consequences of the stale list, not run either: a
second close takes a cgroup that a waiting workload owns by now out
of the index and of the kernel's map; a session registered again after a close
lists cgroups that are not in the kernel's map, and every further close fails.
`mark_session_degraded` sends its untracks after it released the lock: one that comes
late takes a cgroup out of the kernel's map that another session has claimed and tracked
since, and no property is violated by it, for none speaks of that map
(`scope`). `paused_sessions` is not cleared by a registration or a renewal.
`RegistryMatchesDisk` exempts paused sessions because a late event of a closed
session degrades it (`state.rs:536`), after which a renewal makes it Active in the
registry while its timeline says closed; and it exempts sessions whose directory
a failed purge removed, since a purge names its own time and may name a future one.

Of the adapters: a seen set smaller than the number of marked containers evicts and
rediscovers them without a pause, and ingests them again (`IngestedOnce`
holds for sets that are large enough); a container that stops and
starts again under the same id is not rediscovered; one failing pod keeps the Kubernetes adapter from all
others, and it fails for good if it is on another node, or is Running with a container
that ended (a sidecar that completed has no pid, `adapter.rs:917`) or without a container
id (`adapter.rs:756`); an ingestion that fails after its association is
not retried; a scan that succeeds and finds nothing does not make a Degraded adapter
Ready again.

Of policy and enforcement: a policy that requests a block and falls back to allow
leaves neither a violation nor a downgrade in the timeline, since only decisions whose
effective kind is not allow are written (`ViolationsAreKept` exempts it). A second
accepted prototype replaces the backend and keeps the actions of the first
(apolysis-policy `lib.rs:538`), so a block may be ascribed to a backend that was not
shown to prevent that action; `BlockAsProven` promises the backend only where all
evidence is for one. `resolve` is public and takes the runtime as an argument; evidence of the
local runtime then also counts for Docker, containerd and Kubernetes with BPF-LSM.
`evaluate_event`, its only caller in the workspace, passes the runtime of the capabilities.

Of the block gates: a rollback in the audit records revokes nothing, and the execution
tool asks for no audit record; the BPF-LSM prototype takes any `PermissionDenied` for
the program's doing.

Of the host validation: documents of two captures pass the verification when kinds,
link targets and services agree; mode and owner, which are taken from the plan, are then
those of the other capture. A second capture into the same directory replaces the
copies of the first, also after a registration: what the host was before is then gone,
and a restore brings the registered files back (`RestoredIsCaptured` and
`RegistrationIsUndoable` speak of the capture behind the documents). `HostNeverTorn` is
about a process that ends at any point, not about a power loss: whether a renamed file's
contents are on the disk then is not modelled. `ServicesRunRestored` takes a restart of a
service to read the restored files, systemd drop-ins among them; the controller never
runs `daemon-reload` itself, so for a drop-in that holds only where somebody else has.

## Not modelled

Formatting, JSON, logging, metrics, health reports, redaction (string rewriting),
argument parsing, report generation and validation documents: they keep no state
the properties are about. The wire format of the control socket is represented by
the requests it carries. Cryptographic strength is assumed (hashes are injective).
Parsing of policies and the matching of paths and endpoints are inputs of
`Enforcement`. The performance gate and the gates over release signing check one
document without state. `AsyncJsonlStore` has no rotation. The runner and the analyzer are planned
below. `PROJECT.json` gives the reason for each component.

## Plan

Order of work, the most important behaviour first; the first block is done.

1. Done: `SessionRegistry`, `EventPipeline`, `HashChainStore` with
   `AppendOnlyLog`, `DaemonState` on top of `SessionRegistry`, `DaemonServer`,
   `LiveObserver`, `RuntimeAdapter`, `Enforcement` with `PolicyTimeline` and
   `BlockGates`, `HostRestore`; theorems about all of them, with the refinement of `AppendOnlyLog`.
2. `AgentRunner`: timeout, `kill_process_tree` from one reading of /proc, reaping;
   properties: no process of the tree survives that was there at the reading, and the
   wait for the child ends.
3. The contents of kernel events in `LiveObserver`: pending execs keyed by group,
   `ProcessContextTable` under lost and reordered exits; scopes by cgroup.
4. `AccountabilityAnalyzer` as operators, against a reference definition, and the
   intent correlation of the command line.
5. Theorems: with the modules of 2 and 3, their type invariants and the scope of a kill;
   of the present modules everything but liveness is proved.
