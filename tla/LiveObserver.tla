---------------------------- MODULE LiveObserver ----------------------------
(***************************************************************************)
(* observe_live of apolysis-observer (live.rs) for one process tree, and   *)
(* the scope its eBPF programs keep (apolysis_observer.bpf.c).             *)
(*                                                                         *)
(* The agent is started by the observer behind a gate ("managed") or runs  *)
(* already ("attached", by a registration or by discovery).  The kernel    *)
(* programs decide by the numbers in APOLYSIS_TRACKED_PIDS which thread is *)
(* observed, while the agent's threads clone, exec and exit and their      *)
(* numbers are used again.  A record in the ring buffer stands for any     *)
(* event; its contents, truncation and the pending exec are left out.      *)
(* Beyond a bound on what the agent does, its system calls go on without   *)
(* end but are no longer counted.                                          *)
(***************************************************************************)
EXTENDS Naturals, Sequences, FiniteSets

CONSTANTS
  Pids,          \* numbers of threads and processes
  Root,          \* the number the observation is asked for
  Init1,         \* the parent of orphans
  Modes,         \* subset of {"managed", "attached"}
  MapCapacity,   \* entries of APOLYSIS_TRACKED_PIDS
  RingCapacity,  \* records APOLYSIS_EVENTS has room for
  MaxActivity    \* bound on what the histories count of the agent, exits aside

ASSUME ObserverAssumption ==
  /\ IsFiniteSet(Pids)
  /\ Root \in Pids
  /\ Init1 \notin Pids
  /\ Modes \subseteq {"managed", "attached"}
  /\ MapCapacity \in Nat \ {0}
  /\ RingCapacity \in Nat
  /\ MaxActivity \in Nat

VARIABLES
  mode,
  step,              \* where observe_live is
  attached,          \* how many of the Hooks are attached
  gate,              \* the pipe the managed wrapper reads from
  reaped,            \* agent_exit_status is known
  threads,           \* the live threads: group, parent process, in the agent's tree
  tracked,           \* APOLYSIS_TRACKED_PIDS
  ring,              \* records in APOLYSIS_EVENTS
  more,              \* one of the uncounted activity is there too
  reserve_failures,
  map_pressure,
  batch,             \* records read_ring_batch has taken so far
  raw_count,         \* records written to the timeline
  decode_failures,
  warned,            \* the warning about incomplete evidence was given
  activity,          \* history: what the agent did, for the bound
  owed,              \* history: events of observed threads since the hooks are attached
  escaped,           \* history: agent threads that left the scope in one of two known ways
  strays             \* history: entries of the map that outlived their thread

kernelVars == <<threads, tracked, ring, more, reserve_failures, map_pressure, activity, owed, escaped, strays>>
readVars == <<batch, raw_count, decode_failures, warned>>
observerVars == <<mode, step, attached, gate, reaped, readVars>>
vars == <<mode, step, attached, gate, reaped, kernelVars, readVars>>

\* The tracepoints in the order of AyaLoaderPlan; the nine of the system calls
\* are one.
Hooks == <<"sched_process_exec", "sched_process_fork", "sched_process_exit", "sys_enter">>

Attached(hook) == \E i \in 1..attached : Hooks[i] = hook

Steps ==
  {"start", "ready", "loaded", "configured", "released", "observing", "reading", "ended", "failed"}

Live == DOMAIN threads

Agent == {t \in Live : threads[t].agent}

Thread(tgid, parent, agent) == [tgid |-> tgid, parent |-> parent, agent |-> agent]

Group(pid) == {t \in Live : threads[t].tgid = pid}

Add(f, x, y) == [z \in DOMAIN f \cup {x} |-> IF z = x THEN y ELSE f[z]]

\* A number is used again once its thread and its group are gone, and the
\* managed child only once the observer waited for it.
Free(n) ==
  /\ n \notin Live
  /\ Group(n) = {}
  /\ ~(mode = "managed" /\ n = Root /\ ~reaped)

TypeOK ==
  /\ mode \in Modes
  /\ step \in Steps
  /\ attached \in 0..Len(Hooks)
  /\ gate \in {"none", "shut", "open", "passed"}
  /\ reaped \in BOOLEAN
  /\ Live \subseteq Pids
  /\ \A t \in Live : threads[t] \in [tgid : Pids, parent : Pids \cup {Init1}, agent : BOOLEAN]
  /\ tracked \subseteq Pids /\ Cardinality(tracked) <= MapCapacity
  /\ ring \in 0..RingCapacity
  /\ more \in BOOLEAN
  /\ batch \in Nat
  /\ {reserve_failures, map_pressure, raw_count, decode_failures} \subseteq Nat
  /\ warned \in BOOLEAN
  /\ activity \in 0..MaxActivity
  /\ owed \in Nat
  /\ escaped \subseteq Agent
  /\ strays \subseteq tracked

Init ==
  /\ mode \in Modes
  /\ step = "start"
  /\ attached = 0
  /\ gate = "none"
  /\ reaped = FALSE
  /\ threads = [t \in IF mode = "attached" THEN {Root} ELSE {} |-> Thread(Root, Init1, TRUE)]
  /\ tracked = {}
  /\ ring = 0
  /\ more = FALSE
  /\ batch = 0
  /\ reserve_failures = 0
  /\ map_pressure = 0
  /\ raw_count = 0
  /\ decode_failures = 0
  /\ warned = FALSE
  /\ activity = 0
  /\ owed = 0
  /\ escaped = {}
  /\ strays = {}
-----------------------------------------------------------------------------
(***************************************************************************)
(* The kernel programs.                                                    *)
(***************************************************************************)

\* Mutant: only the group's number is looked up.
InScope_ByGroup(tid, tgid) == tgid \in tracked

\* current_pid_tree_is_tracked.
InScope(tid, tgid) == tgid \in tracked \/ tid \in tracked

ThreadInScope(t) == InScope(t, threads[t].tgid)

Room == ring + (IF more THEN 1 ELSE 0) < RingCapacity

\* reserve_event and bpf_ringbuf_submit.
ReserveEvent(inScope) ==
  /\ ring' = IF inScope /\ Room THEN ring + 1 ELSE ring
  /\ reserve_failures' = IF inScope /\ ~Room THEN reserve_failures + 1 ELSE reserve_failures
  /\ UNCHANGED more

Fires(hook, t) == ReserveEvent(Attached(hook) /\ ThreadInScope(t))

\* Once every hook is attached each event of an agent thread is owed to the
\* timeline, save of those known to have left the scope.
Owes(t) == owed' = IF attached = Len(Hooks) /\ t \in Agent \ escaped THEN owed + 1 ELSE owed

Observing == step \notin {"ended", "failed"}

\* Until it passed the gate the wrapper does nothing but read from it.
AgentActs(t) ==
  /\ Observing
  /\ t \in Agent
  /\ gate \in {"none", "passed"}
  /\ activity < MaxActivity
  /\ activity' = activity + 1

\* apolysis_sched_process_fork up to its event; BPF_NOEXIST.
TrackChild(t, n) ==
  IF Attached("sched_process_fork") /\ ThreadInScope(t)
    THEN IF n \in tracked \/ Cardinality(tracked) = MapCapacity
           THEN map_pressure' = map_pressure + 1 /\ UNCHANGED tracked
           ELSE tracked' = tracked \cup {n} /\ UNCHANGED map_pressure
    ELSE UNCHANGED <<tracked, map_pressure>>

\* A thread starts a process or another thread of its group.
Clone(t, n, newThread) ==
  /\ AgentActs(t)
  /\ Free(n)
  /\ threads' = Add(threads, n, newThread)
  /\ TrackChild(t, n)
  /\ Fires("sched_process_fork", t)
  /\ Owes(t)
  /\ escaped' = IF ~Attached("sched_process_fork") \/ (t \in escaped /\ ~ThreadInScope(t))
                  THEN escaped \cup {n} ELSE escaped
  /\ strays' = strays \ {n}
  /\ UNCHANGED observerVars

Fork(t, n) == Clone(t, n, Thread(n, threads[t].tgid, TRUE))

CloneThread(t, n) == Clone(t, n, threads[t])

\* The end of a thread; the children of a process whose last thread it was
\* get another parent.
WithoutThread(t) ==
  LET p == threads[t].tgid
      orphans == IF Group(p) = {t} THEN {c \in Live : threads[c].parent = p} ELSE {}
  IN [c \in Live \ {t} |-> IF c \in orphans THEN [threads[c] EXCEPT !.parent = Init1] ELSE threads[c]]

\* Mutant: only the exit of a leader takes its entry out.
Untrack_Leader(t) ==
  tracked' = IF Attached("sched_process_exit") /\ threads[t].tgid = t THEN tracked \ {t} ELSE tracked

\* apolysis_sched_process_exit after its event.
Untrack(t) == tracked' = IF Attached("sched_process_exit") THEN tracked \ {t} ELSE tracked

Exit(t) ==
  /\ Observing
  /\ t \in Live
  /\ threads' = WithoutThread(t)
  /\ Fires("sched_process_exit", t)
  /\ Untrack(t)
  /\ Owes(t)
  /\ escaped' = escaped \ {t}
  /\ strays' = IF Attached("sched_process_exit") THEN strays \ {t} ELSE strays \cup ({t} \cap tracked)
  /\ UNCHANGED <<observerVars, map_pressure, activity>>

\* exec by the only thread of a process.
Exec(t) ==
  /\ AgentActs(t)
  /\ Group(t) = {t}
  /\ Fires("sched_process_exec", t)
  /\ Owes(t)
  /\ UNCHANGED <<observerVars, threads, tracked, map_pressure, escaped, strays>>

\* exec by a thread that is not the leader.  The other threads have been ended,
\* the leader too, whose exit took the group's number out of the map; the
\* thread takes that number over and leaves its own entry behind.
ExecInThread(t) ==
  LET p == threads[t].tgid
  IN /\ AgentActs(t)
     /\ p # t
     /\ Group(p) = {t}
     /\ threads' = [u \in (Live \ {t}) \cup {p} |-> IF u = p THEN threads[t] ELSE threads[u]]
     /\ ReserveEvent(Attached("sched_process_exec") /\ InScope(p, p))
     /\ escaped' = (escaped \ {t}) \cup ({p} \ tracked)
     /\ strays' = (strays \cup ({t} \cap tracked)) \ {p}
     /\ UNCHANGED <<observerVars, tracked, map_pressure, owed>>

\* An openat, unlinkat, connect or another observed system call.
Effect(t) ==
  /\ AgentActs(t)
  /\ Fires("sys_enter", t)
  /\ Owes(t)
  /\ UNCHANGED <<observerVars, threads, tracked, map_pressure, escaped, strays>>

\* And so on for ever, past what the histories count.  An attached agent's
\* observation does not end with it, so there the bound is enough.
KeepBusy(t) ==
  /\ Observing
  /\ mode = "managed"
  /\ t \in Agent
  /\ gate \in {"none", "passed"}
  /\ activity = MaxActivity
  /\ Attached("sys_enter") /\ ThreadInScope(t)
  /\ ~more /\ Room
  /\ more' = TRUE
  /\ UNCHANGED <<observerVars, threads, tracked, ring, reserve_failures, map_pressure, activity,
                 owed, escaped, strays>>

\* A process that is none of the agent's.
ForeignStart(n) ==
  /\ Observing
  /\ step # "start"
  /\ Free(n)
  /\ threads' = Add(threads, n, Thread(n, Init1, FALSE))
  /\ UNCHANGED <<observerVars, tracked, ring, more, reserve_failures, map_pressure, activity, owed, escaped, strays>>
-----------------------------------------------------------------------------
(***************************************************************************)
(* observe_live up to its loop.                                            *)
(***************************************************************************)

\* spawn_managed_agent: the wrapper waits at the gate.
SpawnManagedAgent ==
  /\ step = "start"
  /\ mode = "managed"
  /\ step' = "ready"
  /\ gate' = "shut"
  /\ threads' = Add(threads, Root, Thread(Root, Init1, TRUE))
  /\ UNCHANGED <<mode, attached, reaped, tracked, ring, more, reserve_failures, map_pressure,
                 activity, owed, escaped, strays, readVars>>

\* resolve_registered_agent: the start time is that of the registration.
ResolveRegisteredAgent ==
  /\ step = "start"
  /\ mode = "attached"
  /\ Root \in Agent
  /\ step' = "ready"
  /\ UNCHANGED <<mode, attached, gate, reaped, kernelVars, readVars>>

LoadObject ==
  /\ step = "ready"
  /\ step' = "loaded"
  /\ UNCHANGED <<mode, attached, gate, reaped, kernelVars, readVars>>

\* discover_process_tree_scope_pids: the numbers reached from the root through
\* the tasks and the children of each; the root's own whether it lives or not.
ScopePids ==
  LET Closed(S) ==
        /\ \A t \in S \cap Live : threads[t].tgid \in S
        /\ \A t \in Live : threads[t].tgid \in S \/ threads[t].parent \in S => t \in S
      scopes == {S \in SUBSET Pids : Root \in S /\ Closed(S)}
  IN {p \in Pids : \A S \in scopes : p \in S}

\* configure_scope: the map is seeded before any hook is attached.
ConfigureScope ==
  /\ step = "loaded"
  /\ Cardinality(ScopePids) <= MapCapacity
  /\ step' = "configured"
  /\ tracked' = ScopePids
  /\ escaped' = Agent \ ScopePids
  /\ strays' = ScopePids \ Agent
  /\ UNCHANGED <<mode, attached, gate, reaped, threads, ring, more, reserve_failures, map_pressure,
                 activity, owed, readVars>>

AttachTracepoint ==
  /\ step = "configured"
  /\ attached < Len(Hooks)
  /\ attached' = attached + 1
  /\ UNCHANGED <<mode, step, gate, reaped, kernelVars, readVars>>

\* Mutant: the gate is opened as soon as the scope is configured.
ReleaseGate_Early ==
  /\ step = "configured"
  /\ step' = IF attached = Len(Hooks) THEN "released" ELSE step
  /\ gate' = IF gate = "shut" THEN "open" ELSE gate
  /\ UNCHANGED <<mode, attached, reaped, kernelVars, readVars>>

ReleaseGate ==
  /\ step = "configured"
  /\ attached = Len(Hooks)
  /\ step' = "released"
  /\ gate' = IF gate = "shut" THEN "open" ELSE gate
  /\ UNCHANGED <<mode, attached, reaped, kernelVars, readVars>>

\* The wrapper's read returns and it execs the command.
StartCommand ==
  /\ Observing
  /\ gate = "open"
  /\ Root \in Agent
  /\ gate' = "passed"
  /\ Fires("sched_process_exec", Root)
  /\ Owes(Root)
  /\ UNCHANGED <<mode, step, attached, reaped, threads, tracked, map_pressure, activity, escaped, strays, readVars>>

OpenRing ==
  /\ step = "released"
  /\ step' = "observing"
  /\ UNCHANGED <<mode, attached, gate, reaped, kernelVars, readVars>>

\* The programs are detached, their maps go with them, and the managed child is
\* killed on drop.
Leave ==
  LET killed == IF mode = "managed" /\ ~reaped THEN Group(Root) ELSE {}
  IN /\ attached' = 0
     /\ threads' = [t \in Live \ killed |-> threads[t]]
     /\ escaped' = escaped \ killed
     /\ tracked' = {}
     /\ strays' = {}
     /\ UNCHANGED <<mode, gate, reaped, ring, more, batch, reserve_failures, map_pressure, activity, owed>>

\* Any of the steps returns an error.
Fail ==
  /\ Observing
  /\ step' = "failed"
  /\ Leave
  /\ UNCHANGED <<raw_count, decode_failures, warned>>
-----------------------------------------------------------------------------
(***************************************************************************)
(* The loop and what follows it.                                           *)
(***************************************************************************)

\* Mutant: the whole tree has to be gone.
PollAgentExit_WholeTree ==
  /\ step = "observing"
  /\ mode = "managed"
  /\ ~reaped
  /\ Agent = {}
  /\ reaped' = TRUE
  /\ UNCHANGED <<mode, step, attached, gate, kernelVars, readVars>>

\* try_wait; 300 ms later the loop ends.
PollAgentExit ==
  /\ step = "observing"
  /\ mode = "managed"
  /\ ~reaped
  /\ Group(Root) = {}
  /\ reaped' = TRUE
  /\ UNCHANGED <<mode, step, attached, gate, kernelVars, readVars>>

\* read_ring_batch takes one record after another, in a loop without an await,
\* until it finds none.
BeginBatch ==
  /\ step = "observing"
  /\ ring > 0 \/ more
  /\ step' = "reading"
  /\ UNCHANGED <<mode, attached, gate, reaped, kernelVars, readVars>>

TakeRecord ==
  /\ step = "reading"
  /\ \/ ring > 0 /\ ring' = ring - 1 /\ batch' = batch + 1 /\ UNCHANGED more
     \/ more /\ more' = FALSE /\ UNCHANGED <<ring, batch>>
  /\ UNCHANGED <<mode, step, attached, gate, reaped, threads, tracked, reserve_failures, map_pressure,
                 activity, owed, escaped, strays, raw_count, decode_failures, warned>>

\* The loop over the batch: a record is written or counted as one that could
\* not be decoded.
EndBatch ==
  /\ step = "reading"
  /\ ring = 0 /\ ~more
  /\ step' = "observing"
  /\ batch' = 0
  /\ \E bad \in 0..batch :
       /\ raw_count' = raw_count + batch - bad
       /\ decode_failures' = decode_failures + bad
  /\ UNCHANGED <<mode, attached, gate, reaped, kernelVars, warned>>

\* Mutant: records that could not be decoded are not counted as lost.
Finish_KernelOnly ==
  /\ step = "observing"
  /\ step' = "ended"
  /\ warned' = (reserve_failures + map_pressure > 0)
  /\ Leave
  /\ UNCHANGED <<raw_count, decode_failures>>

\* The loop is left, the counters are read and judged.
Finish ==
  /\ step = "observing"
  /\ step' = "ended"
  /\ warned' = (reserve_failures + map_pressure + decode_failures > 0)
  /\ Leave
  /\ UNCHANGED <<raw_count, decode_failures>>

\* A signal, or the end of the requested duration.
Interrupted == Finish

DrainDeadline == reaped /\ Finish

Setup ==
  \/ SpawnManagedAgent \/ ResolveRegisteredAgent \/ LoadObject \/ ConfigureScope
  \/ AttachTracepoint \/ ReleaseGate \/ OpenRing

Kernel ==
  \/ StartCommand
  \/ \E t \in Live : Exit(t) \/ Exec(t) \/ ExecInThread(t) \/ Effect(t) \/ KeepBusy(t)
  \/ \E t \in Live, n \in Pids : Fork(t, n) \/ CloneThread(t, n)
  \/ \E n \in Pids : ForeignStart(n)

Next ==
  \/ Setup \/ Kernel
  \/ PollAgentExit \/ BeginBatch \/ TakeRecord \/ EndBatch
  \/ Interrupted \/ DrainDeadline \/ Fail

Spec == Init /\ [][Next]_vars

\* A started batch goes on; each turn of the loop polls the child, at least
\* every 100 ms while no batch runs; and select! chooses at random among the
\* branches that are ready, of which a passed deadline stays one; the deadline
\* is set by the poll that finds the child gone.  Nothing obliges the agent to
\* pause.
FairSpec ==
  /\ Spec
  /\ WF_vars(TakeRecord \/ EndBatch)
  /\ SF_vars(PollAgentExit \/ DrainDeadline)
-----------------------------------------------------------------------------
(***************************************************************************)
(* Properties.                                                             *)
(***************************************************************************)

\* Every live thread of the agent's tree is in scope once the scope is
\* configured, whichever of its threads forked it and whichever of its ancestors
\* exited, unless the map was full, it was started before the fork hook
\* was attached, or it descends from an exec by a thread that was not the leader.
AgentTreeObserved ==
  step \in {"configured", "released", "observing", "reading"} /\ map_pressure = 0 =>
    \A t \in Agent \ escaped : ThreadInScope(t)

\* A number in the map is that of a live thread of the agent, so no process
\* that gets the number later is taken for the agent; the entries that outlive
\* their thread are those whose exit the exit hook could not see and those an
\* exec of a thread left behind.
EntriesAreTheAgents == tracked \subseteq Agent \cup strays

\* A managed command runs only with every hook attached and its tree in scope:
\* it has no past that is not observed, and a setup that fails never starts it.
GateHolds ==
  gate \in {"open", "passed"} /\ Observing =>
    /\ attached = Len(Hooks)
    /\ gate = "open" /\ Root \in Agent => Root \in tracked

\* An observation that ends without a warning lost nothing but what was in the
\* ring buffer when it ended.
LossAnnounced == step = "ended" /\ ~warned => owed <= raw_count + ring

AgentGone == step \in {"observing", "reading"} /\ mode = "managed" /\ Group(Root) = {}

\* No batch is read for ever.
BatchesEnd == []<>(step # "reading")

\* An observation of a managed agent ends when the agent does, also when
\* processes it started live on and every turn of the loop finds records: what
\* they write delays the end no further than the batch that is being read, as
\* long as that batch ends.
ObservationEnds == BatchesEnd => (AgentGone ~> ~Observing)

\* The same without the assumption.  TLC refutes it (README, known deviations):
\* processes that write as fast as read_ring_batch reads keep it in its loop,
\* where neither try_wait nor the drain deadline is looked at.
EndsWithTheAgent == AgentGone ~> ~Observing

\* "so every side effect from here on is captured": past the gate no thread of
\* the managed agent is out of scope without a count of it.  TLC refutes it
\* (README, known deviations).
EverySideEffectCaptured ==
  mode = "managed" /\ gate = "passed" /\ Observing /\ map_pressure = 0 =>
    \A t \in Agent : ThreadInScope(t)

\* "Fail loud": an observation that ends without a warning has every event it
\* owes in the timeline.  TLC refutes it (README, known deviations).
CompleteOrWarned == step = "ended" /\ ~warned => owed <= raw_count
=============================================================================
