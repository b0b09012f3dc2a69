---------------------------- MODULE DaemonServer ----------------------------
(***************************************************************************)
(* The daemon's tasks and what they wait for: serve (server.rs) from the   *)
(* spawn of its tasks to the end of its shutdown, the observer task        *)
(* (runtime.rs), the pipeline's writer and the runtime adapters            *)
(* (adapter.rs), the connection handlers with their request timeout, the   *)
(* registry's lock and the bounded channel to the observer (scope.rs).     *)
(* What the operations do to the state is in DaemonState; here an          *)
(* operation is the lock, the scope replies and the socket it awaits.      *)
(***************************************************************************)
EXTENDS Naturals, Sequences, FiniteSets, SequencesExt

CONSTANTS
  Adapters,                 \* runtime adapter tasks
  Clients,                  \* connections of the control socket
  MaxConnections,           \* config.max_connections
  ScopeCapacity,            \* config.scope_command_capacity
  Serve, Observer, Writer,  \* the other three tasks
  NoTask                    \* nobody

Operators == Adapters \cup Clients \cup {Writer}
Tasks == Operators \cup {Serve, Observer}

ASSUME ServerAssumption ==
  /\ IsFiniteSet(Adapters)
  /\ IsFiniteSet(Clients)
  /\ Adapters \cap Clients = {}
  /\ Serve # Observer /\ Serve # Writer /\ Observer # Writer
  /\ {Serve, Observer, Writer} \cap (Adapters \cup Clients) = {}
  /\ NoTask \notin Tasks
  /\ MaxConnections \in Nat
  /\ ScopeCapacity \in Nat \ {0}

VARIABLES
  at,         \* task -> where it is
  holder,     \* the task that holds the registry's write lock
  waiting,    \* the tasks that wait for the lock, first come first served
  requests,   \* the scope channel: [from, live], live while the caller awaits
  replied,    \* tasks whose oneshot has an answer or was dropped
  observing   \* the receiving end of the scope channel exists

lockVars == <<holder, waiting>>
scopeVars == <<requests, replied, observing>>
vars == <<at, lockVars, scopeVars>>

\* serve: the adapters run; reads tracked_cgroups; accepts; shuts down in the
\* order of the code.
ServeSteps == {"spawned", "tracked_cgroups", "accepting", "join_handlers", "stop_observer",
               "stop_adapters", "stop_writer", "stopped"}
ObserverSteps == {"unspawned", "select", "ingest", "ended"}
OperationSteps == {"idle", "frame", "lock_write", "lock_read", "operate", "reply", "response",
                   "discovered", "ended"}

TypeOK ==
  /\ at \in [Tasks -> ServeSteps \cup ObserverSteps \cup OperationSteps]
  /\ holder \in Tasks \cup {NoTask}
  /\ waiting \in Seq(Tasks)
  /\ requests \in Seq([from : Tasks, live : BOOLEAN])
  /\ Len(requests) <= ScopeCapacity
  /\ replied \subseteq Tasks
  /\ observing \in BOOLEAN

\* serve has bound the socket, loaded the observer and spawned the writer and
\* the adapters.
Init ==
  /\ at = [t \in Tasks |-> CASE t = Serve -> "spawned"
                             [] t = Observer -> "unspawned"
                             [] OTHER -> "idle"]
  /\ holder = NoTask
  /\ waiting = <<>>
  /\ requests = <<>>
  /\ replied = {}
  /\ observing = TRUE
-----------------------------------------------------------------------------
Goto(t, step) == at' = [at EXCEPT ![t] = step]

(***************************************************************************)
(* The registry's lock (external: tokio's RwLock, fair).  No read guard is *)
(* held across an await, so a reader passes the head of the queue in one   *)
(* step, and whether a waiter wants to read or to write makes no           *)
(* difference to the others.                                               *)
(***************************************************************************)
Enqueue(t) == waiting' = Append(waiting, t) /\ UNCHANGED holder

AtHead(t) == holder = NoTask /\ waiting # <<>> /\ Head(waiting) = t

Acquire(t) == AtHead(t) /\ waiting' = Tail(waiting) /\ holder' = t

\* The guard is taken and dropped again before the next await.
PassThrough(t) == AtHead(t) /\ waiting' = Tail(waiting) /\ UNCHANGED holder

\* A task that ends an operation, is cancelled or is aborted drops its guard
\* and its place in the queue, of which it has at most one.
Release(t) ==
  /\ holder' = IF holder = t THEN NoTask ELSE holder
  /\ \/ t \notin ToSet(waiting) /\ UNCHANGED waiting
     \/ \E i \in DOMAIN waiting : waiting[i] = t /\ waiting' = RemoveAt(waiting, i)

\* The receiving half of a task's oneshot goes away with the task's future.
DropReply(t) ==
  /\ requests' = [i \in DOMAIN requests |->
                    IF requests[i].from = t THEN [requests[i] EXCEPT !.live = FALSE] ELSE requests[i]]
  /\ replied' = replied \ {t}
-----------------------------------------------------------------------------
(***************************************************************************)
(* Operations.  discover_cgroup (adapters), register, renew and close      *)
(* (clients) hold the write lock to their end; mark_session_degraded (the  *)
(* writer) drops it before it asks the observer to untrack.  An operation  *)
(* makes any number of scope requests, its rollbacks included.             *)
(***************************************************************************)
GetWriteLock(t) ==
  /\ at[t] = "lock_write"
  /\ IF t = Writer THEN PassThrough(t) ELSE Acquire(t)
  /\ Goto(t, "operate")
  /\ UNCHANGED scopeVars

\* try_send: a full or closed channel is an error, on which the operation goes
\* on to its end.
SendScope(t) ==
  /\ at[t] = "operate"
  /\ observing /\ Len(requests) < ScopeCapacity
  /\ requests' = Append(requests, [from |-> t, live |-> TRUE])
  /\ Goto(t, "reply")
  /\ UNCHANGED <<lockVars, replied, observing>>

GetReply(t) ==
  /\ at[t] = "reply"
  /\ t \in replied
  /\ replied' = replied \ {t}
  /\ Goto(t, "operate")
  /\ UNCHANGED <<lockVars, requests, observing>>

\* Where a task goes on after its registry operation.
After(t) == CASE t \in Clients -> "response"
              [] t \in Adapters -> "discovered"
              [] OTHER -> "idle"

FinishOperation(t) ==
  /\ at[t] = "operate"
  /\ Release(t)
  /\ Goto(t, After(t))
  /\ UNCHANGED scopeVars

GetReadLock(t) ==
  /\ at[t] = "lock_read"
  /\ PassThrough(t)
  /\ Goto(t, IF t \in Clients THEN "response" ELSE "idle")
  /\ UNCHANGED scopeVars

Operate(t) == GetWriteLock(t) \/ SendScope(t) \/ GetReply(t) \/ FinishOperation(t) \/ GetReadLock(t)

\* An adapter finds a workload; no timeout guards its ingestion.
FindWorkload(a) ==
  /\ at[a] = "idle"
  /\ Goto(a, "lock_write")
  /\ Enqueue(a)
  /\ UNCHANGED scopeVars

\* The rest of ingest_runtime_workload: a missing intent is looked up again
\* for its finding.
EndIngest(a) ==
  /\ at[a] = "discovered"
  /\ \/ Goto(a, "idle") /\ UNCHANGED lockVars
     \/ Goto(a, "lock_read") /\ Enqueue(a)
  /\ UNCHANGED scopeVars

\* The writer cannot append a record and degrades its session.
PersistFails ==
  /\ at[Writer] = "idle"
  /\ Goto(Writer, "lock_write")
  /\ Enqueue(Writer)
  /\ UNCHANGED scopeVars

Connections == {c \in Clients : at[c] # "idle"}

\* Above max_connections a client is only told so.
Accept(c) ==
  /\ at[Serve] = "accepting"
  /\ at[c] = "idle"
  /\ Cardinality(Connections) < MaxConnections
  /\ Goto(c, "frame")
  /\ UNCHANGED <<lockVars, scopeVars>>

\* The frame is read: an operation, a query, or an error to report.
Dispatch(c) ==
  /\ at[c] = "frame"
  /\ \/ Goto(c, "lock_write") /\ Enqueue(c)
     \/ Goto(c, "lock_read") /\ Enqueue(c)
     \/ Goto(c, "response") /\ UNCHANGED lockVars
  /\ UNCHANGED scopeVars

WriteResponse(c) ==
  /\ at[c] = "response"
  /\ Goto(c, "idle")
  /\ UNCHANGED <<lockVars, scopeVars>>

\* Mutant: the timeout covers the frame only.
RequestTimeout_FrameOnly(c) ==
  /\ at[c] = "frame"
  /\ Goto(c, "idle")
  /\ UNCHANGED <<lockVars, scopeVars>>

\* Mutant: the guard outlives the handler (it was moved into a task of its own).
RequestTimeout_KeepsLock(c) ==
  /\ at[c] \in {"frame", "lock_write", "lock_read", "reply", "response"}
  /\ DropReply(c)
  /\ Goto(c, "idle")
  /\ UNCHANGED <<lockVars, observing>>

\* request_timeout drops the handler at whatever it awaits.
RequestTimeout(c) ==
  /\ at[c] \in {"frame", "lock_write", "lock_read", "reply", "response"}
  /\ Release(c)
  /\ DropReply(c)
  /\ Goto(c, "idle")
  /\ UNCHANGED observing
-----------------------------------------------------------------------------
(***************************************************************************)
(* run_observer_runtime: the branches of its select!.                      *)
(***************************************************************************)
ServeScopeRequest ==
  /\ at[Observer] = "select"
  /\ requests # <<>>
  /\ requests' = Tail(requests)
  /\ replied' = IF Head(requests).live THEN replied \cup {Head(requests).from} ELSE replied
  /\ UNCHANGED <<at, lockVars, observing>>

\* A batch arrived; every event asks the registry for its session.
ReadBatch ==
  /\ at[Observer] = "select"
  /\ Goto(Observer, "ingest")
  /\ Enqueue(Observer)
  /\ UNCHANGED scopeVars

IngestEvent ==
  /\ at[Observer] = "ingest"
  /\ PassThrough(Observer)
  /\ Goto(Observer, "select")
  /\ UNCHANGED scopeVars

\* Mutant: the requests in the channel are forgotten.
EndObserver_Unanswered ==
  /\ Goto(Observer, "ended")
  /\ observing' = FALSE
  /\ requests' = <<>>
  /\ Release(Observer)
  /\ UNCHANGED replied

\* The task is over: the channel closes and the oneshots in it are dropped,
\* which their callers see as errors.
EndObserver ==
  /\ Goto(Observer, "ended")
  /\ observing' = FALSE
  /\ requests' = <<>>
  /\ replied' = replied \cup {requests[i].from : i \in {j \in DOMAIN requests : requests[j].live}}
  /\ Release(Observer)

\* The initial scope cannot be restored, read_batch fails, or the shutdown
\* branch is taken.
ObserverStops ==
  /\ at[Observer] = "select"
  /\ EndObserver
-----------------------------------------------------------------------------
(***************************************************************************)
(* serve.                                                                  *)
(***************************************************************************)
AskTracked ==
  /\ at[Serve] = "spawned"
  /\ Goto(Serve, "tracked_cgroups")
  /\ Enqueue(Serve)
  /\ UNCHANGED scopeVars

SpawnObserver ==
  /\ at[Serve] = "tracked_cgroups"
  /\ PassThrough(Serve)
  /\ at' = [at EXCEPT ![Serve] = "accepting", ![Observer] = "select"]
  /\ UNCHANGED scopeVars

\* The shutdown signal, or a failed accept.
Shutdown ==
  /\ at[Serve] = "accepting"
  /\ Goto(Serve, "join_handlers")
  /\ UNCHANGED <<lockVars, scopeVars>>

\* serve goes on when the tasks it joins have ended.
Joined(step, tasks, done, next) ==
  /\ at[Serve] = step
  /\ \A t \in tasks : at[t] = done
  /\ Goto(Serve, next)
  /\ UNCHANGED <<lockVars, scopeVars>>

HandlersJoined == Joined("join_handlers", Clients, "idle", "stop_observer")
ObserverJoined == Joined("stop_observer", {Observer}, "ended", "stop_adapters")
AdaptersJoined == Joined("stop_adapters", Adapters, "ended", "stop_writer")
WriterJoined == Joined("stop_writer", {Writer}, "ended", "stopped")

\* An adapter between two workloads sees the signal, or its backend is done;
\* a writer between two records sees it, or storage has become unavailable.
TaskStops(t) ==
  /\ t \in Adapters \cup {Writer}
  /\ at[t] = "idle"
  /\ Goto(t, "ended")
  /\ UNCHANGED <<lockVars, scopeVars>>

\* Mutant: serve joins the observer without a deadline.
AbortObserver_Never ==
  /\ at[Serve] = "stop_observer"
  /\ at[Observer] = "select"
  /\ EndObserver

\* The drain timeout: a task is aborted at its await.
AbortObserver ==
  /\ at[Serve] = "stop_observer"
  /\ at[Observer] \in {"select", "ingest"}
  /\ EndObserver

AbortTask(t) ==
  /\ at[Serve] = IF t = Writer THEN "stop_writer" ELSE "stop_adapters"
  /\ t \in Adapters \cup {Writer}
  /\ at[t] \in {"idle", "lock_write", "lock_read", "reply"}
  /\ Goto(t, "ended")
  /\ Release(t)
  /\ DropReply(t)
  /\ UNCHANGED observing

ServeStep ==
  \/ AskTracked \/ SpawnObserver
  \/ HandlersJoined \/ ObserverJoined \/ AdaptersJoined \/ WriterJoined

Next ==
  \/ ServeStep \/ Shutdown
  \/ ServeScopeRequest \/ ReadBatch \/ IngestEvent \/ ObserverStops \/ AbortObserver
  \/ PersistFails
  \/ \E t \in Operators : Operate(t) \/ TaskStops(t) \/ AbortTask(t)
  \/ \E a \in Adapters : FindWorkload(a) \/ EndIngest(a)
  \/ \E c \in Clients : Accept(c) \/ Dispatch(c) \/ WriteResponse(c) \/ RequestTimeout(c)

Spec == Init /\ [][Next]_vars

\* The runtime polls every task that can go on, select! chooses among its
\* ready branches at random, an operation makes finitely many scope requests,
\* and the timers fire: a deadline once passed stays passed, so a task that is
\* at an await again and again is dropped there.  Nothing obliges a client to
\* send or to read, a workload to appear, an event to arrive, a record to fail
\* or the operator to stop the daemon.
FairSpec ==
  /\ Spec
  /\ WF_vars(ServeStep)
  /\ SF_vars(ServeScopeRequest)
  /\ WF_vars(IngestEvent)
  /\ SF_vars(AbortObserver)
  /\ \A t \in Operators : WF_vars(Operate(t)) /\ SF_vars(FinishOperation(t)) /\ SF_vars(AbortTask(t))
  /\ \A a \in Adapters : WF_vars(EndIngest(a))
  /\ \A c \in Clients : SF_vars(RequestTimeout(c))
-----------------------------------------------------------------------------
(***************************************************************************)
(* Properties.                                                             *)
(***************************************************************************)

\* The registry's lock is held, and a place in its queue kept, only by a task
\* that is in the middle of an operation: no request timeout and no abort at
\* shutdown, wherever they strike, leaves the registry locked or blocked.
NoLockLeaked ==
  /\ holder # NoTask => at[holder] \in {"operate", "reply"}
  /\ \A i \in DOMAIN waiting :
       at[waiting[i]] \in {"lock_write", "lock_read", "ingest", "tracked_cgroups"}

\* A caller of ScopeController::apply is owed exactly one answer, by one
\* request in the channel or by its oneshot, and nobody else is: an answer
\* never reaches another operation although requests of dropped callers stay
\* in the channel, and the observer's end leaves no caller without one.
OneReplyOwed ==
  \A t \in Tasks :
    LET live == {i \in DOMAIN requests : requests[i].from = t /\ requests[i].live}
    IN  Cardinality(live) + (IF t \in replied THEN 1 ELSE 0) = IF at[t] = "reply" THEN 1 ELSE 0

\* Every connection ends and gives its permit back, if only by its timeout,
\* also when the client never sends, never reads, or the observer and an
\* adapter wait for each other.
RequestsEnd == \A c \in Clients : at[c] # "idle" ~> at[c] = "idle"

\* Once asked to shut down, serve returns, whatever its tasks wait for.
ShutdownCompletes == at[Serve] = "join_handlers" ~> at[Serve] = "stopped"

\* What tests/observer_runtime.rs shows for a caller without the registry's
\* lock (observer_runtime_processes_scope_commands_and_reports_final_counters):
\* a running observer processes the scope commands, and the caller goes on.
\* TLC refutes it for a caller that holds the lock (README, known deviations).
ScopeCommandsProcessed ==
  \A a \in Adapters : (at[a] = "reply" /\ at[Serve] = "accepting") ~> at[a] # "reply"
=============================================================================
