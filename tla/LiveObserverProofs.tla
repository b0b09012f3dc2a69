------------------------- MODULE LiveObserverProofs -------------------------
(***************************************************************************)
(* For any number of threads, any capacity of the map and of the ring      *)
(* buffer and any activity of the agent: the scope kept by the kernel      *)
(* programs follows the agent's tree, the gate holds, and an observation   *)
(* that ends without a warning lost nothing but what is in the ring.       *)
(***************************************************************************)
EXTENDS LiveObserver, FiniteSetTheorems, TLAPS

\* The steps of observe_live while the map is filled.
Scoped == {"configured", "released", "observing", "reading"}

----------------------------------------------------------------------------
\* The parts of TypeOK

ThreadsTyped ==
  /\ Live \subseteq Pids
  /\ \A t \in Live : threads[t] \in [tgid : Pids, parent : Pids \cup {Init1}, agent : BOOLEAN]

MapTyped ==
  /\ tracked \subseteq Pids /\ Cardinality(tracked) <= MapCapacity
  /\ escaped \subseteq Agent
  /\ strays \subseteq tracked

CountersTyped ==
  /\ ring \in 0..RingCapacity
  /\ more \in BOOLEAN
  /\ batch \in Nat
  /\ reserve_failures \in Nat /\ map_pressure \in Nat
  /\ raw_count \in Nat /\ decode_failures \in Nat
  /\ activity \in 0..MaxActivity
  /\ owed \in Nat

SetupTyped ==
  /\ mode \in Modes
  /\ step \in Steps
  /\ attached \in 0..Len(Hooks)
  /\ gate \in {"none", "shut", "open", "passed"}
  /\ reaped \in BOOLEAN /\ warned \in BOOLEAN

Typed == ThreadsTyped /\ MapTyped /\ CountersTyped /\ SetupTyped

----------------------------------------------------------------------------
\* The inductive invariant

(* The order of the setup: hooks come after the scope, and the gate is     *)
(* opened after the last hook.                                             *)
SetupOrder ==
  /\ step \in {"start", "ready", "loaded"} => attached = 0
  /\ step \in {"released", "observing", "reading"} => attached = Len(Hooks)
  /\ Observing /\ gate \in {"open", "passed"} => step \in {"released", "observing", "reading"}
  /\ gate # "none" => mode = "managed" /\ step # "start"
  /\ step = "start" => tracked = {} /\ strays = {}

(* AgentTreeObserved holds because a thread is in the map by its own       *)
(* number: by its group's number alone it would leave the scope when the   *)
(* leader exits.                                                           *)
EachTracked == step \in Scoped /\ map_pressure = 0 => Agent \ escaped \subseteq tracked

(* The root stays in the map until it exits, and its number is nobody      *)
(* else's while the wrapper waits at the gate.                             *)
RootTracked == step \in Scoped /\ gate \in {"shut", "open"} /\ Root \in Agent => Root \in tracked

(* Nothing is owed that is not in the timeline, in the batch, in the ring  *)
(* or counted; and the observation does not end within a batch.            *)
Accounted ==
  /\ reserve_failures = 0 /\ map_pressure = 0 /\ decode_failures = 0 =>
       owed <= raw_count + batch + ring
  /\ batch = 0 \/ step \in {"reading", "failed"}
  /\ step = "ended" /\ ~warned =>
       reserve_failures = 0 /\ map_pressure = 0 /\ decode_failures = 0

----------------------------------------------------------------------------
\* The agent's tree

ThreadType == [tgid : Pids, parent : Pids \cup {Init1}, agent : BOOLEAN]

(* With every hook attached, each of them fires.                           *)
LEMMA AllAttached ==
  ASSUME attached = Len(Hooks)
  PROVE  /\ Attached("sched_process_exec") /\ Attached("sched_process_fork")
         /\ Attached("sched_process_exit") /\ Attached("sys_enter")
<1>1. /\ Len(Hooks) = 4
      /\ Hooks[1] = "sched_process_exec" /\ Hooks[2] = "sched_process_fork"
      /\ Hooks[3] = "sched_process_exit" /\ Hooks[4] = "sys_enter"
  BY DEF Hooks
<1>2. 1 \in 1..attached /\ 2 \in 1..attached /\ 3 \in 1..attached /\ 4 \in 1..attached
  BY <1>1
<1> QED
  BY <1>1, <1>2 DEF Attached

(* A clone adds one number, which was free, to the agent's tree.           *)
LEMMA CloneAgents ==
  ASSUME ThreadsTyped, NEW t \in Live, NEW n \in Pids, Fork(t, n) \/ CloneThread(t, n)
  PROVE  ThreadsTyped' /\ n \notin Live /\ t \in Agent /\ Agent' = Agent \cup {n}
<1>1. PICK x \in ThreadType : x.agent /\ Clone(t, n, x)
  <2>1. t \in Agent
    BY DEF Fork, CloneThread, Clone, AgentActs
  <2>2. threads[t] \in ThreadType /\ threads[t].agent
    BY <2>1 DEF ThreadsTyped, ThreadType, Agent
  <2>3. Thread(n, threads[t].tgid, TRUE) \in ThreadType /\ Thread(n, threads[t].tgid, TRUE).agent
    BY <2>2 DEF ThreadType, Thread
  <2> QED
    BY <2>2, <2>3 DEF Fork, CloneThread
<1>2. /\ n \notin Live /\ t \in Agent
      /\ threads' = [z \in DOMAIN threads \cup {n} |-> IF z = n THEN x ELSE threads[z]]
  BY <1>1 DEF Clone, AgentActs, Free, Add
<1>3. /\ Live' = Live \cup {n} /\ threads'[n] = x
      /\ \A u \in Live : threads'[u] = threads[u]
  BY <1>2 DEF Live
<1>4. ThreadsTyped'
  BY <1>1, <1>3 DEF ThreadsTyped, ThreadType
<1>5. Agent' = Agent \cup {n}
  BY <1>1, <1>2, <1>3 DEF Agent
<1> QED
  BY <1>2, <1>4, <1>5

\* A thread that exits leaves the tree, whatever else happens to the map.
LEMMA ExitAgents ==
  ASSUME ThreadsTyped, NEW t \in Live, Exit(t)
  PROVE  ThreadsTyped' /\ Agent' = Agent \ {t}
<1>1. threads' = WithoutThread(t)
  BY DEF Exit
<1>2. /\ Live' = Live \ {t}
      /\ \A u \in Live' : threads'[u] = threads[u] \/ threads'[u] = [threads[u] EXCEPT !.parent = Init1]
  BY <1>1 DEF WithoutThread, Live
<1>3. ASSUME NEW u \in Live' PROVE threads'[u] \in ThreadType /\ threads'[u].agent = threads[u].agent
  <2>1. threads[u] \in ThreadType
    BY <1>2 DEF ThreadsTyped, ThreadType
  <2>2. [threads[u] EXCEPT !.parent = Init1] \in ThreadType
    BY <2>1 DEF ThreadType
  <2>3. [threads[u] EXCEPT !.parent = Init1].agent = threads[u].agent
    BY <2>1 DEF ThreadType
  <2> QED
    BY <1>2, <2>1, <2>2, <2>3
<1> QED
  BY <1>2, <1>3 DEF ThreadsTyped, ThreadType, Agent

(* The thread that execs takes its group's number over.                    *)
LEMMA ExecInThreadAgents ==
  ASSUME ThreadsTyped, NEW t \in Live, ExecInThread(t)
  PROVE  /\ ThreadsTyped' /\ t \in Agent /\ threads[t].tgid \in Pids /\ threads[t].tgid # t
         /\ Agent' = (Agent \ {t}) \cup {threads[t].tgid}
<1> DEFINE p == threads[t].tgid
<1>1. /\ t \in Agent /\ p # t
      /\ threads' = [u \in (Live \ {t}) \cup {p} |-> IF u = p THEN threads[t] ELSE threads[u]]
  BY DEF ExecInThread, AgentActs
<1>2. threads[t] \in ThreadType /\ p \in Pids /\ threads[t].agent
  BY <1>1 DEF ThreadsTyped, ThreadType, Agent
<1>3. /\ Live' = (Live \ {t}) \cup {p} /\ threads'[p] = threads[t]
      /\ \A u \in Live' : u # p => threads'[u] = threads[u]
  BY <1>1 DEF Live
<1>4. ThreadsTyped'
  BY <1>2, <1>3 DEF ThreadsTyped, ThreadType
<1>5. Agent' = (Agent \ {t}) \cup {p}
  BY <1>1, <1>2, <1>3 DEF Agent
<1> QED
  BY <1>1, <1>2, <1>4, <1>5

\* A process of somebody else does not enter the tree.
LEMMA ForeignAgents ==
  ASSUME ThreadsTyped, NEW n \in Pids, ForeignStart(n)
  PROVE  ThreadsTyped' /\ Agent' = Agent
<1>1. Thread(n, Init1, FALSE) \in ThreadType /\ ~Thread(n, Init1, FALSE).agent
  BY DEF Thread, ThreadType
<1>2. /\ n \notin Live /\ Live' = Live \cup {n} /\ threads'[n] = Thread(n, Init1, FALSE)
      /\ \A u \in Live : threads'[u] = threads[u]
  BY DEF ForeignStart, Free, Add, Live
<1> QED
  BY <1>1, <1>2 DEF ThreadsTyped, ThreadType, Agent

\* The spawned root enters the tree.
LEMMA SpawnAgents ==
  ASSUME ThreadsTyped, SpawnManagedAgent
  PROVE  ThreadsTyped' /\ Agent' = Agent \cup {Root}
<1>1. Thread(Root, Init1, TRUE) \in ThreadType /\ Thread(Root, Init1, TRUE).agent
  BY ObserverAssumption DEF Thread, ThreadType
<1>2. /\ Live' = Live \cup {Root} /\ threads'[Root] = Thread(Root, Init1, TRUE)
      /\ \A u \in Live \ {Root} : threads'[u] = threads[u]
  BY DEF SpawnManagedAgent, Add, Live
<1>3. ThreadsTyped'
  BY <1>1, <1>2, ObserverAssumption DEF ThreadsTyped, ThreadType
<1>4. Agent' = Agent \cup {Root}
  <2>1. ASSUME NEW u PROVE u \in Agent' <=> u \in Agent \/ u = Root
    BY <1>1, <1>2 DEF Agent
  <2> QED
    BY <2>1
<1> QED
  BY <1>3, <1>4

\* What the observer's end kills leaves the tree.
LEMMA LeaveAgents ==
  ASSUME ThreadsTyped, Leave
  PROVE  ThreadsTyped' /\ \E killed : Agent' = Agent \ killed /\ escaped' = escaped \ killed
<1>1. PICK killed : threads' = [t \in Live \ killed |-> threads[t]] /\ escaped' = escaped \ killed
  BY DEF Leave
<1>2. Live' = Live \ killed /\ \A u \in Live' : threads'[u] = threads[u]
  BY <1>1 DEF Live
<1> QED
  BY <1>1, <1>2 DEF ThreadsTyped, Agent

(* Every other step leaves the tree alone.                                 *)
LEMMA AgentUnchanged ==
  ASSUME UNCHANGED threads
  PROVE  Agent' = Agent /\ (ThreadsTyped => ThreadsTyped')
BY DEF Agent, Live, ThreadsTyped

----------------------------------------------------------------------------
\* The map

\* The map holds finitely many numbers.
LEMMA MapIsFinite ==
  ASSUME MapTyped
  PROVE  IsFiniteSet(tracked) /\ Cardinality(tracked) \in Nat
BY ObserverAssumption, FS_Subset, FS_CardinalityType DEF MapTyped

(* The fork hook adds the child or counts that it could not.               *)
LEMMA TrackChildEffect ==
  ASSUME MapTyped, map_pressure \in Nat, NEW t, NEW n \in Pids, TrackChild(t, n)
  PROVE  /\ tracked' \subseteq Pids /\ Cardinality(tracked') <= MapCapacity
         /\ tracked \subseteq tracked' /\ tracked' \subseteq tracked \cup {n}
         /\ map_pressure' \in Nat /\ (map_pressure' = 0 => map_pressure = 0)
         /\ Attached("sched_process_fork") /\ ThreadInScope(t) /\ map_pressure' = 0 => n \in tracked'
<1>1. CASE Attached("sched_process_fork") /\ ThreadInScope(t) /\ n \notin tracked
           /\ Cardinality(tracked) # MapCapacity
  <2>1. tracked' = tracked \cup {n} /\ map_pressure' = map_pressure
    BY <1>1 DEF TrackChild
  <2>2. Cardinality(tracked') = Cardinality(tracked) + 1
    BY <1>1, <2>1, MapIsFinite, FS_AddElement
  <2>3. Cardinality(tracked') <= MapCapacity
    BY <1>1, <2>2, MapIsFinite, ObserverAssumption DEF MapTyped
  <2> QED
    BY <2>1, <2>3 DEF MapTyped
<1>2. CASE Attached("sched_process_fork") /\ ThreadInScope(t)
           /\ (n \in tracked \/ Cardinality(tracked) = MapCapacity)
  <2>1. tracked' = tracked /\ map_pressure' = map_pressure + 1
    BY <1>2 DEF TrackChild
  <2> QED
    BY <2>1 DEF MapTyped
<1>3. CASE ~(Attached("sched_process_fork") /\ ThreadInScope(t))
  <2>1. tracked' = tracked /\ map_pressure' = map_pressure
    BY <1>3 DEF TrackChild
  <2> QED
    BY <1>3, <2>1 DEF MapTyped
<1> QED
  BY <1>1, <1>2, <1>3

\* The exit program removes at most the number that exits, and only once attached.
LEMMA UntrackEffect ==
  ASSUME MapTyped, NEW t, Untrack(t)
  PROVE  /\ tracked' \subseteq tracked /\ tracked \ {t} \subseteq tracked'
         /\ Cardinality(tracked') <= MapCapacity
         /\ Attached("sched_process_exit") => tracked' = tracked \ {t}
         /\ ~Attached("sched_process_exit") => tracked' = tracked
<1>1. Cardinality(tracked \ {t}) <= Cardinality(tracked)
  BY MapIsFinite, FS_Subset
<1>2. IsFiniteSet(tracked \ {t}) /\ Cardinality(tracked \ {t}) \in Nat
  BY MapIsFinite, FS_Subset, FS_CardinalityType
<1> QED
  BY <1>1, <1>2, MapIsFinite, ObserverAssumption DEF MapTyped, Untrack

(* configure_scope: the root's number is always in the scope.              *)
LEMMA ScopeHasRoot == ScopePids \subseteq Pids /\ Root \in ScopePids
BY ObserverAssumption DEF ScopePids

(* A record more in the ring, or one more counted as lost.                 *)
LEMMA ReserveEffect ==
  ASSUME ring \in 0..RingCapacity, reserve_failures \in Nat, NEW b \in BOOLEAN, ReserveEvent(b)
  PROVE  /\ ring' \in 0..RingCapacity /\ reserve_failures' \in Nat /\ more' = more
         /\ ring <= ring' /\ reserve_failures <= reserve_failures'
         /\ b /\ reserve_failures' = 0 => ring' = ring + 1
<1>1. ring \in Nat /\ ring <= RingCapacity /\ RingCapacity \in Nat
  BY ObserverAssumption
<1>2. Room => ring < RingCapacity
  BY <1>1 DEF Room
<1> QED
  BY <1>1, <1>2 DEF ReserveEvent

\* An event is owed only for a thread of the tree once every program is attached.
LEMMA OwesEffect ==
  ASSUME owed \in Nat, NEW t, Owes(t)
  PROVE  /\ owed' \in Nat
         /\ owed' # owed => owed' = owed + 1 /\ attached = Len(Hooks) /\ t \in Agent \ escaped
BY DEF Owes

----------------------------------------------------------------------------
\* Type correctness

\* The steps that leave the kernel's state alone.
Quiet ==
  \/ ResolveRegisteredAgent \/ LoadObject \/ AttachTracepoint \/ ReleaseGate \/ OpenRing
  \/ PollAgentExit \/ BeginBatch

\* The agent's events that change neither the tree nor the map.
Event(t) == Exec(t) \/ Effect(t)

(* The steps of Next, as the proofs take them.                             *)
LEMMA StepCases ==
  ASSUME Next
  PROVE  \/ Quiet \/ SpawnManagedAgent \/ ConfigureScope \/ StartCommand \/ TakeRecord \/ EndBatch
         \/ Finish \/ Fail
         \/ \E t \in Live : Exit(t) \/ Event(t) \/ ExecInThread(t) \/ KeepBusy(t)
         \/ \E t \in Live, n \in Pids : Fork(t, n) \/ CloneThread(t, n)
         \/ \E n \in Pids : ForeignStart(n)
BY DEF Next, Setup, Kernel, Quiet, Event, Interrupted, DrainDeadline

\* A quiet step leaves the kernel's state alone.
LEMMA QuietKernel == ASSUME Quiet PROVE UNCHANGED kernelVars
BY DEF Quiet, ResolveRegisteredAgent, LoadObject, AttachTracepoint, ReleaseGate, OpenRing, PollAgentExit,
       BeginBatch

\* An event changes neither the threads nor the map.
LEMMA EventKernel ==
  ASSUME NEW t, Event(t)
  PROVE  UNCHANGED <<threads, tracked, map_pressure, escaped, strays>>
BY DEF Event, Exec, Effect

\* Threads and map keep their types.
LEMMA TreeTypedStep ==
  ASSUME Typed, Next
  PROVE  ThreadsTyped' /\ MapTyped'
<1>0. ThreadsTyped /\ MapTyped /\ map_pressure \in Nat
  BY DEF Typed, CountersTyped
<1>1. ASSUME UNCHANGED <<threads, tracked, escaped, strays>> PROVE ThreadsTyped' /\ MapTyped'
  BY <1>0, <1>1, AgentUnchanged DEF MapTyped
<1>2. CASE Quiet
  BY <1>1, <1>2, QuietKernel DEF kernelVars
<1>3. CASE SpawnManagedAgent
  BY <1>0, <1>3, SpawnAgents DEF SpawnManagedAgent, MapTyped
<1>4. CASE ConfigureScope
  <2>1. ThreadsTyped' /\ Agent' = Agent
    BY <1>0, <1>4, AgentUnchanged DEF ConfigureScope
  <2>2. tracked' = ScopePids /\ escaped' = Agent \ ScopePids /\ strays' = ScopePids \ Agent
        /\ Cardinality(ScopePids) <= MapCapacity
    BY <1>4 DEF ConfigureScope
  <2> QED
    BY <2>1, <2>2, ScopeHasRoot DEF MapTyped
<1>5. CASE StartCommand \/ TakeRecord \/ EndBatch
  BY <1>1, <1>5 DEF StartCommand, TakeRecord, EndBatch, kernelVars
<1>6. CASE Finish \/ Fail
  <2>1. Leave
    BY <1>6 DEF Finish, Fail
  <2>2. tracked' = {} /\ strays' = {}
    BY <2>1 DEF Leave
  <2>3. Cardinality(tracked') <= MapCapacity
    BY <2>2, FS_EmptySet, ObserverAssumption
  <2>4. ThreadsTyped' /\ escaped' \subseteq Agent'
    BY <1>0, <2>1, LeaveAgents DEF MapTyped
  <2> QED
    BY <2>2, <2>3, <2>4 DEF MapTyped
<1>7. ASSUME NEW t \in Live, Exit(t) PROVE ThreadsTyped' /\ MapTyped'
  <2>1. ThreadsTyped' /\ Agent' = Agent \ {t}
    BY <1>0, <1>7, ExitAgents
  <2>2. Untrack(t) /\ escaped' = escaped \ {t}
        /\ strays' = IF Attached("sched_process_exit") THEN strays \ {t} ELSE strays \cup ({t} \cap tracked)
    BY <1>7 DEF Exit
  <2> QED
    BY <1>0, <2>1, <2>2, UntrackEffect DEF MapTyped
<1>8. ASSUME NEW t \in Live, Event(t) PROVE ThreadsTyped' /\ MapTyped'
  BY <1>1, <1>8, EventKernel
<1>9. ASSUME NEW t \in Live, ExecInThread(t) PROVE ThreadsTyped' /\ MapTyped'
  <2>1. PICK q : q = threads[t].tgid
    OBVIOUS
  <2>2. ThreadsTyped' /\ Agent' = (Agent \ {t}) \cup {q}
    BY <1>0, <1>9, <2>1, ExecInThreadAgents
  <2>3. tracked' = tracked /\ escaped' = (escaped \ {t}) \cup ({q} \ tracked)
        /\ strays' = (strays \cup ({t} \cap tracked)) \ {q}
    BY <1>9, <2>1 DEF ExecInThread
  <2> QED
    BY <1>0, <2>2, <2>3 DEF MapTyped
<1>10. ASSUME NEW t \in Live, NEW n \in Pids, Fork(t, n) \/ CloneThread(t, n)
       PROVE  ThreadsTyped' /\ MapTyped'
  <2>1. ThreadsTyped' /\ Agent' = Agent \cup {n}
    BY <1>0, <1>10, CloneAgents
  <2>2. TrackChild(t, n) /\ strays' = strays \ {n} /\ escaped' \subseteq escaped \cup {n}
    BY <1>10 DEF Fork, CloneThread, Clone
  <2> QED
    BY <1>0, <2>1, <2>2, TrackChildEffect DEF MapTyped
<1>11. ASSUME NEW n \in Pids, ForeignStart(n) PROVE ThreadsTyped' /\ MapTyped'
  BY <1>0, <1>11, ForeignAgents DEF ForeignStart, MapTyped
<1>12. ASSUME NEW t \in Live, KeepBusy(t) PROVE ThreadsTyped' /\ MapTyped'
  BY <1>1, <1>12 DEF KeepBusy
<1> QED
  BY <1>2, <1>3, <1>4, <1>5, <1>6, <1>7, <1>8, <1>9, <1>10, <1>11, <1>12, StepCases

\* The observer's place, and what it attached, keep their types.
LEMMA SetupTypedStep ==
  ASSUME Typed, Next
  PROVE  SetupTyped'
<1>0. SetupTyped /\ Len(Hooks) = 4
  BY DEF Typed, Hooks
<1>1. ASSUME UNCHANGED observerVars PROVE SetupTyped'
  BY <1>0, <1>1 DEF SetupTyped, observerVars, readVars
<1>2. CASE Quiet
  <2>1. CASE AttachTracepoint
    BY <1>0, <2>1 DEF AttachTracepoint, SetupTyped, readVars
  <2>2. CASE PollAgentExit
    BY <1>0, <2>2, Zenon DEF PollAgentExit, SetupTyped, readVars
  <2>3. CASE ResolveRegisteredAgent \/ LoadObject \/ ReleaseGate \/ OpenRing \/ BeginBatch
    BY <1>0, <2>3 DEF ResolveRegisteredAgent, LoadObject, ReleaseGate, OpenRing, BeginBatch, SetupTyped,
                      Steps, readVars
  <2> QED
    BY <1>2, <2>1, <2>2, <2>3 DEF Quiet
<1>3. CASE SpawnManagedAgent \/ ConfigureScope \/ StartCommand \/ TakeRecord \/ EndBatch
  BY <1>0, <1>3 DEF SpawnManagedAgent, ConfigureScope, StartCommand, TakeRecord, EndBatch, SetupTyped,
                    Steps, readVars, kernelVars
<1>4. CASE Finish
  <2>1. warned' \in BOOLEAN
    BY <1>4 DEF Finish
  <2> QED
    BY <1>0, <1>4, <2>1 DEF Finish, Leave, SetupTyped, Steps
<1>5. CASE Fail
  BY <1>0, <1>5 DEF Fail, Leave, SetupTyped, Steps, readVars
<1>6. ASSUME NEW t \in Live, Exit(t) \/ Event(t) \/ ExecInThread(t) \/ KeepBusy(t) PROVE SetupTyped'
  BY <1>1, <1>6 DEF Exit, Event, Exec, Effect, ExecInThread, KeepBusy
<1>7. ASSUME NEW t \in Live, NEW n \in Pids, Fork(t, n) \/ CloneThread(t, n) PROVE SetupTyped'
  BY <1>1, <1>7 DEF Fork, CloneThread, Clone
<1>8. ASSUME NEW n \in Pids, ForeignStart(n) PROVE SetupTyped'
  BY <1>1, <1>8 DEF ForeignStart
<1> QED
  BY <1>2, <1>3, <1>4, <1>5, <1>6, <1>7, <1>8, StepCases

\* The counters stay natural numbers.
LEMMA CountersTypedStep ==
  ASSUME Typed, Next
  PROVE  CountersTyped'
<1>0. CountersTyped /\ MapTyped /\ MaxActivity \in Nat /\ RingCapacity \in Nat
  BY ObserverAssumption DEF Typed
<1>1. ASSUME UNCHANGED <<ring, more, batch, reserve_failures, map_pressure, raw_count, decode_failures,
                         activity, owed>>
      PROVE  CountersTyped'
  BY <1>0, <1>1 DEF CountersTyped
<1>2. CASE Quiet
  BY <1>1, <1>2, QuietKernel
     DEF kernelVars, Quiet, ResolveRegisteredAgent, LoadObject, AttachTracepoint, ReleaseGate,
         OpenRing, PollAgentExit, BeginBatch, readVars
<1>3. CASE SpawnManagedAgent \/ ConfigureScope
  BY <1>1, <1>3 DEF SpawnManagedAgent, ConfigureScope, readVars
<1>4. CASE Finish \/ Fail
  BY <1>1, <1>4 DEF Finish, Fail, Leave, readVars
<1>5. CASE TakeRecord
  <2>1. UNCHANGED <<reserve_failures, map_pressure, raw_count, decode_failures, activity, owed>>
    BY <1>5 DEF TakeRecord
  <2>2. ring' \in 0..RingCapacity /\ batch' \in Nat
    BY <1>0, <1>5 DEF TakeRecord, CountersTyped
  <2>3. more' \in BOOLEAN
    BY <1>0, <1>5, Zenon DEF TakeRecord, CountersTyped
  <2> QED
    BY <1>0, <2>1, <2>2, <2>3 DEF CountersTyped
<1>13. CASE EndBatch
  BY <1>0, <1>13 DEF EndBatch, CountersTyped, kernelVars
<1>14. ASSUME NEW t \in Live, KeepBusy(t) PROVE CountersTyped'
  BY <1>0, <1>14 DEF KeepBusy, CountersTyped, observerVars, readVars
<1>6. CASE StartCommand
  <2>1. ring' \in 0..RingCapacity /\ more' = more /\ reserve_failures' \in Nat /\ owed' \in Nat
    BY <1>0, <1>6, ReserveEffect, OwesEffect DEF StartCommand, Fires, CountersTyped
  <2> QED
    BY <1>0, <1>6, <2>1 DEF StartCommand, CountersTyped, readVars
<1>7. ASSUME NEW t \in Live, Exit(t) PROVE CountersTyped'
  <2>1. ring' \in 0..RingCapacity /\ more' = more /\ reserve_failures' \in Nat /\ owed' \in Nat
    BY <1>0, <1>7, ReserveEffect, OwesEffect DEF Exit, Fires, CountersTyped
  <2> QED
    BY <1>0, <1>7, <2>1 DEF Exit, CountersTyped, observerVars, readVars
<1>8. ASSUME NEW t, AgentActs(t) PROVE activity' \in 0..MaxActivity
  BY <1>0, <1>8 DEF AgentActs, CountersTyped
<1>9. ASSUME NEW t \in Live, Event(t) PROVE CountersTyped'
  <2>1. ring' \in 0..RingCapacity /\ more' = more /\ reserve_failures' \in Nat /\ owed' \in Nat
    BY <1>0, <1>9, ReserveEffect, OwesEffect DEF Event, Exec, Effect, Fires, CountersTyped
  <2>2. activity' \in 0..MaxActivity
    BY <1>8, <1>9 DEF Event, Exec, Effect
  <2> QED
    BY <1>0, <1>9, <2>1, <2>2 DEF Event, Exec, Effect, CountersTyped, observerVars, readVars
<1>10. ASSUME NEW t \in Live, ExecInThread(t) PROVE CountersTyped'
  <2>1. ring' \in 0..RingCapacity /\ more' = more /\ reserve_failures' \in Nat
    BY <1>0, <1>10, ReserveEffect DEF ExecInThread, CountersTyped
  <2>2. activity' \in 0..MaxActivity
    BY <1>8, <1>10 DEF ExecInThread
  <2> QED
    BY <1>0, <1>10, <2>1, <2>2 DEF ExecInThread, CountersTyped, observerVars, readVars
<1>11. ASSUME NEW t \in Live, NEW n \in Pids, Fork(t, n) \/ CloneThread(t, n) PROVE CountersTyped'
  <2>1. PICK x : Clone(t, n, x)
    BY <1>11 DEF Fork, CloneThread
  <2>2. ring' \in 0..RingCapacity /\ more' = more /\ reserve_failures' \in Nat /\ owed' \in Nat
    BY <1>0, <2>1, ReserveEffect, OwesEffect DEF Clone, Fires, CountersTyped
  <2>3. map_pressure' \in Nat
    BY <1>0, <2>1, TrackChildEffect DEF Clone, CountersTyped
  <2>4. activity' \in 0..MaxActivity
    BY <1>8, <2>1 DEF Clone
  <2> QED
    BY <1>0, <2>1, <2>2, <2>3, <2>4 DEF Clone, CountersTyped, observerVars, readVars
<1>12. ASSUME NEW n \in Pids, ForeignStart(n) PROVE CountersTyped'
  BY <1>1, <1>12 DEF ForeignStart, observerVars, readVars
<1> QED
  BY <1>2, <1>3, <1>4, <1>5, <1>6, <1>7, <1>9, <1>10, <1>11, <1>12, <1>13, <1>14, StepCases

----------------------------------------------------------------------------
\* The setup and the gate

\* The observer's steps keep the order of its setup.
LEMMA SetupOrderStep ==
  ASSUME Typed, SetupOrder, Next
  PROVE  SetupOrder'
<1>0. /\ Len(Hooks) = 4 /\ step \in Steps /\ attached \in 0..4 /\ strays \subseteq tracked
      /\ gate \in {"none", "shut", "open", "passed"}
  BY DEF Typed, SetupTyped, MapTyped, Hooks
<1>1. ASSUME UNCHANGED observerVars, step # "start" \/ (tracked' = {} /\ strays' = {}) PROVE SetupOrder'
  BY <1>1 DEF SetupOrder, observerVars, Observing
<1>2. CASE Quiet
  <2>1. UNCHANGED <<tracked, strays>>
    BY <1>2, QuietKernel DEF kernelVars
  <2> QED
    BY <1>0, <1>2, <2>1
       DEF Quiet, ResolveRegisteredAgent, LoadObject, AttachTracepoint, ReleaseGate, OpenRing,
           PollAgentExit, BeginBatch, SetupOrder, Observing
<1>3. CASE SpawnManagedAgent \/ ConfigureScope \/ StartCommand \/ TakeRecord \/ EndBatch
  BY <1>0, <1>3 DEF SpawnManagedAgent, ConfigureScope, StartCommand, TakeRecord, EndBatch, SetupOrder,
                    Observing, kernelVars
<1>4. CASE Finish \/ Fail
  BY <1>0, <1>4 DEF Finish, Fail, Leave, SetupOrder, Observing
<1>5. ASSUME NEW t \in Live, Exit(t) PROVE SetupOrder'
  <2>1. step = "start" => tracked' = {} /\ strays' = {}
    BY <1>5 DEF Exit, Untrack, SetupOrder
  <2> QED
    BY <1>1, <1>5, <2>1 DEF Exit
<1>6. ASSUME NEW t \in Live, Event(t) PROVE SetupOrder'
  BY <1>1, <1>6, EventKernel DEF Event, Exec, Effect, SetupOrder
<1>7. ASSUME NEW t \in Live, ExecInThread(t) PROVE SetupOrder'
  <2>1. step = "start" => tracked' = {} /\ strays' = {}
    BY <1>7 DEF ExecInThread, SetupOrder
  <2> QED
    BY <1>1, <1>7, <2>1 DEF ExecInThread
<1>8. ASSUME NEW t \in Live, NEW n \in Pids, Fork(t, n) \/ CloneThread(t, n) PROVE SetupOrder'
  <2>1. TrackChild(t, n) /\ strays' = strays \ {n} /\ UNCHANGED observerVars
    BY <1>8 DEF Fork, CloneThread, Clone
  <2>2. step = "start" => ~Attached("sched_process_fork")
    BY DEF SetupOrder, Attached
  <2>3. step = "start" => tracked' = {} /\ strays' = {}
    BY <2>1, <2>2 DEF TrackChild, SetupOrder
  <2> QED
    BY <1>1, <2>1, <2>3
<1>9. ASSUME NEW n \in Pids, ForeignStart(n) PROVE SetupOrder'
  BY <1>1, <1>9 DEF ForeignStart
<1>10. ASSUME NEW t \in Live, KeepBusy(t) PROVE SetupOrder'
  BY <1>1, <1>10 DEF KeepBusy, SetupOrder
<1> QED
  BY <1>2, <1>3, <1>4, <1>5, <1>6, <1>7, <1>8, <1>9, <1>10, StepCases

----------------------------------------------------------------------------
\* The scope

\* What relates the map to the tree.
TreeInv == EachTracked /\ EntriesAreTheAgents /\ RootTracked

(* The map goes on to say the same about the same tree.                    *)
LEMMA TreeUnchanged ==
  ASSUME TreeInv, UNCHANGED <<threads, tracked, map_pressure, escaped, strays>>,
         step' \in Scoped => step \in Scoped,
         gate' \in {"shut", "open"} => gate \in {"shut", "open"}
  PROVE  TreeInv'
<1>1. Agent' = Agent
  BY AgentUnchanged
<1> QED
  BY <1>1 DEF TreeInv, EachTracked, EntriesAreTheAgents, RootTracked

(* A child is in the map, counted, or known to have left the scope with    *)
(* its parent.                                                             *)
LEMMA CloneKeepsTree ==
  ASSUME Typed, SetupOrder, TreeInv, NEW t \in Live, NEW n \in Pids, Fork(t, n) \/ CloneThread(t, n)
  PROVE  TreeInv'
<1>1. /\ n \notin Live /\ t \in Agent /\ Agent' = Agent \cup {n}
  BY CloneAgents DEF Typed
<1>2. PICK x : Clone(t, n, x)
  BY DEF Fork, CloneThread
<1>3. /\ UNCHANGED <<step, gate>> /\ gate \in {"none", "passed"} /\ strays' = strays \ {n}
      /\ escaped' = IF ~Attached("sched_process_fork") \/ (t \in escaped /\ ~ThreadInScope(t))
                    THEN escaped \cup {n} ELSE escaped
  BY <1>2 DEF Clone, AgentActs, observerVars
<1>4. /\ tracked \subseteq tracked' /\ tracked' \subseteq tracked \cup {n}
      /\ map_pressure' = 0 => map_pressure = 0
      /\ Attached("sched_process_fork") /\ ThreadInScope(t) /\ map_pressure' = 0 => n \in tracked'
  BY <1>2, TrackChildEffect DEF Clone, Typed, CountersTyped
<1>5. EachTracked'
  <2>1. SUFFICES ASSUME step \in Scoped, map_pressure' = 0, n \notin escaped'
                 PROVE  n \in tracked'
    BY <1>1, <1>3, <1>4, <2>1 DEF TreeInv, EachTracked
  <2>2. t \notin escaped => t \in tracked
    BY <1>1, <1>4, <2>1 DEF TreeInv, EachTracked
  <2>3. ThreadInScope(t)
    BY <1>3, <2>1, <2>2 DEF ThreadInScope, InScope
  <2> QED
    BY <1>3, <1>4, <2>1, <2>3
<1>6. EntriesAreTheAgents'
  BY <1>1, <1>3, <1>4 DEF TreeInv, EntriesAreTheAgents
<1>7. RootTracked'
  BY <1>3 DEF RootTracked
<1> QED
  BY <1>5, <1>6, <1>7 DEF TreeInv

\* An exit takes a thread out of the tree and out of the map.
LEMMA ExitKeepsTree ==
  ASSUME Typed, TreeInv, NEW t \in Live, Exit(t)
  PROVE  TreeInv'
<1>1. Agent' = Agent \ {t}
  BY ExitAgents DEF Typed
<1>2. /\ UNCHANGED <<step, gate, map_pressure>> /\ Untrack(t) /\ escaped' = escaped \ {t}
      /\ strays' = IF Attached("sched_process_exit") THEN strays \ {t} ELSE strays \cup ({t} \cap tracked)
  BY DEF Exit, observerVars
<1>3. /\ tracked' \subseteq tracked /\ tracked \ {t} \subseteq tracked'
      /\ Attached("sched_process_exit") => tracked' = tracked \ {t}
      /\ ~Attached("sched_process_exit") => tracked' = tracked
  BY <1>2, UntrackEffect DEF Typed
<1> QED
  BY <1>1, <1>2, <1>3 DEF TreeInv, EachTracked, EntriesAreTheAgents, RootTracked

\* An exec in a thread moves the process to its leader's number.
LEMMA ExecInThreadKeepsTree ==
  ASSUME Typed, TreeInv, NEW t \in Live, ExecInThread(t)
  PROVE  TreeInv'
<1>1. PICK q : q = threads[t].tgid
  OBVIOUS
<1>2. Agent' = (Agent \ {t}) \cup {q} /\ q # t
  BY <1>1, ExecInThreadAgents DEF Typed
<1>3. /\ UNCHANGED <<step, gate, map_pressure, tracked>> /\ gate \in {"none", "passed"}
      /\ escaped' = (escaped \ {t}) \cup ({q} \ tracked)
      /\ strays' = (strays \cup ({t} \cap tracked)) \ {q}
  BY <1>1 DEF ExecInThread, AgentActs, observerVars
<1> QED
  BY <1>2, <1>3 DEF TreeInv, EachTracked, EntriesAreTheAgents, RootTracked

\* Every step keeps the map and the tree in agreement.
LEMMA TreeStep ==
  ASSUME Typed, SetupOrder, TreeInv, Next
  PROVE  TreeInv'
<1>1. CASE Quiet
  <2>1. UNCHANGED <<threads, tracked, map_pressure, escaped, strays>>
    BY <1>1, QuietKernel DEF kernelVars
  <2>2. (step' \in Scoped => step \in Scoped) /\ (gate' \in {"shut", "open"} => gate \in {"shut", "open"})
    BY <1>1 DEF Quiet, ResolveRegisteredAgent, LoadObject, AttachTracepoint, ReleaseGate, OpenRing,
                PollAgentExit, BeginBatch, Scoped
  <2> QED
    BY <2>1, <2>2, TreeUnchanged
<1>2. CASE SpawnManagedAgent
  <2>1. Agent' = Agent \cup {Root} /\ step' \notin Scoped /\ UNCHANGED <<tracked, strays>>
    BY <1>2, SpawnAgents DEF SpawnManagedAgent, Typed, Scoped
  <2> QED
    BY <2>1 DEF TreeInv, EachTracked, EntriesAreTheAgents, RootTracked
<1>3. CASE ConfigureScope
  <2>1. /\ Agent' = Agent /\ tracked' = ScopePids /\ escaped' = Agent \ ScopePids
        /\ strays' = ScopePids \ Agent
    BY <1>3, AgentUnchanged DEF ConfigureScope
  <2> QED
    BY <2>1, ScopeHasRoot DEF TreeInv, EachTracked, EntriesAreTheAgents, RootTracked
<1>4. CASE StartCommand \/ TakeRecord \/ EndBatch
  BY <1>4, TreeUnchanged DEF StartCommand, TakeRecord, EndBatch, kernelVars, Scoped
<1>5. CASE Finish \/ Fail
  <2>1. step' \notin Scoped /\ tracked' = {}
    BY <1>5 DEF Finish, Fail, Leave, Scoped
  <2> QED
    BY <2>1 DEF TreeInv, EachTracked, EntriesAreTheAgents, RootTracked
<1>6. ASSUME NEW t \in Live, Exit(t) \/ Event(t) \/ ExecInThread(t) PROVE TreeInv'
  <2>1. CASE Event(t)
    BY <2>1, EventKernel, TreeUnchanged DEF Event, Exec, Effect, observerVars
  <2> QED
    BY <1>6, <2>1, ExitKeepsTree, ExecInThreadKeepsTree
<1>7. ASSUME NEW t \in Live, NEW n \in Pids, Fork(t, n) \/ CloneThread(t, n) PROVE TreeInv'
  BY <1>7, CloneKeepsTree
<1>8. ASSUME NEW n \in Pids, ForeignStart(n) PROVE TreeInv'
  <2>1. Agent' = Agent /\ UNCHANGED <<tracked, map_pressure, escaped, strays, step, gate>>
    BY <1>8, ForeignAgents DEF ForeignStart, observerVars, Typed
  <2> QED
    BY <2>1 DEF TreeInv, EachTracked, EntriesAreTheAgents, RootTracked
<1>9. ASSUME NEW t \in Live, KeepBusy(t) PROVE TreeInv'
  BY <1>9, TreeUnchanged DEF KeepBusy, observerVars
<1> QED
  BY <1>1, <1>2, <1>3, <1>4, <1>5, <1>6, <1>7, <1>8, <1>9, StepCases

----------------------------------------------------------------------------
\* Losses

\* A bound stays one when its right side grows.
LEMMA Grows ==
  \A a, b, c, d \in Nat : a <= b + c /\ c <= d => a <= b + d
OBVIOUS

(* An event of a thread in scope that is owed to the timeline reaches the  *)
(* ring, or is counted.                                                    *)
LEMMA EventAccounted ==
  ASSUME Typed, SetupOrder, TreeInv, Accounted, Observing,
         NEW t, NEW hook \in {"sched_process_exec", "sched_process_fork", "sched_process_exit", "sys_enter"},
         Fires(hook, t), Owes(t), UNCHANGED <<step, batch, raw_count, decode_failures>>,
         map_pressure' = 0 => map_pressure = 0
  PROVE  Accounted'
<1>0. /\ ring \in Nat /\ raw_count \in Nat /\ batch \in Nat /\ owed \in Nat /\ step \in Steps
      /\ ring \in 0..RingCapacity /\ reserve_failures \in Nat
  BY ObserverAssumption DEF Typed, CountersTyped, SetupTyped
<1>1. /\ ring' \in 0..RingCapacity /\ reserve_failures' \in Nat
      /\ ring <= ring' /\ reserve_failures <= reserve_failures'
      /\ Attached(hook) /\ ThreadInScope(t) /\ reserve_failures' = 0 => ring' = ring + 1
  BY <1>0, ReserveEffect DEF Fires
<1>2. /\ owed' \in Nat
      /\ owed' # owed => owed' = owed + 1 /\ attached = Len(Hooks) /\ t \in Agent \ escaped
  BY <1>0, OwesEffect
<1>3. ASSUME owed' # owed, map_pressure = 0 PROVE Attached(hook) /\ ThreadInScope(t)
  <2>1. attached = Len(Hooks) /\ Len(Hooks) = 4
    BY <1>2, <1>3 DEF Hooks
  <2>2. step \in Scoped
    BY <1>0, <2>1 DEF SetupOrder, Scoped, Steps, Observing
  <2>3. t \in tracked
    BY <1>2, <1>3, <2>2 DEF TreeInv, EachTracked
  <2> QED
    BY <2>1, <2>3, AllAttached DEF ThreadInScope, InScope
<1>4. step # "ended" /\ step' # "ended"
  BY DEF Observing
<1>5. ASSUME reserve_failures' = 0, map_pressure' = 0, decode_failures' = 0
      PROVE  owed' <= raw_count' + batch' + ring'
  <2>1. reserve_failures = 0 /\ map_pressure = 0 /\ decode_failures = 0
        /\ raw_count' = raw_count /\ batch' = batch
    BY <1>0, <1>1, <1>5
  <2>2. owed <= raw_count + batch + ring
    BY <2>1 DEF Accounted
  <2>3. CASE owed' = owed
    <3>1. ring' \in Nat /\ ring <= ring' /\ raw_count + batch \in Nat
      BY <1>0, <1>1
    <3> QED
      BY <1>0, <2>1, <2>2, <2>3, <3>1, Grows
  <2>4. CASE owed' # owed
    <3>1. Attached(hook) /\ ThreadInScope(t)
      BY <1>3, <2>1, <2>4
    <3>2. owed' = owed + 1 /\ ring' = ring + 1
      BY <1>1, <1>2, <1>5, <2>4, <3>1
    <3> QED
      BY <1>0, <2>1, <2>2, <3>2
  <2> QED
    BY <2>3, <2>4
<1> QED
  BY <1>4, <1>5 DEF Accounted

\* Every step keeps the account of the events that were owed.
LEMMA AccountedStep ==
  ASSUME Typed, SetupOrder, TreeInv, Accounted, Next
  PROVE  Accounted'
<1>0. /\ ring \in Nat /\ batch \in Nat /\ raw_count \in Nat /\ owed \in Nat /\ decode_failures \in Nat
      /\ reserve_failures \in Nat /\ map_pressure \in Nat
      /\ ring \in 0..RingCapacity
  BY ObserverAssumption DEF Typed, CountersTyped
<1>1. ASSUME UNCHANGED <<ring, batch, reserve_failures, map_pressure, raw_count, decode_failures, owed>>,
             step' # "ended", step' = step \/ step' \in {"reading", "failed"} \/ batch = 0
      PROVE  Accounted'
  BY <1>1 DEF Accounted
<1>2. CASE Quiet
  <2>1. UNCHANGED <<kernelVars, readVars>> /\ step' # "ended" /\ step \notin {"reading", "failed"}
    BY <1>2, QuietKernel
       DEF Quiet, ResolveRegisteredAgent, LoadObject, AttachTracepoint, ReleaseGate,
           OpenRing, PollAgentExit, BeginBatch
  <2> QED
    BY <1>1, <2>1 DEF kernelVars, readVars, Accounted
<1>3. CASE SpawnManagedAgent \/ ConfigureScope
  BY <1>1, <1>3 DEF SpawnManagedAgent, ConfigureScope, readVars, Accounted
<1>4. CASE Fail
  BY <1>1, <1>4 DEF Fail, Leave, readVars
<1>5. CASE Finish
  <2>1. /\ UNCHANGED <<ring, batch, reserve_failures, map_pressure, raw_count, decode_failures, owed>>
        /\ step = "observing" /\ warned' = (reserve_failures + map_pressure + decode_failures > 0)
    BY <1>5 DEF Finish, Leave
  <2>2. ~(reserve_failures + map_pressure + decode_failures > 0) =>
           reserve_failures = 0 /\ map_pressure = 0 /\ decode_failures = 0
    BY <1>0
  <2> QED
    BY <2>1, <2>2 DEF Accounted
<1>6. CASE TakeRecord
  <2>1. /\ UNCHANGED <<step, warned, reserve_failures, map_pressure, raw_count, decode_failures, owed>>
        /\ step = "reading"
    BY <1>6 DEF TakeRecord
  <2>2. batch' + ring' = batch + ring /\ batch' \in Nat /\ ring' \in Nat
    BY <1>0, <1>6 DEF TakeRecord
  <2>3. raw_count + batch' + ring' = raw_count + batch + ring
    <3>1. CASE ring' = ring /\ batch' = batch
      BY <3>1
    <3>2. CASE ring' = ring - 1 /\ batch' = batch + 1
      BY <1>0, <3>2
    <3> QED
      BY <1>6, <3>1, <3>2 DEF TakeRecord
  <2> QED
    BY <2>1, <2>3 DEF Accounted
<1>13. CASE EndBatch
  <2>1. PICK bad \in 0..batch : /\ raw_count' = raw_count + batch - bad
                                /\ decode_failures' = decode_failures + bad
    BY <1>13 DEF EndBatch
  <2>2. /\ UNCHANGED <<warned, reserve_failures, map_pressure, owed, ring>>
        /\ batch' = 0 /\ step' = "observing"
    BY <1>13 DEF EndBatch, kernelVars
  <2>3. ASSUME reserve_failures' = 0, map_pressure' = 0, decode_failures' = 0
        PROVE  owed' <= raw_count' + batch' + ring'
    <3>1. bad = 0 /\ decode_failures = 0
      BY <1>0, <2>1, <2>3
    <3>2. owed <= raw_count + batch + ring
      BY <2>2, <2>3, <3>1 DEF Accounted
    <3> QED
      BY <1>0, <2>1, <2>2, <3>1, <3>2
  <2> QED
    BY <2>2, <2>3 DEF Accounted
<1>14. ASSUME NEW t \in Live, KeepBusy(t) PROVE Accounted'
  BY <1>1, <1>14 DEF KeepBusy, Observing, observerVars, readVars
<1>7. CASE StartCommand
  BY <1>7, EventAccounted DEF StartCommand, readVars
<1>8. ASSUME NEW t \in Live, Exit(t) PROVE Accounted'
  BY <1>8, EventAccounted DEF Exit, observerVars, readVars
<1>9. ASSUME NEW t \in Live, Event(t) PROVE Accounted'
  BY <1>9, EventAccounted DEF Event, Exec, Effect, AgentActs, observerVars, readVars
<1>10. ASSUME NEW t \in Live, ExecInThread(t) PROVE Accounted'
  <2>1. /\ UNCHANGED <<step, map_pressure, batch, raw_count, decode_failures, owed>> /\ step # "ended"
    BY <1>10 DEF ExecInThread, AgentActs, Observing, observerVars, readVars
  <2>2. ring' \in 0..RingCapacity /\ ring <= ring' /\ reserve_failures' \in Nat
        /\ reserve_failures <= reserve_failures'
    BY <1>0, <1>10, ReserveEffect DEF ExecInThread
  <2>3. ASSUME reserve_failures' = 0, map_pressure' = 0, decode_failures' = 0
        PROVE  owed' <= raw_count' + batch' + ring'
    <3>1. reserve_failures = 0 /\ map_pressure = 0 /\ decode_failures = 0
      BY <1>0, <2>1, <2>2, <2>3
    <3>2. owed <= raw_count + batch + ring
      BY <3>1 DEF Accounted
    <3>3. ring' \in Nat /\ ring <= ring' /\ raw_count + batch \in Nat
      BY <1>0, <2>2
    <3> QED
      BY <1>0, <2>1, <3>2, <3>3, Grows
  <2> QED
    BY <2>1, <2>3 DEF Accounted
<1>11. ASSUME NEW t \in Live, NEW n \in Pids, Fork(t, n) \/ CloneThread(t, n) PROVE Accounted'
  <2>1. PICK x : Clone(t, n, x)
    BY <1>11 DEF Fork, CloneThread
  <2>2. map_pressure' = 0 => map_pressure = 0
    BY <1>0, <2>1, TrackChildEffect DEF Clone, Typed
  <2> QED
    BY <2>1, <2>2, EventAccounted DEF Clone, AgentActs, observerVars, readVars
<1>12. ASSUME NEW n \in Pids, ForeignStart(n) PROVE Accounted'
  BY <1>1, <1>12 DEF ForeignStart, Observing, observerVars, readVars
<1> QED
  BY <1>2, <1>3, <1>4, <1>5, <1>6, <1>7, <1>8, <1>9, <1>10, <1>11, <1>12, <1>13, <1>14, StepCases

----------------------------------------------------------------------------
\* The theorems

ObserverInv == Typed /\ SetupOrder /\ TreeInv /\ Accounted

\* Nothing is spawned, attached or counted at the start.
LEMMA ObserverInitially == Init => ObserverInv
<1> SUFFICES ASSUME Init PROVE ObserverInv
  OBVIOUS
<1>1. Thread(Root, Init1, TRUE) \in ThreadType
  BY ObserverAssumption DEF Thread, ThreadType
<1>2. ThreadsTyped
  BY <1>1, ObserverAssumption DEF Init, ThreadsTyped, ThreadType, Live
<1>3. MapTyped
  <2>1. Cardinality(tracked) <= MapCapacity
    BY FS_EmptySet, ObserverAssumption DEF Init
  <2> QED
    BY <2>1 DEF Init, MapTyped
<1>4. CountersTyped
  <2>1. more \in BOOLEAN
    BY Zenon DEF Init
  <2> QED
    BY <2>1, ObserverAssumption DEF Init, CountersTyped
<1>5. SetupTyped
  <2>1. attached \in 0..Len(Hooks)
    BY DEF Init, Hooks
  <2> QED
    BY <2>1, Zenon DEF Init, SetupTyped, Steps
<1>6. SetupOrder /\ TreeInv /\ Accounted
  BY DEF Init, SetupOrder, TreeInv, EachTracked, EntriesAreTheAgents, RootTracked, Accounted, Scoped
<1> QED
  BY <1>2, <1>3, <1>4, <1>5, <1>6 DEF ObserverInv, Typed

\* Every step keeps the invariant.
LEMMA ObserverKept == ObserverInv /\ [Next]_vars => ObserverInv'
<1>1. CASE Next
  BY <1>1, TreeTypedStep, SetupTypedStep, CountersTypedStep, SetupOrderStep, TreeStep, AccountedStep
     DEF ObserverInv, Typed
<1>2. ASSUME ObserverInv, UNCHANGED vars PROVE ObserverInv'
  <2>1. UNCHANGED <<threads, tracked, map_pressure, escaped, strays, step, gate>>
    BY <1>2 DEF vars, kernelVars
  <2>2. TreeInv' /\ ThreadsTyped' /\ Agent' = Agent
    BY <1>2, <2>1, TreeUnchanged, AgentUnchanged DEF ObserverInv, Typed
  <2>3. MapTyped' /\ CountersTyped' /\ SetupTyped'
    BY <1>2, <2>2 DEF ObserverInv, Typed, MapTyped, CountersTyped, SetupTyped, vars, kernelVars, readVars
  <2>4. SetupOrder' /\ Accounted'
    BY <1>2 DEF ObserverInv, SetupOrder, Accounted, Observing, vars, kernelVars, readVars
  <2> QED
    BY <2>2, <2>3, <2>4 DEF ObserverInv, Typed
<1> QED
  BY <1>1, <1>2

\* The observer's inductive invariant holds in every reachable state.
LEMMA ObserverInvariant == Spec => []ObserverInv
BY ObserverInitially, ObserverKept, PTL DEF Spec

(* The map, the ring and the counters of the observer keep their types,    *)
(* and the map its capacity.                                               *)
THEOREM ObserverTypeCorrect == Spec => []TypeOK
<1>1. ObserverInv => TypeOK
  BY DEF ObserverInv, Typed, ThreadsTyped, MapTyped, CountersTyped, SetupTyped, TypeOK
<1> QED
  BY <1>1, ObserverInvariant, PTL

(* Every live thread of the agent's tree is in scope from configure_scope  *)
(* to the end, but for a full map and the two known ways out of the scope. *)
THEOREM ScopeFollowsAgent == Spec => []AgentTreeObserved
<1>1. ObserverInv => AgentTreeObserved
  BY DEF ObserverInv, TreeInv, EachTracked, AgentTreeObserved, ThreadInScope, InScope, Scoped
<1> QED
  BY <1>1, ObserverInvariant, PTL

(* No number in the map is that of a foreign process, but for the entries  *)
(* an exit before the exit hook or an exec of a thread left behind.        *)
THEOREM MapHoldsAgent == Spec => []EntriesAreTheAgents
<1>1. ObserverInv => EntriesAreTheAgents
  BY DEF ObserverInv, TreeInv
<1> QED
  BY <1>1, ObserverInvariant, PTL

(* A managed command runs only with every hook attached and its root in    *)
(* the map.                                                                *)
THEOREM GateSound == Spec => []GateHolds
<1>1. ObserverInv => GateHolds
  BY DEF ObserverInv, SetupOrder, TreeInv, RootTracked, GateHolds, Scoped
<1> QED
  BY <1>1, ObserverInvariant, PTL

(* An observation that ends without a warning lost nothing but what was in *)
(* the ring buffer: for every capacity of the map and of the ring.         *)
THEOREM LossSound == Spec => []LossAnnounced
<1>1. ObserverInv => LossAnnounced
  <2>1. ASSUME ObserverInv, step = "ended", ~warned PROVE owed <= raw_count + ring
    <3>1. owed <= raw_count + batch + ring /\ batch = 0
      BY <2>1 DEF ObserverInv, Accounted
    <3>2. raw_count \in Nat /\ ring \in 0..RingCapacity
      BY <2>1 DEF ObserverInv, Typed, CountersTyped
    <3> QED
      BY <3>1, <3>2
  <2> QED
    BY <2>1 DEF LossAnnounced
<1> QED
  BY <1>1, ObserverInvariant, PTL
=============================================================================
