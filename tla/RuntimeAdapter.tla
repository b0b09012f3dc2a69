--------------------------- MODULE RuntimeAdapter ---------------------------
(***************************************************************************)
(* One runtime adapter task (adapter.rs): a backend that scans an engine   *)
(* for marked workloads and the loop of run_runtime_adapter_with_policy    *)
(* that ingests what the backend returns, counts errors, backs off and     *)
(* reports the adapter's health.  The backends are the polling Docker      *)
(* client, the CRI client for containerd and for k3s, the Kubernetes       *)
(* client and the one-shot Docker client, which takes a list of ids.       *)
(* Workloads come and go beside the task.  What ingestion does to the      *)
(* registry is in DaemonState, what it waits for in DaemonServer.          *)
(***************************************************************************)
EXTENDS Naturals, Sequences, FiniteSets, SequencesExt

CONSTANTS
  Ids,          \* container ids and pod uids, numbers in their sorting order
  Setups,       \* what a task may be started with: its backend and seen capacity, where
                \* the workloads' labels are, and which pods are on another node
  MaxFaults,    \* bound: engine calls that fail for no lasting reason, failed ingestions
  CounterMax    \* where the counters saturate (u64::MAX)

Polling == {"docker", "containerd", "k3s"}
Marks == {"own", "sandbox", "none"}

\* config.rs refuses a seen capacity of zero; remember_seen has no limit then.
ASSUME AdapterAssumption ==
  /\ IsFiniteSet(Ids)
  /\ Ids \subseteq Nat
  /\ Setups \subseteq [backend : Polling \cup {"kubernetes", "once"},
                        seen_capacity : Nat \ {0},
                        mark : [Ids -> Marks],
                        elsewhere : SUBSET Ids]
  /\ MaxFaults \in Nat
  /\ CounterMax \in Nat \ {0}

VARIABLES
  setup,      \* the one of this task
  running,    \* workloads that run now
  containers, \* Kubernetes: how the containers are that a pod's status lists
  at,         \* where the task is
  pending,    \* pending_container_ids, pending_snapshots
  seen,       \* seen_container_ids, seen_pod_uids
  listed,     \* the answer of the engine that is being worked on
  resolved,   \* Kubernetes: the listed pods whose cgroup is known
  hand,       \* the id that was popped and is being worked on, if any
  missing,    \* the outcome of discover_cgroup in hand is MissingIntent
  recovered,  \* recovered_backend
  errors,     \* consecutive_backend_errors
  summary,    \* RuntimeAdapterSummary
  health,     \* the adapter's ComponentState in the daemon's health
  shutdown,   \* the shutdown signal was sent
  faults,     \* such failures so far
  remembered, \* history: ids remember_seen let through, or given at the start
  recorded,   \* history: ids with a runtime_workload_discovered record
  given_up,   \* history: ids dropped with an error that was counted
  ingests     \* history: how often an id was handed to ingestion, up to 2

world == <<running, containers>>
scan == <<pending, seen, listed, resolved, hand>>
loop == <<missing, recovered, errors, summary, health>>
history == <<remembered, recorded, given_up, ingests>>
vars == <<setup, world, at, scan, loop, shutdown, faults, history>>

backend == setup.backend
capacity == setup.seen_capacity
mark == setup.mark
elsewhere == setup.elsewhere

\* missing_intent counts a part of the discovered and is left out.
Counters == {"discovered", "backend_errors", "backend_recoveries", "ingest_errors"}

\* The steps of next_workload, which the select! drops when the signal comes.
Cancellable == {"next", "inspect", "resolve", "sleep"}
Ingesting == {"discover", "record", "finding"}
Stopped == {"ended", "aborted"}

\* All that a pod's status lists run; one has ended; none has an id.
ContainerStates == {"up", "exited", "unknown"}

TypeOK ==
  /\ setup \in Setups
  /\ running \subseteq Ids
  /\ containers \in [Ids -> ContainerStates]
  /\ at \in Cancellable \cup Ingesting \cup {"filter", "backoff"} \cup Stopped
  /\ pending \in Seq(Ids)
  /\ seen \subseteq Ids
  /\ listed \in Seq(Ids)
  /\ resolved \subseteq Ids
  /\ hand \subseteq Ids
  /\ Cardinality(hand) <= 1
  /\ missing \in BOOLEAN
  /\ recovered \in BOOLEAN
  /\ errors \in 0..CounterMax
  /\ summary \in [Counters -> 0..CounterMax]
  /\ health \in {"Unavailable", "Ready", "Degraded"}
  /\ shutdown \in BOOLEAN
  /\ faults \in 0..MaxFaults
  /\ remembered \subseteq Ids
  /\ recorded \subseteq Ids
  /\ given_up \subseteq Ids
  /\ ingests \in [Ids -> 0..2]
-----------------------------------------------------------------------------
\* saturating_add(1)
Increment(n) == IF n < CounterMax THEN n + 1 ELSE n
Count(counters) == summary' = [k \in Counters |-> IF k \in counters THEN Increment(summary[k])
                                                                    ELSE summary[k]]

(***************************************************************************)
(* What the engine answers.  Docker and containerd list running containers *)
(* with a label of their own, k3s also those whose sandbox has one, kubectl*)
(* running pods with the annotation, on this node or elsewhere.  The order *)
(* is the engine's.                                                        *)
(***************************************************************************)
MarkedContainerIds == {c \in running \ elsewhere : mark[c] = "own"}
MarkedCriContainerIds == {c \in running \ elsewhere : mark[c] = "own"}
ContainerCandidates == {c \in running \ elsewhere : mark[c] \in {"own", "sandbox"}}
MarkedPods == {c \in running : mark[c] = "own"}

Answer ==
  CASE backend = "kubernetes" -> MarkedPods
    [] backend = "k3s" -> ContainerCandidates
    [] backend = "containerd" -> MarkedCriContainerIds
    [] OTHER -> MarkedContainerIds

\* Inspection succeeds and the pid or the cgroups path leads to a cgroup: the
\* workload still runs, here, and so does every container that is inspected for
\* it; one that has ended has no pid.
Inspectable(c) == c \in running \ elsewhere /\ containers[c] # "exited"

\* Running pods that are marked and have no container with an id.
Unknown == {c \in MarkedPods : backend = "kubernetes" /\ containers[c] = "unknown"}

\* Mutant: the labels of the sandbox are not taken over.
HasSession_OwnLabels(c) == mark[c] = "own"

\* The labels of the snapshot name a session; those of a sandbox are taken
\* over from the candidate, which only k3s lists.
HasSession(c) == mark[c] = "own" \/ (backend = "k3s" /\ mark[c] = "sandbox")

\* Mutant: room is made one id too early.
Evicted_Early ==
  IF seen # {} /\ Cardinality(seen) + 1 >= capacity THEN seen \ {Min(seen)} ELSE seen

\* remember_seen: at the limit the first id of the ordered set makes room.
Evicted == IF Cardinality(seen) >= capacity THEN seen \ {Min(seen)} ELSE seen

\* The daemon starts the polling backends with nothing pending.
Init ==
  /\ setup \in Setups
  /\ running \in SUBSET Ids
  /\ containers = [c \in Ids |-> "up"]
  /\ at = "next"
  /\ pending \in IF backend = "once" THEN SetToSeqs(Ids) ELSE {<<>>}
  /\ seen = {}
  /\ listed = <<>>
  /\ resolved = {}
  /\ hand = {}
  /\ missing = FALSE
  /\ recovered = FALSE
  /\ errors = 0
  /\ summary = [k \in Counters |-> 0]
  /\ health = "Unavailable"
  /\ shutdown = FALSE
  /\ faults = 0
  /\ remembered = Range(pending)
  /\ recorded = {}
  /\ given_up = {}
  /\ ingests = [c \in Ids |-> 0]
-----------------------------------------------------------------------------
(***************************************************************************)
(* Beside the task: workloads start and stop, the same id more than once,  *)
(* and serve sends the signal and aborts the task after its deadline.      *)
(* Nothing is of interest after the task's end.                            *)
(***************************************************************************)
Start(c) ==
  /\ at \notin Stopped
  /\ c \notin running
  /\ running' = running \cup {c}
  /\ UNCHANGED <<setup, containers, at, scan, loop, shutdown, faults, history>>

Stop(c) ==
  /\ at \notin Stopped
  /\ c \in running
  /\ running' = running \ {c}
  /\ containers' = [containers EXCEPT ![c] = "up"]
  /\ UNCHANGED <<setup, at, scan, loop, shutdown, faults, history>>

\* While its pod runs a container ends, is started again or has no id yet.
\* What those of a pod elsewhere do is not of interest, its inspection fails.
ContainersChange(c) ==
  /\ at \notin Stopped
  /\ backend = "kubernetes"
  /\ c \in running \ elsewhere
  /\ \E state \in ContainerStates \ {containers[c]} :
       containers' = [containers EXCEPT ![c] = state]
  /\ UNCHANGED <<setup, running, at, scan, loop, shutdown, faults, history>>

SendShutdown ==
  /\ at \notin Stopped
  /\ ~shutdown
  /\ shutdown' = TRUE
  /\ UNCHANGED <<setup, world, at, scan, loop, faults, history>>

Abort ==
  /\ shutdown
  /\ at \notin Stopped \cup {"filter"}
  /\ at' = "aborted"
  /\ UNCHANGED <<setup, world, scan, loop, shutdown, faults, history>>
-----------------------------------------------------------------------------
(***************************************************************************)
(* The loop's reaction to an error of the backend; the future of           *)
(* next_workload is gone, and with it whatever it had not stored.          *)
(***************************************************************************)
BackendError ==
  /\ errors' = Increment(errors)
  /\ Count({"backend_errors"})
  /\ health' = "Degraded"
  /\ at' = "backoff"
  /\ listed' = <<>>
  /\ resolved' = {}
  /\ hand' = {}
  /\ UNCHANGED <<missing, recovered>>

\* A call fails because of the engine, not because of what it was asked; an
\* ingestion fails because of the registry, the observer or the store.
Fault == faults < MaxFaults /\ faults' = faults + 1

\* Mutant: the run of errors is not ended.
Ingest_KeepsErrors(workload) ==
  /\ recovered' = (errors > 0)
  /\ ingests' = [c \in Ids |-> IF c \in workload /\ ingests[c] < 2 THEN ingests[c] + 1
                                                                  ELSE ingests[c]]
  /\ UNCHANGED errors

\* The loop got a workload.
Ingest(workload) ==
  /\ recovered' = (errors > 0)
  /\ errors' = 0
  /\ ingests' = [c \in Ids |-> IF c \in workload /\ ingests[c] < 2 THEN ingests[c] + 1
                                                                  ELSE ingests[c]]

\* pop_front: a container is inspected now, a pod has been inspected already.
Pop ==
  /\ at = "next"
  /\ pending # <<>>
  /\ hand' = {Head(pending)}
  /\ pending' = Tail(pending)
  /\ at' = IF backend = "kubernetes" THEN "discover" ELSE "inspect"
  /\ IF backend = "kubernetes" THEN Ingest({Head(pending)})
                                ELSE UNCHANGED <<recovered, errors, ingests>>
  /\ UNCHANGED <<setup, world, seen, listed, resolved, missing, summary, health, shutdown,
                 faults, remembered, recorded, given_up>>

\* A workload is returned to the loop, which starts to ingest it.
Inspect ==
  /\ at = "inspect"
  /\ \A c \in hand : Inspectable(c) /\ HasSession(c)
  /\ Ingest(hand)
  /\ at' = "discover"
  /\ UNCHANGED <<setup, world, scan, missing, summary, health, shutdown, faults, remembered,
                 recorded, given_up>>

\* Ok(None): not marked after all; the next id is popped.
InspectUnmarked ==
  /\ at = "inspect"
  /\ \A c \in hand : Inspectable(c) /\ ~HasSession(c)
  /\ hand' = {}
  /\ at' = "next"
  /\ UNCHANGED <<setup, world, pending, seen, listed, resolved, loop, shutdown, faults, history>>

\* The popped id is gone from the backlog and stays among the seen.
InspectFails ==
  /\ at = "inspect"
  /\ \/ (\E c \in hand : ~Inspectable(c)) /\ UNCHANGED faults
     \/ Fault
  /\ BackendError
  /\ given_up' = given_up \cup hand
  /\ UNCHANGED <<setup, world, pending, seen, shutdown, remembered, recorded, ingests>>
-----------------------------------------------------------------------------
(***************************************************************************)
(* A scan.                                                                 *)
(***************************************************************************)
List ==
  /\ at = "next"
  /\ pending = <<>>
  /\ backend # "once"
  /\ Unknown = {}
  /\ listed' \in SetToSeqs(Answer)
  /\ at' = IF backend = "kubernetes" THEN "resolve" ELSE "filter"
  /\ UNCHANGED <<setup, world, pending, seen, resolved, hand, loop, shutdown, faults, history>>

\* A pod with no known container makes the whole list an error, before anything
\* of it is remembered; it is refused here, its inspections left out.
ListFails ==
  /\ at = "next"
  /\ pending = <<>>
  /\ backend # "once"
  /\ \/ Unknown # {} /\ UNCHANGED faults
     \/ Fault
  /\ BackendError
  /\ UNCHANGED <<setup, world, pending, seen, shutdown, history>>

\* container_cgroups_from_pod_list: every container of every listed pod, in the
\* order of their ids, before any pod is remembered; a pod's are one step.
Unresolved == Range(listed) \ resolved

ResolvePod ==
  /\ at = "resolve"
  /\ Unresolved # {}
  /\ Inspectable(Min(Unresolved))
  /\ resolved' = resolved \cup {Min(Unresolved)}
  /\ UNCHANGED <<setup, world, at, pending, seen, listed, hand, loop, shutdown, faults, history>>

\* Mutant: the listed pods are remembered although the scan failed.
ResolveFails_Remembers ==
  /\ at = "resolve"
  /\ Unresolved # {}
  /\ ~Inspectable(Min(Unresolved))
  /\ BackendError
  /\ seen' = seen \cup {Min(Unresolved)}
  /\ remembered' = remembered \cup {Min(Unresolved)}
  /\ given_up' = given_up \cup {Min(Unresolved)}
  /\ UNCHANGED <<setup, world, pending, shutdown, faults, recorded, ingests>>

\* One failed inspection ends the whole scan.
ResolveFails ==
  /\ at = "resolve"
  /\ Unresolved # {}
  /\ \/ ~Inspectable(Min(Unresolved)) /\ UNCHANGED faults
     \/ Fault
  /\ BackendError
  /\ UNCHANGED <<setup, world, pending, seen, shutdown, history>>

Resolved ==
  /\ at = "resolve"
  /\ Unresolved = {}
  /\ at' = "filter"
  /\ resolved' = {}
  /\ UNCHANGED <<setup, world, pending, seen, listed, hand, loop, shutdown, faults, history>>

\* Mutant: the new backlog keeps one id of the answer only.
RememberSeen_LastOnly ==
  /\ at = "filter"
  /\ listed # <<>>
  /\ IF Head(listed) \in seen
       THEN UNCHANGED <<seen, pending, remembered>>
       ELSE /\ seen' = Evicted \cup {Head(listed)}
            /\ pending' = <<Head(listed)>>
            /\ remembered' = remembered \cup {Head(listed)}
  /\ listed' = Tail(listed)
  /\ UNCHANGED <<setup, world, at, resolved, hand, loop, shutdown, faults, recorded, given_up,
                 ingests>>

\* One id of the answer passes the filter; there is no await in between.
RememberSeen ==
  /\ at = "filter"
  /\ listed # <<>>
  /\ IF Head(listed) \in seen
       THEN UNCHANGED <<seen, pending, remembered>>
       ELSE /\ seen' = Evicted \cup {Head(listed)}
            /\ pending' = Append(pending, Head(listed))
            /\ remembered' = remembered \cup {Head(listed)}
  /\ listed' = Tail(listed)
  /\ UNCHANGED <<setup, world, at, resolved, hand, loop, shutdown, faults, recorded, given_up,
                 ingests>>

Filtered ==
  /\ at = "filter"
  /\ listed = <<>>
  /\ at' = IF pending = <<>> THEN "sleep" ELSE "next"
  /\ UNCHANGED <<setup, world, scan, loop, shutdown, faults, history>>

Wake ==
  /\ at \in {"sleep", "backoff"}
  /\ at' = "next"
  /\ UNCHANGED <<setup, world, scan, loop, shutdown, faults, history>>
-----------------------------------------------------------------------------
(***************************************************************************)
(* ingest_runtime_workload: associate, record, report a missing intent,    *)
(* then Ready.  Each of the first three can fail and ends the ingestion.   *)
(***************************************************************************)
EndOfIngestion ==
  /\ hand' = {}
  /\ missing' = FALSE
  /\ recovered' = FALSE

Ingested ==
  /\ Count({"discovered"} \cup (IF recovered THEN {"backend_recoveries"} ELSE {}))
  /\ health' = "Ready"
  /\ at' = "next"
  /\ EndOfIngestion

Discover ==
  /\ at = "discover"
  /\ missing' \in BOOLEAN
  /\ at' = "record"
  /\ UNCHANGED <<setup, world, scan, recovered, errors, summary, health, shutdown, faults,
                 history>>

Record ==
  /\ at = "record"
  /\ recorded' = recorded \cup hand
  /\ IF missing THEN at' = "finding" /\ UNCHANGED <<summary, health, missing, recovered, hand>>
                ELSE Ingested
  /\ UNCHANGED <<setup, world, pending, seen, listed, resolved, errors, shutdown, faults,
                 remembered, given_up, ingests>>

Finding ==
  /\ at = "finding"
  /\ Ingested
  /\ UNCHANGED <<setup, world, pending, seen, listed, resolved, errors, shutdown, faults,
                 history>>

IngestFails ==
  /\ at \in Ingesting
  /\ Fault
  /\ Count({"ingest_errors"})
  /\ health' = "Degraded"
  /\ given_up' = given_up \cup hand
  /\ at' = "next"
  /\ EndOfIngestion
  /\ UNCHANGED <<setup, world, pending, seen, listed, resolved, errors, shutdown, remembered,
                 recorded, ingests>>

\* The signal, at a select!; or the one-shot backend has nothing left.
Break ==
  /\ \/ shutdown /\ at \in Cancellable \cup {"backoff"}
     \/ backend = "once" /\ at = "next" /\ pending = <<>>
  /\ at' = "ended"
  /\ UNCHANGED <<setup, world, scan, loop, shutdown, faults, history>>
-----------------------------------------------------------------------------
Step ==
  \/ Pop \/ Inspect \/ InspectUnmarked \/ InspectFails
  \/ List \/ ListFails \/ ResolvePod \/ ResolveFails \/ Resolved \/ RememberSeen \/ Filtered
  \/ Wake
  \/ Discover \/ Record \/ Finding \/ IngestFails

Next ==
  \/ \E c \in Ids : Start(c) \/ Stop(c) \/ ContainersChange(c)
  \/ SendShutdown \/ Abort
  \/ Step
  \/ Break

Spec == Init /\ [][Next]_vars

\* The task is scheduled; engine calls and ingestions return.
FairSpec == Spec /\ WF_vars(Step)
-----------------------------------------------------------------------------
\* Nothing vanishes: an id that was once remembered as seen, and so is not
\* looked at again, is still in the backlog or in hand, has its record in the
\* timeline, was dropped by an error that was counted, or turned out to be
\* unmarked; while the task runs, whatever fails.
NothingVanishes ==
  at \notin Stopped =>
    \A c \in remembered :
      c \in Range(pending) \cup hand \cup recorded \cup given_up \/ ~HasSession(c)

\* A failed Kubernetes scan is retried in full: no pod is ever dropped because
\* of an inspection, its own or another's.
PodsSurviveFailedScans ==
  backend = "kubernetes" /\ summary["ingest_errors"] = 0 => given_up = {}

\* While the seen set is large enough, no workload is handed to ingestion a
\* second time, however often it is listed, stops and starts again.
IngestedOnce ==
  capacity >= Cardinality(Ids) => \A c \in Ids : ingests[c] <= 1

\* The seen set never exceeds its capacity.
SeenBounded == Cardinality(seen) <= capacity

\* While the backend is failing the adapter is reported Degraded, and it is
\* reported Ready only when a workload has reached the timeline.
HealthIsHonest ==
  /\ errors > 0 => health = "Degraded"
  /\ health = "Ready" => recorded # {} /\ summary["discovered"] > 0

\* Workloads and their containers stop coming and going.
Settles == <>[][UNCHANGED world]_vars

\* Marked pods that no scan gets past: a failed inspection fails the scan for
\* all pods.
Blockers == {c \in MarkedPods : c \in elsewhere \/ containers[c] # "up"}

\* A marked workload that runs here is taken up: it reaches the timeline, or is
\* dropped with a counted error; unless it stops, or the task does.  In
\* Kubernetes it takes that the scans can succeed: that the pods settle, and
\* that every marked pod that runs is on this node and has all the containers
\* its status lists up; one pod with a sidecar that has ended keeps all others
\* from being taken.
MarkedIsTaken ==
  (backend = "kubernetes" => Settles) =>
  \A c \in Ids :
    (c \in Answer \ elsewhere) ~>
      \/ c \in recorded \cup given_up
      \/ c \notin running
      \/ backend = "kubernetes" /\ Blockers # {}
      \/ shutdown
      \/ at \in Stopped
=============================================================================
