--------------------------- MODULE EventPipeline ---------------------------
(***************************************************************************)
(* The daemon's event pipeline (apolysis-daemon, pipeline.rs) over the     *)
(* bounded priority queue (apolysis-accountability, queue.rs): submitting  *)
(* threads, one writer task, an atomic admission flag, a mutex around the  *)
(* queue, a one-permit Notify and the shutdown signal.  The steps of       *)
(* submit and run_writer are the ones between which another thread can     *)
(* run: each load or store of the flag, the mutex, the notification and    *)
(* the await of the sink.                                                  *)
(***************************************************************************)
EXTENDS Naturals, Sequences, FiniteSets

CONSTANTS
  Producers,      \* threads that call submit
  Capacity,       \* config.queue_capacity
  UsedPriorities, \* the priorities the submitted records have
  MaxRecords,     \* records each producer submits
  NoRecord,       \* the writer holds no record
  NoProducer      \* the queue's mutex is free

Priorities == 1..5
Ordinary == 1     \* Lifecycle 2, Diagnostic 3, Finding 4, Integrity 5

Record == [from : Producers, number : 1..MaxRecords, priority : Priorities]

ASSUME PipelineAssumption ==
  /\ IsFiniteSet(Producers)
  /\ Capacity \in Nat
  /\ UsedPriorities \subseteq Priorities
  /\ MaxRecords \in Nat
  /\ NoRecord \notin Record
  /\ NoProducer \notin Producers

VARIABLES
  queues,       \* priority -> FIFO of records, behind the mutex
  depth,        \* QueueStats.depth
  dropped,      \* QueueStats.dropped: priority -> records given up
  holder,       \* the producer inside the queue's critical section, if any
  accepting,    \* AtomicBool
  permit,       \* Notify's stored permit
  pc,           \* producer -> its place in submit
  submitting,   \* producer -> the record of its current or last submit
  writer,       \* the place of run_writer
  stopping,     \* run_writer's local flag
  current,      \* the record handed to the sink
  shutdown,     \* the oneshot was fired
  accepted,     \* history: records enqueued, in order (QueueStats.accepted is its length)
  handled,      \* history: records whose sink call returned, in order
  shed          \* history: accepted records evicted from the queue

queueVars == <<queues, depth, dropped>>
writerVars == <<writer, stopping, current>>
history == <<accepted, handled, shed>>
vars == <<queues, depth, dropped, holder, accepting, permit, pc, submitting, writer,
          stopping, current, shutdown, accepted, handled, shed>>

ProducerSteps == {"idle", "admitted_unlocked", "locked", "admitted", "pushed"}
WriterSteps == {"new", "pop", "sink", "failing", "wait", "closing", "done", "error", "aborted"}
Stopped == {"done", "error", "aborted"}

TypeOK ==
  /\ queues \in [Priorities -> Seq(Record)]
  /\ depth \in Nat
  /\ dropped \in [Priorities -> Nat]
  /\ holder \in Producers \cup {NoProducer}
  /\ accepting \in BOOLEAN
  /\ permit \in BOOLEAN
  /\ pc \in [Producers -> ProducerSteps]
  /\ submitting \in [Producers -> Record \cup {NoRecord}]
  /\ writer \in WriterSteps
  /\ stopping \in BOOLEAN
  /\ current \in Record \cup {NoRecord}
  /\ shutdown \in BOOLEAN
  /\ accepted \in Seq(Record)
  /\ handled \in Seq(Record)
  /\ shed \subseteq Record

Init ==
  /\ queues = [k \in Priorities |-> <<>>]
  /\ depth = 0
  /\ dropped = [k \in Priorities |-> 0]
  /\ holder = NoProducer
  /\ accepting = TRUE
  /\ permit = FALSE
  /\ pc = [p \in Producers |-> "idle"]
  /\ submitting = [p \in Producers |-> NoRecord]
  /\ writer = "new"
  /\ stopping = FALSE
  /\ current = NoRecord
  /\ shutdown = FALSE
  /\ accepted = <<>>
  /\ handled = <<>>
  /\ shed = {}
-----------------------------------------------------------------------------
(***************************************************************************)
(* submit.                                                                 *)
(***************************************************************************)
Goto(p, step) == pc' = [pc EXCEPT ![p] = step]

SubmittedBy(p) == IF submitting[p] = NoRecord THEN 0 ELSE submitting[p].number

\* The first load of accepting; a closed pipeline returns Closed, and the
\* record is given up.
CheckOpen(p) ==
  /\ pc[p] = "idle"
  /\ SubmittedBy(p) < MaxRecords
  /\ \E k \in UsedPriorities :
       submitting' = [submitting EXCEPT ![p] =
                        [from |-> p, number |-> SubmittedBy(p) + 1, priority |-> k]]
  /\ IF accepting THEN Goto(p, "admitted_unlocked") ELSE UNCHANGED pc
  /\ UNCHANGED <<queueVars, holder, accepting, permit, writerVars, shutdown, history>>

LockQueue(p) ==
  /\ pc[p] = "admitted_unlocked"
  /\ holder = NoProducer
  /\ holder' = p
  /\ Goto(p, "locked")
  /\ UNCHANGED <<queueVars, accepting, permit, submitting, writerVars, shutdown, history>>

\* Mutant: the flag is not loaded again under the mutex.
RecheckOpen_Skipped(p) ==
  /\ pc[p] = "locked"
  /\ Goto(p, "admitted")
  /\ UNCHANGED <<queueVars, holder, accepting, permit, submitting, writerVars, shutdown, history>>

\* The second load, under the mutex; Closed drops the guard.
RecheckOpen(p) ==
  /\ pc[p] = "locked"
  /\ IF accepting
       THEN Goto(p, "admitted") /\ UNCHANGED holder
       ELSE Goto(p, "idle") /\ holder' = NoProducer
  /\ UNCHANGED <<queueVars, accepting, permit, submitting, writerVars, shutdown, history>>

\* BoundedPriorityQueue::push and the three ways it ends.
Enqueue(r) ==
  /\ depth < Capacity
  /\ queues' = [queues EXCEPT ![r.priority] = Append(@, r)]
  /\ depth' = depth + 1
  /\ accepted' = Append(accepted, r)
  /\ UNCHANGED <<dropped, shed>>

EnqueueAfterShedding(r) ==
  /\ depth >= Capacity
  /\ r.priority # Ordinary
  /\ queues[Ordinary] # <<>>
  /\ queues' = [queues EXCEPT ![Ordinary] = Tail(@), ![r.priority] = Append(@, r)]
  /\ dropped' = [dropped EXCEPT ![Ordinary] = @ + 1]
  /\ accepted' = Append(accepted, r)
  /\ shed' = shed \cup {Head(queues[Ordinary])}
  /\ UNCHANGED depth

DropNew(r) ==
  /\ depth >= Capacity
  /\ r.priority = Ordinary \/ queues[Ordinary] = <<>>
  /\ dropped' = [dropped EXCEPT ![r.priority] = @ + 1]
  /\ UNCHANGED <<queues, depth, accepted, shed>>

Push(p) ==
  /\ pc[p] = "admitted"
  /\ LET r == submitting[p] IN Enqueue(r) \/ EnqueueAfterShedding(r) \/ DropNew(r)
  /\ holder' = NoProducer
  /\ Goto(p, "pushed")
  /\ UNCHANGED <<accepting, permit, submitting, writerVars, shutdown, handled>>

\* Mutant: only the push that finds the queue empty wakes the writer.
NotifyOne_OnlyFirst(p) ==
  /\ pc[p] = "pushed"
  /\ permit' = (permit \/ depth = 1)
  /\ Goto(p, "idle")
  /\ UNCHANGED <<queueVars, holder, accepting, submitting, writerVars, shutdown, history>>

NotifyOne(p) ==
  /\ pc[p] = "pushed"
  /\ permit' = TRUE
  /\ Goto(p, "idle")
  /\ UNCHANGED <<queueVars, holder, accepting, submitting, writerVars, shutdown, history>>
-----------------------------------------------------------------------------
(***************************************************************************)
(* run_writer.                                                             *)
(***************************************************************************)
StartWriter ==
  /\ writer = "new"
  /\ writer' = "pop"
  /\ UNCHANGED <<queueVars, holder, accepting, permit, pc, submitting, stopping, current, shutdown, history>>

NonEmpty == {k \in Priorities : queues[k] # <<>>}

TopPriority == CHOOSE j \in NonEmpty : \A i \in NonEmpty : i <= j

\* Mutant: pop stops above the lowest priority.
PopRecord_NeverOrdinary ==
  /\ writer = "pop"
  /\ holder = NoProducer
  /\ NonEmpty \ {Ordinary} # {}
  /\ current' = Head(queues[TopPriority])
  /\ queues' = [queues EXCEPT ![TopPriority] = Tail(@)]
  /\ depth' = depth - 1
  /\ writer' = "sink"
  /\ UNCHANGED <<dropped, holder, accepting, permit, pc, submitting, stopping, shutdown, history>>

\* queue.pop takes the oldest record of the highest non-empty priority.
PopRecord ==
  /\ writer = "pop"
  /\ holder = NoProducer
  /\ NonEmpty # {}
  /\ current' = Head(queues[TopPriority])
  /\ queues' = [queues EXCEPT ![TopPriority] = Tail(@)]
  /\ depth' = depth - 1
  /\ writer' = "sink"
  /\ UNCHANGED <<dropped, holder, accepting, permit, pc, submitting, stopping, shutdown, history>>

\* Mutant: a stopping writer waits for more.
PopNothing_Waits ==
  /\ writer = "pop"
  /\ holder = NoProducer
  /\ NonEmpty = {}
  /\ writer' = "wait"
  /\ UNCHANGED <<queueVars, holder, accepting, permit, pc, submitting, stopping, current, shutdown, history>>

\* An empty queue ends a stopping writer and makes the others wait.
PopNothing ==
  /\ writer = "pop"
  /\ holder = NoProducer
  /\ NonEmpty = {}
  /\ writer' = IF stopping THEN "done" ELSE "wait"
  /\ UNCHANGED <<queueVars, holder, accepting, permit, pc, submitting, stopping, current, shutdown, history>>

\* Mutant: the record is handed to the sink again.
SinkReturns_Retried ==
  /\ writer = "sink"
  /\ handled' = Append(handled, current)
  /\ UNCHANGED <<queueVars, holder, accepting, permit, pc, submitting, writerVars, shutdown, accepted, shed>>

\* The sink returns Written or Failed and the loop continues.
SinkReturns ==
  /\ writer = "sink"
  /\ handled' = Append(handled, current)
  /\ current' = NoRecord
  /\ writer' = "pop"
  /\ UNCHANGED <<queueVars, holder, accepting, permit, pc, submitting, stopping, shutdown, accepted, shed>>

\* The sink returns Err: admission closes and the writer gives up.
SinkFails ==
  /\ writer = "sink"
  /\ writer' = "failing"
  /\ UNCHANGED <<queueVars, holder, accepting, permit, pc, submitting, stopping, current, shutdown, history>>

GiveUp ==
  /\ writer = "failing"
  /\ accepting' = FALSE
  /\ writer' = "error"
  /\ UNCHANGED <<queueVars, holder, permit, pc, submitting, stopping, current, shutdown, history>>

\* The two branches of select!.
Notified ==
  /\ writer = "wait"
  /\ permit
  /\ permit' = FALSE
  /\ writer' = "pop"
  /\ UNCHANGED <<queueVars, holder, accepting, pc, submitting, stopping, current, shutdown, history>>

SeeShutdown ==
  /\ writer = "wait"
  /\ shutdown
  /\ writer' = "closing"
  /\ UNCHANGED <<queueVars, holder, accepting, permit, pc, submitting, stopping, current, shutdown, history>>

CloseAdmission ==
  /\ writer = "closing"
  /\ accepting' = FALSE
  /\ stopping' = TRUE
  /\ writer' = "pop"
  /\ UNCHANGED <<queueVars, holder, permit, pc, submitting, current, shutdown, history>>
-----------------------------------------------------------------------------
(***************************************************************************)
(* serve: the shutdown signal, and the abort once the drain deadline has   *)
(* passed, which drops the writer at an await.                             *)
(***************************************************************************)
RequestShutdown ==
  /\ ~shutdown
  /\ shutdown' = TRUE
  /\ UNCHANGED <<queueVars, holder, accepting, permit, pc, submitting, writerVars, history>>

AbortWriter ==
  /\ shutdown
  /\ writer \in {"sink", "wait"}
  /\ writer' = "aborted"
  /\ UNCHANGED <<queueVars, holder, accepting, permit, pc, submitting, stopping, current, shutdown, history>>

Submit(p) == CheckOpen(p) \/ LockQueue(p) \/ RecheckOpen(p) \/ Push(p) \/ NotifyOne(p)

RunWriter ==
  \/ StartWriter \/ PopRecord \/ PopNothing \/ SinkReturns \/ SinkFails \/ GiveUp
  \/ Notified \/ SeeShutdown \/ CloseAdmission

Next ==
  \/ \E p \in Producers : Submit(p)
  \/ RunWriter
  \/ RequestShutdown
  \/ AbortWriter

Spec == Init /\ [][Next]_vars

\* A thread inside submit runs on, and the runtime keeps polling the writer;
\* nothing obliges a caller to submit or the operator to stop the daemon.
FairSpec ==
  /\ Spec
  /\ \A p \in Producers : WF_vars(LockQueue(p) \/ RecheckOpen(p) \/ Push(p) \/ NotifyOne(p))
  /\ WF_vars(RunWriter)
-----------------------------------------------------------------------------
(***************************************************************************)
(* Properties.                                                             *)
(***************************************************************************)
RangeOf(seq) == {seq[i] : i \in DOMAIN seq}

Queued == UNION {RangeOf(queues[k]) : k \in Priorities}

InFlight == IF current = NoRecord THEN {} ELSE {current}

\* What tests/writer_pipeline.rs promises of one history, for every
\* interleaving: a writer that ended cleanly left nothing in the queue, and no
\* submit that passed the first admission check can still add to it.
CleanStopIsFinal ==
  writer = "done" =>
    /\ ~accepting
    /\ NonEmpty = {}
    /\ \A p \in Producers : pc[p] # "admitted"

\* Every record the queue accepted is in exactly one place (queued, in the
\* sink, handled, or, if ordinary, shed for a protected one), and none is handled twice.
AcceptedConserved ==
  /\ \A r \in shed : r.priority = Ordinary
  /\ RangeOf(accepted) = Queued \cup InFlight \cup RangeOf(handled) \cup shed
  /\ Len(accepted) = depth + Cardinality(InFlight) + Len(handled) + Cardinality(shed)

Backlog ==
  Len(queues[1]) + Len(queues[2]) + Len(queues[3]) + Len(queues[4]) + Len(queues[5])

\* The depth the admission decision reads, which push and pop keep by hand, is
\* the number of records in the five queues, and it never exceeds the capacity.
DepthExact ==
  /\ depth = Backlog
  /\ depth <= Capacity

\* No wakeup is lost: while the writer waits and records are queued, a permit
\* is stored or the thread that pushed is about to store one.
NoLostWakeup ==
  (writer = "wait" /\ NonEmpty # {}) => (permit \/ \E p \in Producers : pc[p] = "pushed")

\* Once shutdown is requested the writer ends, since the submitting threads
\* submit finitely many records.
ShutdownEnds == shutdown ~> writer \in Stopped

IsQueued(p, n) == \E r \in Queued : r.from = p /\ r.number = n

\* Records of a higher priority wait in front of it.
Overtaken(p, n) ==
  \E r, q \in Queued : r.from = p /\ r.number = n /\ q.priority > r.priority

\* A record is queued for ever only if the writer has stopped, or if records of a
\* higher priority come again and again: pop is strict about priority, so a
\* protected stream that never pauses starves ordinary records for as long as
\* the queue has room for them.  Where such a stream ends, as it does in a run
\* of finitely many submissions, every queued record is handled or shed, or
\* abandoned with the writer; those that came later at the same priority never
\* delay it.
QueuedIsServed ==
  \A p \in Producers, n \in 1..MaxRecords :
    IsQueued(p, n) ~> (~IsQueued(p, n) \/ writer \in Stopped \/ Overtaken(p, n))
=============================================================================
