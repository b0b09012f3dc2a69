------------------------ MODULE EventPipelineProofs ------------------------
(***************************************************************************)
(* The event pipeline's safety for every number of submitting threads,     *)
(* every capacity and every mix of priorities.                             *)
(***************************************************************************)
EXTENDS EventPipeline, SequenceTheorems, FiniteSetTheorems, TLAPS

\* The mutex excludes: a thread is inside the critical section of submit
\* exactly when it holds the queue.
MutexHeld ==
  \A p \in Producers : pc[p] \in {"locked", "admitted"} <=> holder = p

\* A thread past the first check carries the record it submits.
CarriesRecord ==
  \A p \in Producers : pc[p] # "idle" => submitting[p] \in Record

WriterHoldsRecord == writer \in {"sink", "failing"} => current \in Record

StoppingIsClosed == stopping => ~accepting

\* The inductive invariant.
PipelineInv ==
  /\ TypeOK
  /\ DepthExact
  /\ MutexHeld
  /\ CarriesRecord
  /\ WriterHoldsRecord
  /\ StoppingIsClosed
  /\ CleanStopIsFinal
  /\ NoLostWakeup

\* pop's choice exists whenever something is queued.
LEMMA TopPriorityQueued ==
  ASSUME NonEmpty # {}
  PROVE  TopPriority \in NonEmpty
<1>1. \E j \in NonEmpty : \A i \in NonEmpty : i <= j
  <2>1. \A i \in NonEmpty : i \in 1..5
    BY DEF NonEmpty, Priorities
  <2>2. CASE 5 \in NonEmpty BY <2>1, <2>2
  <2>3. CASE 5 \notin NonEmpty /\ 4 \in NonEmpty BY <2>1, <2>3
  <2>4. CASE 5 \notin NonEmpty /\ 4 \notin NonEmpty /\ 3 \in NonEmpty BY <2>1, <2>4
  <2>5. CASE 5 \notin NonEmpty /\ 4 \notin NonEmpty /\ 3 \notin NonEmpty /\ 2 \in NonEmpty
    BY <2>1, <2>5
  <2>6. CASE 5 \notin NonEmpty /\ 4 \notin NonEmpty /\ 3 \notin NonEmpty /\ 2 \notin NonEmpty
    BY <2>1, <2>6
  <2> QED BY <2>2, <2>3, <2>4, <2>5, <2>6
<1> QED BY <1>1 DEF TopPriority


\* The backlog is the sum of the queue lengths.
LEMMA BacklogSum ==
  ASSUME queues \in [Priorities -> Seq(Record)]
  PROVE  /\ \A k \in Priorities : Len(queues[k]) \in Nat
         /\ Backlog \in Nat
         /\ \A k \in Priorities : Len(queues[k]) <= Backlog
<1>1. \A k \in Priorities : Len(queues[k]) \in Nat
  OBVIOUS
<1>2. /\ Len(queues[1]) \in Nat /\ Len(queues[2]) \in Nat /\ Len(queues[3]) \in Nat
      /\ Len(queues[4]) \in Nat /\ Len(queues[5]) \in Nat
  BY <1>1 DEF Priorities
<1>3. Backlog \in Nat /\ \A k \in Priorities : Len(queues[k]) <= Backlog
  BY <1>2 DEF Backlog, Priorities
<1> QED BY <1>1, <1>3

\* So the backlog changes by the sum of the changes of the queue lengths.
LEMMA BacklogChange ==
  ASSUME queues \in [Priorities -> Seq(Record)], queues' \in [Priorities -> Seq(Record)],
         NEW delta \in [Priorities -> Int],
         \A i \in Priorities : Len(queues'[i]) = Len(queues[i]) + delta[i]
  PROVE  Backlog' = Backlog + (delta[1] + delta[2] + delta[3] + delta[4] + delta[5])
<1>1. /\ Len(queues[1]) \in Int /\ Len(queues[2]) \in Int /\ Len(queues[3]) \in Int
      /\ Len(queues[4]) \in Int /\ Len(queues[5]) \in Int
  BY BacklogSum DEF Priorities
<1>2. /\ delta[1] \in Int /\ delta[2] \in Int /\ delta[3] \in Int
      /\ delta[4] \in Int /\ delta[5] \in Int
  BY DEF Priorities
<1>3. /\ Len(queues'[1]) = Len(queues[1]) + delta[1]
      /\ Len(queues'[2]) = Len(queues[2]) + delta[2]
      /\ Len(queues'[3]) = Len(queues[3]) + delta[3]
      /\ Len(queues'[4]) = Len(queues[4]) + delta[4]
      /\ Len(queues'[5]) = Len(queues[5]) + delta[5]
  BY DEF Priorities
<1>4. Backlog' = (Len(queues[1]) + delta[1]) + (Len(queues[2]) + delta[2])
                   + (Len(queues[3]) + delta[3]) + (Len(queues[4]) + delta[4])
                   + (Len(queues[5]) + delta[5])
  BY <1>3, Zenon DEF Backlog
<1>5. Backlog' = (Len(queues[1]) + Len(queues[2]) + Len(queues[3]) + Len(queues[4]) + Len(queues[5]))
                   + (delta[1] + delta[2] + delta[3] + delta[4] + delta[5])
  <2>1. PICK a1 \in Int, a2 \in Int, a3 \in Int, a4 \in Int, a5 \in Int :
          /\ a1 = Len(queues[1]) /\ a2 = Len(queues[2]) /\ a3 = Len(queues[3])
          /\ a4 = Len(queues[4]) /\ a5 = Len(queues[5])
    BY <1>1, Zenon
  <2>2. PICK d1 \in Int, d2 \in Int, d3 \in Int, d4 \in Int, d5 \in Int :
          /\ d1 = delta[1] /\ d2 = delta[2] /\ d3 = delta[3] /\ d4 = delta[4] /\ d5 = delta[5]
    BY <1>2, Zenon
  <2>3. (a1 + d1) + (a2 + d2) + (a3 + d3) + (a4 + d4) + (a5 + d5)
          = (a1 + a2 + a3 + a4 + a5) + (d1 + d2 + d3 + d4 + d5)
    BY SMT
  <2> QED BY <1>4, <2>1, <2>2, <2>3, Zenon
<1> QED BY <1>5, Zenon DEF Backlog

\* One push of a well-typed record keeps the queues well typed and the depth
\* exact, whether it enqueues, sheds the oldest ordinary record or drops.
LEMMA PushStep ==
  ASSUME TypeOK, DepthExact, NEW r \in Record,
         Enqueue(r) \/ EnqueueAfterShedding(r) \/ DropNew(r)
  PROVE  /\ queues' \in [Priorities -> Seq(Record)]
         /\ depth' \in Nat
         /\ dropped' \in [Priorities -> Nat]
         /\ accepted' \in Seq(Record)
         /\ shed' \subseteq Record
         /\ DepthExact'
<1> USE PipelineAssumption
<1>1. r.priority \in Priorities
  BY DEF Record
<1>2. CASE Enqueue(r)
  <2>1. queues' \in [Priorities -> Seq(Record)]
    BY <1>1, <1>2 DEF Enqueue, TypeOK
  <2>2. depth' \in Nat /\ dropped' \in [Priorities -> Nat] /\ accepted' \in Seq(Record)
    BY <1>2 DEF Enqueue, TypeOK
  <2>3. /\ Len(queues'[r.priority]) = Len(queues[r.priority]) + 1
        /\ \A j \in Priorities \ {r.priority} : Len(queues'[j]) = Len(queues[j])
    BY <1>1, <1>2 DEF Enqueue, TypeOK
  <2>4. Backlog' = Backlog + 1
    <3> DEFINE delta == [i \in Priorities |-> IF i = r.priority THEN 1 ELSE 0]
    <3>1. \A i \in Priorities : Len(queues'[i]) = Len(queues[i]) + delta[i]
      BY <2>3, BacklogSum DEF TypeOK
    <3>2. delta \in [Priorities -> Int] /\ delta[1] + delta[2] + delta[3] + delta[4] + delta[5] = 1
      BY <1>1 DEF Priorities
    <3> HIDE DEF delta
    <3> QED BY <2>1, <3>1, <3>2, BacklogChange DEF TypeOK
  <2> QED BY <1>2, <2>1, <2>2, <2>4 DEF DepthExact, Enqueue, TypeOK
<1>3. CASE EnqueueAfterShedding(r)
  <2>1. Ordinary \in Priorities /\ Ordinary # r.priority
    BY <1>3 DEF EnqueueAfterShedding, Ordinary, Priorities
  <2>2. /\ queues[Ordinary] \in Seq(Record)
        /\ Tail(queues[Ordinary]) \in Seq(Record)
        /\ Head(queues[Ordinary]) \in Record
        /\ Len(Tail(queues[Ordinary])) = Len(queues[Ordinary]) - 1
    BY <1>3, <2>1 DEF EnqueueAfterShedding, TypeOK
  <2>3. /\ queues'[Ordinary] = Tail(queues[Ordinary])
        /\ queues'[r.priority] = Append(queues[r.priority], r)
        /\ \A j \in Priorities \ {r.priority, Ordinary} : queues'[j] = queues[j]
        /\ queues' = [j \in Priorities |-> queues'[j]]
    BY <1>1, <1>3, <2>1 DEF EnqueueAfterShedding, TypeOK
  <2>4. queues' \in [Priorities -> Seq(Record)]
    <3>1. Append(queues[r.priority], r) \in Seq(Record)
      BY <1>1 DEF TypeOK
    <3>2. ASSUME NEW j \in Priorities PROVE queues'[j] \in Seq(Record)
      BY <2>2, <2>3, <3>1 DEF TypeOK
    <3> QED BY <2>3, <3>2
  <2>5. dropped' \in [Priorities -> Nat]
    BY <1>3, <2>1 DEF EnqueueAfterShedding, TypeOK
  <2>6. accepted' \in Seq(Record) /\ shed' \subseteq Record /\ depth' = depth
    BY <1>3, <2>2 DEF EnqueueAfterShedding, TypeOK
  <2>7. Len(queues'[r.priority]) = Len(queues[r.priority]) + 1
    BY <1>1, <2>3 DEF TypeOK
  <2>8. Backlog' = Backlog
    <3> DEFINE delta == [i \in Priorities |-> IF i = r.priority THEN 1
                                             ELSE IF i = Ordinary THEN 0 - 1 ELSE 0]
    <3>1. \A i \in Priorities : Len(queues[i]) \in Nat
      BY BacklogSum DEF TypeOK
    <3>2. \A i \in Priorities : Len(queues'[i]) = Len(queues[i]) + delta[i]
      <4> SUFFICES ASSUME NEW i \in Priorities PROVE Len(queues'[i]) = Len(queues[i]) + delta[i]
        OBVIOUS
      <4>1. CASE i = r.priority BY <2>7, <3>1, <4>1
      <4>2. CASE i = Ordinary BY <2>1, <2>2, <2>3, <3>1, <4>2
      <4>3. CASE i # r.priority /\ i # Ordinary BY <2>3, <3>1, <4>3
      <4> QED BY <4>1, <4>2, <4>3
    <3>3. delta \in [Priorities -> Int] /\ delta[1] + delta[2] + delta[3] + delta[4] + delta[5] = 0
      BY <1>1, <2>1 DEF Priorities, Ordinary
    <3>4. Backlog \in Nat
      BY BacklogSum DEF TypeOK
    <3> HIDE DEF delta
    <3>5. Backlog' = Backlog + 0
      BY <2>4, <3>2, <3>3, BacklogChange DEF TypeOK
    <3> QED BY <3>4, <3>5
  <2> QED BY <2>4, <2>5, <2>6, <2>8 DEF DepthExact, TypeOK
<1>4. CASE DropNew(r)
  <2>1. dropped' \in [Priorities -> Nat]
    BY <1>1, <1>4 DEF DropNew, TypeOK
  <2> QED BY <1>4, <2>1 DEF DropNew, TypeOK, DepthExact, Backlog
<1> QED BY <1>2, <1>3, <1>4

\* One pop keeps the queues well typed and the depth exact, and yields a record.
LEMMA PopStep ==
  ASSUME TypeOK, DepthExact, PopRecord
  PROVE  /\ queues' \in [Priorities -> Seq(Record)]
         /\ depth' \in Nat
         /\ current' \in Record
         /\ DepthExact'
<1> USE PipelineAssumption
<1> DEFINE k == TopPriority
<1>1. k \in Priorities /\ queues[k] # <<>> /\ queues[k] \in Seq(Record)
  BY TopPriorityQueued DEF PopRecord, NonEmpty, TypeOK
<1>2. /\ queues' = [queues EXCEPT ![k] = Tail(queues[k])]
      /\ depth' = depth - 1
      /\ current' = Head(queues[k])
  BY DEF PopRecord
<1> HIDE DEF k
<1>3. /\ Tail(queues[k]) \in Seq(Record)
      /\ Head(queues[k]) \in Record
      /\ Len(queues[k]) \in Nat \ {0}
      /\ Len(Tail(queues[k])) = Len(queues[k]) - 1
  BY <1>1
<1>4. queues' \in [Priorities -> Seq(Record)]
  BY <1>1, <1>2, <1>3 DEF TypeOK
<1>5. Len(queues'[k]) = Len(queues[k]) - 1 /\ \A j \in Priorities \ {k} : Len(queues'[j]) = Len(queues[j])
  BY <1>1, <1>2, <1>3 DEF TypeOK
<1>6. Backlog' = Backlog - 1 /\ Backlog \in Nat \ {0}
  <2> DEFINE delta == [i \in Priorities |-> IF i = k THEN 0 - 1 ELSE 0]
  <2>1. Backlog \in Nat /\ (\A i \in Priorities : Len(queues[i]) \in Nat) /\ Len(queues[k]) <= Backlog
    BY <1>1, BacklogSum DEF TypeOK
  <2>2. \A i \in Priorities : Len(queues'[i]) = Len(queues[i]) + delta[i]
    <3> SUFFICES ASSUME NEW i \in Priorities PROVE Len(queues'[i]) = Len(queues[i]) + delta[i]
      OBVIOUS
    <3>1. CASE i = k BY <1>5, <2>1, <3>1
    <3>2. CASE i # k BY <1>5, <2>1, <3>2
    <3> QED BY <3>1, <3>2
  <2>3. delta \in [Priorities -> Int] /\ delta[1] + delta[2] + delta[3] + delta[4] + delta[5] = 0 - 1
    BY <1>1 DEF Priorities
  <2> HIDE DEF delta
  <2>4. Backlog' = Backlog + (0 - 1)
    BY <1>4, <2>2, <2>3, BacklogChange DEF TypeOK
  <2> QED BY <1>3, <2>1, <2>4
<1> QED BY <1>2, <1>3, <1>4, <1>6 DEF DepthExact, TypeOK
\* The producer-side steps that leave the queues alone.
LEMMA SubmitStep ==
  ASSUME PipelineInv, NEW p \in Producers,
         CheckOpen(p) \/ LockQueue(p) \/ RecheckOpen(p) \/ NotifyOne(p)
  PROVE  PipelineInv'
<1> USE PipelineAssumption DEF PipelineInv
<1>1. CASE CheckOpen(p)
  <2>1. PICK k \in UsedPriorities :
          submitting' = [submitting EXCEPT ![p] =
                           [from |-> p, number |-> SubmittedBy(p) + 1, priority |-> k]]
    BY <1>1 DEF CheckOpen
  <2> DEFINE r == [from |-> p, number |-> SubmittedBy(p) + 1, priority |-> k]
  <2>2. SubmittedBy(p) \in Nat /\ SubmittedBy(p) < MaxRecords
    BY <1>1 DEF CheckOpen, SubmittedBy, TypeOK, Record
  <2>3. r \in Record
    BY <2>2 DEF Record
  <2>4. UNCHANGED <<queues, depth, dropped, holder, accepting, permit, writer, stopping, current,
                    shutdown, accepted, handled, shed>>
    BY <1>1 DEF CheckOpen, queueVars, writerVars, history
  <2> HIDE DEF r
  <2>5. /\ pc' = pc \/ pc' = [pc EXCEPT ![p] = "admitted_unlocked"]
        /\ pc[p] = "idle"
        /\ submitting' = [submitting EXCEPT ![p] = r]
    BY <1>1, <2>1 DEF CheckOpen, Goto, r
  <2>6. TypeOK'
    BY <2>3, <2>4, <2>5 DEF TypeOK, ProducerSteps
  <2>7. DepthExact' /\ StoppingIsClosed' /\ WriterHoldsRecord'
    BY <2>4 DEF DepthExact, Backlog, StoppingIsClosed, WriterHoldsRecord
  <2>8. MutexHeld'
    BY <2>4, <2>5 DEF MutexHeld, TypeOK
  <2>9. CarriesRecord'
    BY <2>3, <2>5 DEF CarriesRecord, TypeOK
  <2>10. CleanStopIsFinal'
    BY <2>4, <2>5 DEF CleanStopIsFinal, NonEmpty, TypeOK
  <2>11. NoLostWakeup'
    BY <2>4, <2>5 DEF NoLostWakeup, NonEmpty, TypeOK
  <2> QED BY <2>6, <2>7, <2>8, <2>9, <2>10, <2>11
<1>2. CASE LockQueue(p)
  <2>1. UNCHANGED <<queues, depth, dropped, accepting, permit, submitting, writer, stopping, current,
                    shutdown, accepted, handled, shed>>
    BY <1>2 DEF LockQueue, queueVars, writerVars, history
  <2>2. /\ pc' = [pc EXCEPT ![p] = "locked"] /\ holder' = p
        /\ holder = NoProducer /\ pc[p] = "admitted_unlocked"
    BY <1>2 DEF LockQueue, Goto
  <2>3. TypeOK'
    BY <2>1, <2>2 DEF TypeOK, ProducerSteps
  <2>4. DepthExact' /\ StoppingIsClosed' /\ WriterHoldsRecord'
    BY <2>1 DEF DepthExact, Backlog, StoppingIsClosed, WriterHoldsRecord
  <2>5. MutexHeld' /\ CarriesRecord'
    BY <2>1, <2>2 DEF MutexHeld, CarriesRecord, TypeOK
  <2>6. CleanStopIsFinal' /\ NoLostWakeup'
    BY <2>1, <2>2 DEF CleanStopIsFinal, NoLostWakeup, NonEmpty, TypeOK
  <2> QED BY <2>3, <2>4, <2>5, <2>6
<1>3. CASE RecheckOpen(p)
  <2>1. UNCHANGED <<queues, depth, dropped, accepting, permit, submitting, writer, stopping, current,
                    shutdown, accepted, handled, shed>>
    BY <1>3 DEF RecheckOpen, queueVars, writerVars, history
  <2>2. /\ pc[p] = "locked"
        /\ \/ accepting /\ pc' = [pc EXCEPT ![p] = "admitted"] /\ holder' = holder
           \/ pc' = [pc EXCEPT ![p] = "idle"] /\ holder' = NoProducer
    BY <1>3 DEF RecheckOpen, Goto
  <2>3. TypeOK'
    BY <2>1, <2>2 DEF TypeOK, ProducerSteps
  <2>4. DepthExact' /\ StoppingIsClosed' /\ WriterHoldsRecord'
    BY <2>1 DEF DepthExact, Backlog, StoppingIsClosed, WriterHoldsRecord
  <2>5. MutexHeld' /\ CarriesRecord'
    BY <2>1, <2>2 DEF MutexHeld, CarriesRecord, TypeOK
  <2>6. CleanStopIsFinal' /\ NoLostWakeup'
    BY <2>1, <2>2 DEF CleanStopIsFinal, NoLostWakeup, NonEmpty, TypeOK
  <2> QED BY <2>3, <2>4, <2>5, <2>6
<1>4. CASE NotifyOne(p)
  <2>1. UNCHANGED <<queues, depth, dropped, holder, accepting, submitting, writer, stopping, current,
                    shutdown, accepted, handled, shed>>
    BY <1>4 DEF NotifyOne, queueVars, writerVars, history
  <2>2. pc[p] = "pushed" /\ pc' = [pc EXCEPT ![p] = "idle"] /\ permit' = TRUE
    BY <1>4 DEF NotifyOne, Goto
  <2>3. TypeOK'
    BY <2>1, <2>2 DEF TypeOK, ProducerSteps
  <2>4. DepthExact' /\ StoppingIsClosed' /\ WriterHoldsRecord'
    BY <2>1 DEF DepthExact, Backlog, StoppingIsClosed, WriterHoldsRecord
  <2>5. MutexHeld' /\ CarriesRecord'
    BY <2>1, <2>2 DEF MutexHeld, CarriesRecord, TypeOK
  <2>6. CleanStopIsFinal' /\ NoLostWakeup'
    BY <2>1, <2>2 DEF CleanStopIsFinal, NoLostWakeup, NonEmpty, TypeOK
  <2> QED BY <2>3, <2>4, <2>5, <2>6
<1> QED BY <1>1, <1>2, <1>3, <1>4

\* The push, inside the critical section.
LEMMA PushPreserves ==
  ASSUME PipelineInv, NEW p \in Producers, Push(p)
  PROVE  PipelineInv'
<1> USE PipelineAssumption DEF PipelineInv
<1> DEFINE r == submitting[p]
<1>1. /\ pc[p] = "admitted" /\ pc' = [pc EXCEPT ![p] = "pushed"] /\ holder' = NoProducer
      /\ UNCHANGED <<accepting, permit, submitting, writer, stopping, current, shutdown, handled>>
  BY DEF Push, Goto, writerVars
<1>2. r \in Record
  BY <1>1 DEF CarriesRecord
<1>3. Enqueue(r) \/ EnqueueAfterShedding(r) \/ DropNew(r)
  BY DEF Push
<1> HIDE DEF r
<1>4. /\ queues' \in [Priorities -> Seq(Record)]
      /\ depth' \in Nat
      /\ dropped' \in [Priorities -> Nat]
      /\ accepted' \in Seq(Record)
      /\ shed' \subseteq Record
      /\ DepthExact'
  BY <1>2, <1>3, PushStep
<1>5. TypeOK'
  BY <1>1, <1>4 DEF TypeOK, ProducerSteps
<1>6. holder = p /\ \A q \in Producers : q # p => pc[q] \notin {"locked", "admitted"}
  BY <1>1 DEF MutexHeld
<1>7. MutexHeld' /\ CarriesRecord'
  BY <1>1, <1>6 DEF MutexHeld, CarriesRecord, TypeOK
<1>8. WriterHoldsRecord' /\ StoppingIsClosed'
  BY <1>1 DEF WriterHoldsRecord, StoppingIsClosed
<1>9. CleanStopIsFinal' /\ NoLostWakeup'
  BY <1>1 DEF CleanStopIsFinal, NoLostWakeup, TypeOK
<1> QED BY <1>4, <1>5, <1>7, <1>8, <1>9

\* The writer's steps.
LEMMA WriterStep ==
  ASSUME PipelineInv, RunWriter
  PROVE  PipelineInv'
<1> USE PipelineAssumption DEF PipelineInv
<1>1. CASE PopRecord
  <2>1. /\ queues' \in [Priorities -> Seq(Record)] /\ depth' \in Nat
        /\ current' \in Record /\ DepthExact'
    BY <1>1, PopStep
  <2>2. /\ writer' = "sink"
        /\ UNCHANGED <<dropped, holder, accepting, permit, pc, submitting, stopping, shutdown,
                       accepted, handled, shed>>
    BY <1>1 DEF PopRecord, history
  <2>3. TypeOK'
    BY <2>1, <2>2 DEF TypeOK, WriterSteps
  <2> QED BY <2>1, <2>2, <2>3
          DEF MutexHeld, CarriesRecord, WriterHoldsRecord, StoppingIsClosed, CleanStopIsFinal, NoLostWakeup
<1>2. CASE PopNothing
  <2>1. /\ writer = "pop" /\ holder = NoProducer /\ NonEmpty = {}
        /\ writer' = IF stopping THEN "done" ELSE "wait"
        /\ UNCHANGED <<queues, depth, dropped, holder, accepting, permit, pc, submitting, stopping,
                       current, shutdown, accepted, handled, shed>>
    BY <1>2 DEF PopNothing, queueVars, history
  <2>2. TypeOK' /\ DepthExact'
    BY <2>1 DEF TypeOK, WriterSteps, DepthExact, Backlog
  <2>3. \A q \in Producers : pc[q] # "admitted"
    BY <2>1 DEF MutexHeld
  <2>4. CleanStopIsFinal'
    BY <2>1, <2>3 DEF CleanStopIsFinal, StoppingIsClosed, NonEmpty, TypeOK
  <2>5. NoLostWakeup'
    BY <2>1 DEF NoLostWakeup, NonEmpty
  <2> QED BY <2>1, <2>2, <2>4, <2>5
          DEF MutexHeld, CarriesRecord, WriterHoldsRecord, StoppingIsClosed, TypeOK
<1>3. CASE SinkReturns
  <2>1. /\ writer = "sink" /\ writer' = "pop"
        /\ handled' = Append(handled, current) /\ current' = NoRecord
        /\ UNCHANGED <<queues, depth, dropped, holder, accepting, permit, pc, submitting, stopping,
                       shutdown, accepted, shed>>
    BY <1>3 DEF SinkReturns, queueVars
  <2>2. current \in Record
    BY <2>1 DEF WriterHoldsRecord
  <2>3. TypeOK' /\ DepthExact'
    <3>1. handled' \in Seq(Record)
      BY <2>1, <2>2 DEF TypeOK
    <3>2. TypeOK'
      BY <2>1, <3>1 DEF TypeOK, WriterSteps
    <3>3. DepthExact'
      BY <2>1 DEF DepthExact, Backlog
    <3> QED BY <3>2, <3>3
  <2> QED BY <2>1, <2>3
          DEF MutexHeld, CarriesRecord, WriterHoldsRecord, StoppingIsClosed, CleanStopIsFinal, NoLostWakeup
<1>4. CASE StartWriter \/ SinkFails \/ SeeShutdown
  <2>1. /\ writer' \in {"pop", "failing", "closing"}
        /\ writer' = "failing" => writer = "sink"
        /\ UNCHANGED <<queues, depth, dropped, holder, accepting, permit, pc, submitting, stopping,
                       current, shutdown, accepted, handled, shed>>
    BY <1>4 DEF StartWriter, SinkFails, SeeShutdown, queueVars, history
  <2>2. TypeOK' /\ DepthExact'
    BY <2>1 DEF TypeOK, WriterSteps, DepthExact, Backlog
  <2> QED BY <2>1, <2>2
          DEF MutexHeld, CarriesRecord, WriterHoldsRecord, StoppingIsClosed, CleanStopIsFinal, NoLostWakeup
<1>5. CASE GiveUp \/ CloseAdmission
  <2>1. /\ writer' \in {"error", "pop"} /\ accepting' = FALSE
        /\ stopping' \in BOOLEAN
        /\ UNCHANGED <<queues, depth, dropped, holder, permit, pc, submitting,
                       current, shutdown, accepted, handled, shed>>
    BY <1>5 DEF GiveUp, CloseAdmission, queueVars, history, TypeOK
  <2>2. TypeOK' /\ DepthExact'
    BY <2>1 DEF TypeOK, WriterSteps, DepthExact, Backlog
  <2> QED BY <2>1, <2>2
          DEF MutexHeld, CarriesRecord, WriterHoldsRecord, StoppingIsClosed, CleanStopIsFinal, NoLostWakeup
<1>6. CASE Notified
  <2>1. /\ writer' = "pop" /\ permit' = FALSE
        /\ UNCHANGED <<queues, depth, dropped, holder, accepting, pc, submitting, stopping,
                       current, shutdown, accepted, handled, shed>>
    BY <1>6 DEF Notified, queueVars, history
  <2>2. TypeOK' /\ DepthExact'
    BY <2>1 DEF TypeOK, WriterSteps, DepthExact, Backlog
  <2> QED BY <2>1, <2>2
          DEF MutexHeld, CarriesRecord, WriterHoldsRecord, StoppingIsClosed, CleanStopIsFinal, NoLostWakeup
<1> QED BY <1>1, <1>2, <1>3, <1>4, <1>5, <1>6 DEF RunWriter

\* The pipeline's inductive invariant holds in every reachable state.
LEMMA PipelineInvariant == Spec => []PipelineInv
<1> USE PipelineAssumption
<1>1. Init => PipelineInv
  <2> SUFFICES ASSUME Init PROVE PipelineInv OBVIOUS
  <2>1. \A k \in Priorities : queues[k] = <<>>
    BY DEF Init
  <2>2. Len(queues[1]) = 0 /\ Len(queues[2]) = 0 /\ Len(queues[3]) = 0 /\ Len(queues[4]) = 0 /\ Len(queues[5]) = 0
    BY <2>1 DEF Priorities
  <2>3. Backlog = 0
    BY <2>2 DEF Backlog
  <2>4. DepthExact
    BY <2>3 DEF DepthExact, Init
  <2>5. TypeOK
    <3>1. queues \in [Priorities -> Seq(Record)] /\ accepted \in Seq(Record) /\ handled \in Seq(Record)
      BY DEF Init
    <3> QED BY <3>1 DEF Init, TypeOK, ProducerSteps, WriterSteps
  <2>6. MutexHeld
    BY DEF Init, MutexHeld
  <2>7. CarriesRecord /\ WriterHoldsRecord /\ StoppingIsClosed /\ CleanStopIsFinal /\ NoLostWakeup
    BY DEF Init, CarriesRecord, WriterHoldsRecord, StoppingIsClosed, CleanStopIsFinal, NoLostWakeup
  <2> QED BY <2>4, <2>5, <2>6, <2>7 DEF PipelineInv
<1>2. PipelineInv /\ [Next]_vars => PipelineInv'
  <2> SUFFICES ASSUME PipelineInv, [Next]_vars PROVE PipelineInv' OBVIOUS
  <2>1. ASSUME NEW p \in Producers, Submit(p) PROVE PipelineInv'
    BY <2>1, SubmitStep, PushPreserves DEF Submit
  <2>2. CASE RunWriter
    BY <2>2, WriterStep
  <2>3. CASE RequestShutdown
    <3>1. /\ shutdown' = TRUE
          /\ UNCHANGED <<queues, depth, dropped, holder, accepting, permit, pc, submitting, writer,
                         stopping, current, accepted, handled, shed>>
      BY <2>3 DEF RequestShutdown, queueVars, writerVars, history
    <3> QED BY <3>1 DEF PipelineInv, TypeOK, DepthExact, Backlog, MutexHeld, CarriesRecord,
               WriterHoldsRecord, StoppingIsClosed, CleanStopIsFinal, NoLostWakeup, NonEmpty
  <2>4. CASE AbortWriter
    <3>1. /\ writer' = "aborted"
          /\ UNCHANGED <<queues, depth, dropped, holder, accepting, permit, pc, submitting,
                         stopping, current, shutdown, accepted, handled, shed>>
      BY <2>4 DEF AbortWriter, queueVars, history
    <3> QED BY <3>1 DEF PipelineInv, TypeOK, WriterSteps, DepthExact, Backlog, MutexHeld, CarriesRecord,
               WriterHoldsRecord, StoppingIsClosed, CleanStopIsFinal, NoLostWakeup, NonEmpty
  <2>5. CASE UNCHANGED vars
    BY <2>5 DEF vars, PipelineInv, TypeOK, DepthExact, Backlog, MutexHeld, CarriesRecord,
       WriterHoldsRecord, StoppingIsClosed, CleanStopIsFinal, NoLostWakeup, NonEmpty
  <2> QED BY <2>1, <2>2, <2>3, <2>4, <2>5 DEF Next
<1> QED BY <1>1, <1>2, PTL DEF Spec

\* Every variable of the pipeline keeps its type: in particular the depth
\* counter that pop decrements never leaves the naturals.
THEOREM PipelineTypeCorrect == Spec => []TypeOK
<1>1. PipelineInv => TypeOK
  BY DEF PipelineInv
<1> QED BY <1>1, PipelineInvariant, PTL

\* Whatever the interleaving of submit and shutdown, a writer that ended
\* cleanly (run_writer's Ok) left an empty queue, closed admission, and no
\* thread that could still push.
THEOREM CleanStopSound == Spec => []CleanStopIsFinal
<1>1. PipelineInv => CleanStopIsFinal
  BY DEF PipelineInv
<1> QED BY <1>1, PipelineInvariant, PTL

\* push's and pop's hand-kept depth is the number of queued records and
\* respects the configured capacity.
THEOREM DepthSound == Spec => []DepthExact
<1>1. PipelineInv => DepthExact
  BY DEF PipelineInv
<1> QED BY <1>1, PipelineInvariant, PTL

\* A waiting writer with a record to write has a wakeup stored or coming.
THEOREM WakeupSound == Spec => []NoLostWakeup
<1>1. PipelineInv => NoLostWakeup
  BY DEF PipelineInv
<1> QED BY <1>1, PipelineInvariant, PTL

-----------------------------------------------------------------------------
\* No accepted record is lost or duplicated

\* Each queue holds records of its priority, each once.
Tidy(q) ==
  \A k \in Priorities :
    /\ \A i \in DOMAIN q[k] : q[k][i].priority = k
    /\ \A i, j \in DOMAIN q[k] : q[k][i] = q[k][j] => i = j

QueuedIn(q) == UNION {RangeOf(q[k]) : k \in Priorities}

\* What was shed is out of the queues.
ShedIsGone == IsFiniteSet(shed) /\ shed \cap Queued = {}

\* A record on its way to the queue is not among the accepted ones: each
\* thread numbers its own, and none of its accepted ones is numbered higher.
Pushing(p) == pc[p] \in {"admitted_unlocked", "locked", "admitted"}

Behind(r) ==
  /\ r.number <= SubmittedBy(r.from)
  /\ Pushing(r.from) => r.number < SubmittedBy(r.from)

SubmittedIsNew ==
  /\ \A p \in Producers : submitting[p] # NoRecord => submitting[p].from = p
  /\ \A r \in RangeOf(accepted) : Behind(r)

\* The writer holds a record only from pop to the return of the sink.
HandIsFree == writer \in {"new", "pop", "wait", "closing", "done"} => current = NoRecord

ConservedInv ==
  /\ AcceptedConserved
  /\ Tidy(queues)
  /\ ShedIsGone
  /\ SubmittedIsNew
  /\ HandIsFree

\* The elements of a sequence that grew at its end.
LEMMA AppendedElements ==
  ASSUME NEW S, NEW s \in Seq(S), NEW e \in S
  PROVE  /\ Append(s, e) \in Seq(S) /\ Len(Append(s, e)) = Len(s) + 1
         /\ RangeOf(Append(s, e)) = RangeOf(s) \cup {e}
         /\ \A i \in 1..Len(s) : Append(s, e)[i] = s[i]
         /\ Append(s, e)[Len(s) + 1] = e
<1>1. PICK t : t = Append(s, e)
  OBVIOUS
<1>2. /\ t \in Seq(S) /\ Len(t) = Len(s) + 1 /\ Len(s) \in Nat
      /\ \A i \in 1..Len(s) : t[i] = s[i]
      /\ t[Len(s) + 1] = e
  BY <1>1, AppendProperties
<1>3. DOMAIN t = 1..(Len(s) + 1) /\ DOMAIN s = 1..Len(s)
  BY <1>2
<1>4. RangeOf(t) \subseteq RangeOf(s) \cup {e}
  <2> SUFFICES ASSUME NEW i \in 1..(Len(s) + 1) PROVE t[i] \in RangeOf(s) \cup {e}
    BY <1>3 DEF RangeOf
  <2>1. i \in 1..Len(s) \/ i = Len(s) + 1
    BY <1>2
  <2> QED
    BY <1>2, <1>3, <2>1 DEF RangeOf
<1>5. e \in RangeOf(t)
  <2>1. Len(s) + 1 \in DOMAIN t
    BY <1>2, <1>3
  <2> QED
    BY <1>2, <2>1 DEF RangeOf
<1>6. RangeOf(s) \subseteq RangeOf(t)
  <2> SUFFICES ASSUME NEW i \in 1..Len(s) PROVE s[i] \in RangeOf(t)
    BY <1>3 DEF RangeOf
  <2>1. i \in DOMAIN t /\ t[i] = s[i]
    BY <1>2, <1>3
  <2> QED
    BY <2>1 DEF RangeOf
<1> QED
  BY <1>1, <1>2, <1>4, <1>5, <1>6

\* The elements of a sequence and of what follows its head.
LEMMA TailElements ==
  ASSUME NEW S, NEW s \in Seq(S), s # <<>>
  PROVE  /\ Tail(s) \in Seq(S) /\ Head(s) \in S /\ Head(s) = s[1] /\ 1 \in DOMAIN s
         /\ RangeOf(s) = RangeOf(Tail(s)) \cup {Head(s)}
         /\ \A i \in DOMAIN Tail(s) : i + 1 \in DOMAIN s /\ i + 1 # 1 /\ Tail(s)[i] = s[i + 1]
<1>1. PICK t, h : t = Tail(s) /\ h = Head(s)
  OBVIOUS
<1>2. /\ Len(s) \in Nat \ {0} /\ t \in Seq(S) /\ h \in S /\ h = s[1]
      /\ Len(t) = Len(s) - 1
      /\ \A i \in 1..Len(t) : t[i] = s[i + 1]
  BY <1>1, HeadTailProperties, EmptySeq
<1>3. DOMAIN s = 1..Len(s) /\ DOMAIN t = 1..(Len(s) - 1) /\ 1 \in DOMAIN s
  BY <1>2
<1>4. \A i \in DOMAIN t : i + 1 \in DOMAIN s /\ i + 1 # 1 /\ t[i] = s[i + 1]
  BY <1>2, <1>3
<1>5. RangeOf(t) \subseteq RangeOf(s) /\ h \in RangeOf(s)
  BY <1>2, <1>3, <1>4 DEF RangeOf
<1>6. RangeOf(s) \subseteq RangeOf(t) \cup {h}
  <2> SUFFICES ASSUME NEW i \in DOMAIN s PROVE s[i] \in RangeOf(t) \cup {h}
    BY DEF RangeOf
  <2>1. CASE i = 1
    BY <1>2, <2>1
  <2>2. CASE i # 1
    <3>1. PICK j \in DOMAIN t : i = j + 1
      <4>1. i - 1 \in DOMAIN t /\ i = (i - 1) + 1
        BY <1>2, <1>3, <2>2
      <4> QED
        BY <4>1
    <3> QED
      BY <1>4, <3>1 DEF RangeOf
  <2> QED
    BY <2>1, <2>2
<1> QED
  BY <1>1, <1>2, <1>3, <1>4, <1>5, <1>6

\* A new record at the end of its queue.
LEMMA QueueAppended ==
  ASSUME NEW q \in [Priorities -> Seq(Record)], Tidy(q), NEW r \in Record, r \notin QueuedIn(q),
         NEW q1, q1 = [q EXCEPT ![r.priority] = Append(@, r)]
  PROVE  Tidy(q1) /\ QueuedIn(q1) = QueuedIn(q) \cup {r}
<1>1. r.priority \in Priorities
  BY DEF Record
<1>2. PICK c, s, t : c = r.priority /\ s = q[c] /\ t = Append(s, r)
  OBVIOUS
<1>3. s \in Seq(Record) /\ c \in Priorities
  BY <1>1, <1>2
<1>4. /\ t \in Seq(Record) /\ Len(t) = Len(s) + 1 /\ RangeOf(t) = RangeOf(s) \cup {r}
      /\ \A i \in 1..Len(s) : t[i] = s[i]
      /\ t[Len(s) + 1] = r
  BY <1>2, <1>3, AppendedElements
<1>5. q1[c] = t /\ \A k \in Priorities : k # c => q1[k] = q[k]
  BY <1>1, <1>2
<1>6. Len(s) \in Nat /\ DOMAIN s = 1..Len(s) /\ DOMAIN t = 1..(Len(s) + 1)
  BY <1>3, <1>4
<1>7. \A i \in DOMAIN s : s[i] # r
  BY <1>2, <1>3 DEF QueuedIn, RangeOf
<1>8. ASSUME NEW k \in Priorities
      PROVE  /\ \A i \in DOMAIN q1[k] : q1[k][i].priority = k
             /\ \A i, j \in DOMAIN q1[k] : q1[k][i] = q1[k][j] => i = j
  <2>1. CASE k # c
    BY <1>5, <2>1 DEF Tidy
  <2>2. CASE k = c
    <3>1. /\ \A i \in DOMAIN s : s[i].priority = c
          /\ \A i, j \in DOMAIN s : s[i] = s[j] => i = j
      BY <1>2, <1>3 DEF Tidy
    <3>2. \A i \in DOMAIN t : i \in DOMAIN s \/ i = Len(s) + 1
      BY <1>6
    <3>3. \A i \in DOMAIN t : t[i].priority = c
      BY <1>2, <1>4, <1>6, <3>1, <3>2
    <3>4. \A i, j \in DOMAIN t : t[i] = t[j] => i = j
      BY <1>4, <1>6, <1>7, <3>1, <3>2
    <3> QED
      BY <1>5, <2>2, <3>3, <3>4
  <2> QED
    BY <2>1, <2>2
<1>9. QueuedIn(q1) = QueuedIn(q) \cup {r}
  <2>1. \A k \in Priorities : RangeOf(q1[k]) \subseteq QueuedIn(q) \cup {r}
    BY <1>2, <1>3, <1>4, <1>5 DEF QueuedIn
  <2>2. \A k \in Priorities : RangeOf(q[k]) \subseteq QueuedIn(q1)
    BY <1>2, <1>3, <1>4, <1>5 DEF QueuedIn
  <2>3. r \in QueuedIn(q1)
    BY <1>3, <1>4, <1>5 DEF QueuedIn
  <2>4. QueuedIn(q1) \subseteq QueuedIn(q) \cup {r}
    <3> SUFFICES ASSUME NEW e \in QueuedIn(q1) PROVE e \in QueuedIn(q) \cup {r}
      OBVIOUS
    <3>1. PICK k \in Priorities : e \in RangeOf(q1[k])
      BY DEF QueuedIn
    <3> QED
      BY <2>1, <3>1
  <2>5. QueuedIn(q) \subseteq QueuedIn(q1)
    <3> SUFFICES ASSUME NEW e \in QueuedIn(q) PROVE e \in QueuedIn(q1)
      OBVIOUS
    <3>1. PICK k \in Priorities : e \in RangeOf(q[k])
      BY DEF QueuedIn
    <3> QED
      BY <2>2, <3>1
  <2> QED
    BY <2>3, <2>4, <2>5
<1> QED
  BY <1>8, <1>9 DEF Tidy

\* The queues without the oldest record of one priority.
Taken(q, k) == [q EXCEPT ![k] = Tail(@)]

TakenFrom(q, k, q1, h) ==
  /\ q1 \in [Priorities -> Seq(Record)] /\ Tidy(q1)
  /\ h \in Record /\ h.priority = k
  /\ QueuedIn(q) = QueuedIn(q1) \cup {h} /\ h \notin QueuedIn(q1)

\* The oldest record leaves its queue, which held it once.
LEMMA QueueTaken ==
  ASSUME NEW q \in [Priorities -> Seq(Record)], Tidy(q), NEW k \in Priorities, q[k] # <<>>,
         NEW q1, q1 = Taken(q, k), NEW h, h = Head(q[k])
  PROVE  TakenFrom(q, k, q1, h)
<1>1. PICK s, t : s = q[k] /\ t = Tail(s)
  OBVIOUS
<1>2. s \in Seq(Record) /\ s # <<>> /\ h = Head(s)
  BY <1>1
<1>3. /\ t \in Seq(Record) /\ h \in Record /\ h = s[1] /\ 1 \in DOMAIN s
      /\ RangeOf(s) = RangeOf(t) \cup {h}
      /\ \A i \in DOMAIN t : i + 1 \in DOMAIN s /\ i + 1 # 1 /\ t[i] = s[i + 1]
  BY <1>1, <1>2, TailElements
<1>4. q1[k] = t /\ (\A j \in Priorities : j # k => q1[j] = q[j]) /\ q1 \in [Priorities -> Seq(Record)]
  BY <1>1, <1>3 DEF Taken
<1>5. /\ \A i \in DOMAIN s : s[i].priority = k
      /\ \A i, j \in DOMAIN s : s[i] = s[j] => i = j
  BY <1>1 DEF Tidy
<1>6. DOMAIN t \subseteq Nat
  BY <1>3
<1>7. ASSUME NEW c \in Priorities
      PROVE  /\ \A i \in DOMAIN q1[c] : q1[c][i].priority = c
             /\ \A i, j \in DOMAIN q1[c] : q1[c][i] = q1[c][j] => i = j
  <2>1. CASE c # k
    BY <1>4, <2>1 DEF Tidy
  <2>2. CASE c = k
    <3>1. \A i \in DOMAIN t : t[i].priority = k
      BY <1>3, <1>5
    <3>2. ASSUME NEW i \in DOMAIN t, NEW j \in DOMAIN t, t[i] = t[j] PROVE i = j
      <4>1. s[i + 1] = s[j + 1] /\ i + 1 \in DOMAIN s /\ j + 1 \in DOMAIN s
        BY <1>3, <3>2
      <4>2. i + 1 = j + 1
        BY <1>5, <4>1
      <4> QED
        BY <1>6, <4>2
    <3> QED
      BY <1>4, <2>2, <3>1, <3>2
  <2> QED
    BY <2>1, <2>2
<1>8. h.priority = k
  BY <1>3, <1>5
<1>9. h \notin QueuedIn(q1)
  <2>1. ASSUME NEW c \in Priorities, NEW i \in DOMAIN q1[c], q1[c][i] = h PROVE FALSE
    <3>1. c = k
      BY <1>7, <1>8, <2>1
    <3>2. i \in DOMAIN t /\ t[i] = h
      BY <1>4, <2>1, <3>1
    <3>3. s[i + 1] = s[1] /\ i + 1 \in DOMAIN s /\ i + 1 # 1
      BY <1>3, <3>2
    <3> QED
      BY <1>3, <1>5, <3>3
  <2> QED
    BY <2>1 DEF QueuedIn, RangeOf
<1>10. QueuedIn(q) = QueuedIn(q1) \cup {h}
  <2>1. ASSUME NEW c \in Priorities PROVE RangeOf(q[c]) \subseteq QueuedIn(q1) \cup {h}
    <3>1. RangeOf(q1[c]) \subseteq QueuedIn(q1)
      BY DEF QueuedIn
    <3> QED
      BY <1>1, <1>3, <1>4, <3>1
  <2>2. \A c \in Priorities : RangeOf(q1[c]) \subseteq QueuedIn(q)
    BY ZenonT(60), <1>1, <1>3, <1>4 DEF QueuedIn
  <2>3. h \in QueuedIn(q)
    BY <1>1, <1>3 DEF QueuedIn
  <2> QED
    BY <2>1, <2>2, <2>3 DEF QueuedIn
<1> QED
  BY <1>3, <1>4, <1>7, <1>8, <1>9, <1>10 DEF Tidy, TakenFrom

\* A step that moves no record.
LEMMA NothingMoves ==
  ASSUME ConservedInv, UNCHANGED <<queues, depth, current, accepted, handled, shed>>,
         SubmittedIsNew', HandIsFree'
  PROVE  ConservedInv'
BY DEF ConservedInv, AcceptedConserved, Tidy, ShedIsGone, Queued, InFlight

\* No thread comes nearer to push than it was.
LEMMA NobodyNearer ==
  ASSUME SubmittedIsNew, TypeOK, UNCHANGED <<submitting, accepted>>,
         \A p \in Producers : Pushing(p)' => Pushing(p)
  PROVE  SubmittedIsNew'
<1>1. \A r \in RangeOf(accepted) : r \in Record
  BY DEF TypeOK, RangeOf
<1>2. \A r \in RangeOf(accepted) : r.from \in Producers
  BY <1>1 DEF Record
<1>3. \A r \in RangeOf(accepted) : Behind(r)'
  BY <1>2 DEF SubmittedIsNew, Behind, SubmittedBy
<1> QED
  BY <1>3 DEF SubmittedIsNew, RangeOf

\* What waits in the queues is tidy, gone from shed, and accepted.
LEMMA PlacesOf ==
  ASSUME ConservedInv
  PROVE  /\ Queued = QueuedIn(queues)
         /\ Queued \subseteq RangeOf(accepted) /\ shed \subseteq RangeOf(accepted)
BY DEF ConservedInv, AcceptedConserved, Queued, QueuedIn

\* A record about to be pushed is in none of the places.
LEMMA PushedIsNew ==
  ASSUME PipelineInv, ConservedInv, NEW p \in Producers, pc[p] = "admitted"
  PROVE  /\ submitting[p] \in Record /\ submitting[p].from = p
         /\ submitting[p] \notin RangeOf(accepted)
         /\ submitting[p] \notin Queued /\ submitting[p] \notin shed
         /\ SubmittedBy(p) = submitting[p].number
<1>1. submitting[p] \in Record /\ submitting[p] # NoRecord
  BY PipelineAssumption DEF PipelineInv, CarriesRecord
<1>2. submitting[p].from = p /\ SubmittedBy(p) = submitting[p].number
  BY <1>1 DEF ConservedInv, SubmittedIsNew, SubmittedBy
<1>3. submitting[p].number \in Nat
  BY <1>1 DEF Record
<1>4. submitting[p] \notin RangeOf(accepted)
  <2> SUFFICES ASSUME Behind(submitting[p]) PROVE FALSE
    BY DEF ConservedInv, SubmittedIsNew
  <2>1. submitting[p].number < submitting[p].number
    BY <1>2 DEF Behind, Pushing
  <2> QED
    BY <1>3, <2>1
<1> QED
  BY <1>1, <1>2, <1>4, PlacesOf

\* push leaves its record behind the first admission check, and numbers on.
LEMMA PushedIsNumbered ==
  ASSUME PipelineInv, ConservedInv, NEW p \in Producers, Push(p),
         accepted' = accepted \/ accepted' = Append(accepted, submitting[p])
  PROVE  SubmittedIsNew'
<1>1. /\ pc[p] = "admitted" /\ pc' = [pc EXCEPT ![p] = "pushed"] /\ UNCHANGED submitting
      /\ pc \in [Producers -> ProducerSteps]
  BY DEF Push, Goto, PipelineInv, TypeOK
<1>2. \A o \in Producers : Pushing(o)' => Pushing(o) /\ o # p
  BY <1>1 DEF Pushing
<1>3. CASE accepted' = accepted
  BY <1>1, <1>2, <1>3, NobodyNearer DEF PipelineInv, ConservedInv
<1>4. CASE accepted' = Append(accepted, submitting[p])
  <2>1. /\ submitting[p] \in Record /\ submitting[p].from = p
        /\ SubmittedBy(p) = submitting[p].number
    BY <1>1, PushedIsNew
  <2>2. PICK r : r = submitting[p]
    OBVIOUS
  <2>3. accepted \in Seq(Record) /\ r \in Record /\ r.number \in Nat
    BY <2>1, <2>2 DEF PipelineInv, TypeOK, Record
  <2>4. RangeOf(accepted') = RangeOf(accepted) \cup {r}
    BY <1>4, <2>2, <2>3, AppendedElements
  <2>5. \A o : SubmittedBy(o)' = SubmittedBy(o)
    BY <1>1 DEF SubmittedBy
  <2>6. ASSUME NEW e \in RangeOf(accepted) PROVE Behind(e)'
    <3>1. e \in Record
      BY <2>3 DEF RangeOf
    <3>2. e.from \in Producers
      BY <3>1 DEF Record
    <3> QED
      BY <1>2, <2>5, <3>2 DEF ConservedInv, SubmittedIsNew, Behind
  <2>7. Behind(r)'
    <3>1. r.number = SubmittedBy(r.from)' /\ ~Pushing(r.from)'
      BY <1>2, <2>1, <2>2, <2>5
    <3> QED
      BY <2>3, <3>1 DEF Behind
  <2>8. \A e \in RangeOf(accepted)' : Behind(e)'
    BY <2>4, <2>6, <2>7 DEF RangeOf
  <2> QED
    BY <1>1, <2>8 DEF ConservedInv, SubmittedIsNew
<1> QED
  BY <1>3, <1>4

\* push conserves: its record joins the queue, or an ordinary one makes way
\* for it, or it was never accepted.
LEMMA PushConserves ==
  ASSUME PipelineInv, PipelineInv', ConservedInv, NEW p \in Producers, Push(p)
  PROVE  ConservedInv'
<1> DEFINE r == submitting[p]
<1>1. /\ pc[p] = "admitted" /\ UNCHANGED <<current, writer, handled>>
      /\ Enqueue(r) \/ EnqueueAfterShedding(r) \/ DropNew(r)
  BY DEF Push, writerVars
<1>2. /\ r \in Record /\ r \notin RangeOf(accepted) /\ r \notin Queued /\ r \notin shed
  BY <1>1, PushedIsNew
<1> HIDE DEF r
<1>3. /\ Queued = QueuedIn(queues) /\ Queued' = QueuedIn(queues')
      /\ InFlight' = InFlight /\ HandIsFree'
  BY <1>1 DEF Queued, QueuedIn, InFlight, ConservedInv, HandIsFree
<1>4. /\ queues \in [Priorities -> Seq(Record)] /\ accepted \in Seq(Record)
      /\ depth \in Nat /\ Tidy(queues) /\ IsFiniteSet(shed) /\ shed \cap Queued = {}
      /\ \A e \in shed : e.priority = Ordinary
      /\ RangeOf(accepted) = Queued \cup InFlight \cup RangeOf(handled) \cup shed
      /\ Len(accepted) = depth + Cardinality(InFlight) + Len(handled) + Cardinality(shed)
  BY DEF PipelineInv, TypeOK, ConservedInv, AcceptedConserved, ShedIsGone
<1>5. Len(handled) \in Nat /\ Cardinality(InFlight) \in Nat /\ Cardinality(shed) \in Nat
  <2>1. Cardinality({}) = 0 /\ Cardinality({current}) = 1
    BY FS_EmptySet, FS_Singleton
  <2>2. Cardinality(InFlight) \in {0, 1}
    BY <2>1 DEF InFlight
  <2>3. Cardinality(shed) \in Nat
    BY <1>4, FS_CardinalityType
  <2> QED
    BY <2>2, <2>3 DEF PipelineInv, TypeOK
<1>6. r.priority \in Priorities /\ Ordinary \in Priorities
  BY <1>2 DEF Record, Priorities, Ordinary
<1>7. CASE DropNew(r)
  <2>1. UNCHANGED <<queues, depth, accepted, shed>>
    BY <1>7 DEF DropNew
  <2>2. SubmittedIsNew'
    BY <2>1, PushedIsNumbered
  <2> QED
    BY <1>1, <1>3, <2>1, <2>2, NothingMoves
<1>8. CASE Enqueue(r)
  <2>1. /\ queues' = [queues EXCEPT ![r.priority] = Append(@, r)]
        /\ depth' = depth + 1 /\ accepted' = Append(accepted, r) /\ shed' = shed
    BY <1>8 DEF Enqueue
  <2>2. SubmittedIsNew'
    BY <2>1, PushedIsNumbered DEF r
  <2>3. Tidy(queues') /\ Queued' = Queued \cup {r}
    BY <1>2, <1>3, <1>4, <2>1, QueueAppended
  <2>4. Len(accepted') = Len(accepted) + 1 /\ RangeOf(accepted') = RangeOf(accepted) \cup {r}
    BY <1>2, <1>4, <2>1, AppendedElements
  <2>5. ShedIsGone'
    BY <1>2, <1>4, <2>1, <2>3 DEF ShedIsGone
  <2>6. AcceptedConserved'
    <3>1. RangeOf(accepted)' = Queued' \cup InFlight' \cup RangeOf(handled)' \cup shed'
      BY <1>1, <1>3, <1>4, <2>1, <2>3, <2>4 DEF RangeOf
    <3>2. Len(accepted') = depth' + Cardinality(InFlight') + Len(handled') + Cardinality(shed')
      BY <1>1, <1>3, <1>4, <1>5, <2>1, <2>4
    <3> QED
      BY <1>4, <2>1, <3>1, <3>2 DEF AcceptedConserved
  <2> QED
    BY <1>3, <2>2, <2>3, <2>5, <2>6 DEF ConservedInv, Tidy
<1>9. CASE EnqueueAfterShedding(r)
  <2>0. PICK k, h, rest : /\ k = Ordinary /\ h = Head(queues[k])
                          /\ rest = Taken(queues, k)
    OBVIOUS
  <2>1. /\ queues[Ordinary] # <<>> /\ r.priority # Ordinary
        /\ queues' = [queues EXCEPT ![Ordinary] = Tail(@), ![r.priority] = Append(@, r)]
        /\ depth' = depth /\ accepted' = Append(accepted, r) /\ shed' = shed \cup {h}
    BY <1>9, <2>0 DEF EnqueueAfterShedding
  <2>2. SubmittedIsNew'
    BY <2>1, PushedIsNumbered DEF r
  <2>3. /\ rest \in [Priorities -> Seq(Record)] /\ Tidy(rest)
        /\ h \in Record /\ h.priority = Ordinary
        /\ Queued = QueuedIn(rest) \cup {h} /\ h \notin QueuedIn(rest)
    <3>1. k \in Priorities /\ queues[k] # <<>>
      BY <1>6, <2>0, <2>1
    <3>2. /\ rest \in [Priorities -> Seq(Record)] /\ Tidy(rest) /\ h \in Record /\ h.priority = k
          /\ QueuedIn(queues) = QueuedIn(rest) \cup {h} /\ h \notin QueuedIn(rest)
      <4>1. PICK q : q = queues
        OBVIOUS
      <4>2. /\ q \in [Priorities -> Seq(Record)] /\ Tidy(q) /\ q[k] # <<>>
            /\ rest = Taken(q, k) /\ h = Head(q[k])
        BY <1>4, <2>0, <3>1, <4>1
      <4>3. TakenFrom(q, k, rest, h)
        BY <3>1, <4>2, QueueTaken
      <4> QED
        BY <4>1, <4>3 DEF TakenFrom
    <3> QED
      BY <1>3, <2>0, <3>2
  <2>4. queues' = [rest EXCEPT ![r.priority] = Append(@, r)]
    BY <1>4, <1>6, <2>0, <2>1 DEF Taken
  <2>5. Tidy(queues') /\ Queued' = QueuedIn(rest) \cup {r}
    BY <1>2, <1>3, <2>3, <2>4, QueueAppended
  <2>6. Len(accepted') = Len(accepted) + 1 /\ RangeOf(accepted') = RangeOf(accepted) \cup {r}
    BY <1>2, <1>4, <2>1, AppendedElements
  <2>7. IsFiniteSet(shed') /\ Cardinality(shed') = Cardinality(shed) + 1
    BY <1>4, <2>1, <2>3, FS_AddElement
  <2>8. ShedIsGone'
    BY <1>2, <1>4, <2>1, <2>3, <2>5, <2>7 DEF ShedIsGone
  <2>9. AcceptedConserved'
    <3>1. RangeOf(accepted)' = Queued' \cup InFlight' \cup RangeOf(handled)' \cup shed'
      <4>1. RangeOf(handled)' = RangeOf(handled)
        BY <1>1 DEF RangeOf
      <4> QED
        BY <1>3, <1>4, <2>1, <2>3, <2>5, <2>6, <4>1
    <3>2. Len(accepted') = depth' + Cardinality(InFlight') + Len(handled') + Cardinality(shed')
      BY <1>1, <1>3, <1>4, <1>5, <2>1, <2>6, <2>7
    <3> QED
      BY <1>4, <2>1, <2>3, <3>1, <3>2 DEF AcceptedConserved
  <2> QED
    BY <1>3, <2>2, <2>5, <2>8, <2>9 DEF ConservedInv, Tidy
<1> QED
  BY <1>1, <1>7, <1>8, <1>9

\* The next record of a thread has a number above all it had accepted.
LEMMA NextIsNew ==
  ASSUME PipelineInv, PipelineInv', ConservedInv, NEW p \in Producers, CheckOpen(p)
  PROVE  ConservedInv'
<1>1. /\ UNCHANGED <<queues, depth, current, accepted, handled, shed, writer>>
      /\ \A o \in Producers : o # p => pc'[o] = pc[o]
      /\ SubmittedBy(p) < MaxRecords
  BY DEF CheckOpen, Goto, queueVars, writerVars, history, PipelineInv, TypeOK
<1>2. PICK k \in UsedPriorities :
        submitting' = [submitting EXCEPT ![p] =
                         [from |-> p, number |-> SubmittedBy(p) + 1, priority |-> k]]
  BY DEF CheckOpen
<1>3. PICK s : s = [from |-> p, number |-> SubmittedBy(p) + 1, priority |-> k]
  OBVIOUS
<1>4. /\ submitting \in [Producers -> Record \cup {NoRecord}]
      /\ submitting'[p] = s /\ \A o \in Producers : o # p => submitting'[o] = submitting[o]
  BY <1>2, <1>3 DEF PipelineInv, TypeOK
<1>5. SubmittedBy(p) \in Nat
  <2>1. submitting[p] \in Record => submitting[p].number \in Nat
    BY DEF Record
  <2> QED
    BY <1>4, <2>1 DEF SubmittedBy
<1>6. s \in Record
  <2>1. SubmittedBy(p) + 1 \in 1..MaxRecords /\ k \in Priorities
    BY <1>1, <1>5, PipelineAssumption
  <2> QED
    BY <1>3, <2>1 DEF Record
<1>7. SubmittedBy(p)' = SubmittedBy(p) + 1
  BY <1>3, <1>4, <1>6, PipelineAssumption DEF SubmittedBy
<1>8. \A o \in Producers : o # p => SubmittedBy(o)' = SubmittedBy(o) /\ (Pushing(o)' <=> Pushing(o))
  BY <1>1, <1>4 DEF SubmittedBy, Pushing
<1>9. ASSUME NEW e \in RangeOf(accepted) PROVE Behind(e)'
  <2>1. e \in Record
    BY DEF PipelineInv, TypeOK, RangeOf
  <2>2. e.from \in Producers /\ e.number \in Nat
    BY <2>1 DEF Record
  <2>3. Behind(e)
    BY DEF ConservedInv, SubmittedIsNew
  <2>4. CASE e.from = p
    BY <1>5, <1>7, <2>2, <2>3, <2>4 DEF Behind
  <2>5. CASE e.from # p
    BY <1>8, <2>2, <2>3, <2>5 DEF Behind
  <2> QED
    BY <2>4, <2>5
<1>10. \A o \in Producers : submitting'[o] # NoRecord => submitting'[o].from = o
  BY <1>3, <1>4 DEF ConservedInv, SubmittedIsNew
<1>11. SubmittedIsNew'
  BY <1>1, <1>9, <1>10 DEF SubmittedIsNew, RangeOf
<1>12. HandIsFree'
  BY <1>1 DEF ConservedInv, HandIsFree
<1> QED
  BY <1>1, <1>11, <1>12, NothingMoves

\* pop moves the oldest record of the top priority into the writer's hand.
LEMMA PopConserves ==
  ASSUME PipelineInv, PipelineInv', ConservedInv, PopRecord
  PROVE  ConservedInv'
<1>1. PICK k, h, q : k = TopPriority /\ q = queues /\ h = Head(q[k])
  OBVIOUS
<1>2. /\ queues' = Taken(q, k) /\ depth' = depth - 1 /\ current' = h /\ writer' = "sink"
      /\ UNCHANGED <<accepted, handled, shed, submitting, pc>> /\ current = NoRecord
  BY <1>1 DEF PopRecord, Taken, history, ConservedInv, HandIsFree
<1>3. k \in Priorities /\ q[k] # <<>>
  BY <1>1, TopPriorityQueued DEF PopRecord, NonEmpty
<1>4. q \in [Priorities -> Seq(Record)] /\ Tidy(q)
  BY <1>1 DEF PipelineInv, TypeOK, ConservedInv
<1>5. TakenFrom(q, k, queues', h)
  <2>1. PICK q1 : q1 = queues'
    OBVIOUS
  <2>2. TakenFrom(q, k, q1, h)
    BY <1>1, <1>2, <1>3, <1>4, <2>1, QueueTaken
  <2> QED
    BY <2>1, <2>2
<1>6. /\ Tidy(queues') /\ h \in Record
      /\ Queued = Queued' \cup {h} /\ h \notin Queued'
  <2>1. Queued = QueuedIn(q) /\ Queued' = QueuedIn(queues')
    BY <1>1 DEF Queued, QueuedIn
  <2> QED
    BY <1>5, <2>1 DEF TakenFrom
<1>7. InFlight = {} /\ InFlight' = {h}
  BY <1>2, <1>6, PipelineAssumption DEF InFlight
<1>8. Cardinality(InFlight) = 0 /\ Cardinality(InFlight') = 1
  BY <1>7, FS_EmptySet, FS_Singleton
<1>9. AcceptedConserved'
  <2>1. RangeOf(accepted)' = RangeOf(accepted) /\ RangeOf(handled)' = RangeOf(handled)
    BY <1>2 DEF RangeOf
  <2>2. RangeOf(accepted)' = Queued' \cup InFlight' \cup RangeOf(handled)' \cup shed'
    BY <1>2, <1>6, <1>7, <2>1 DEF ConservedInv, AcceptedConserved
  <2>3. depth \in Nat /\ Len(handled) \in Nat /\ Cardinality(shed) \in Nat
    BY FS_CardinalityType DEF PipelineInv, TypeOK, ConservedInv, ShedIsGone
  <2>4. Len(accepted') = depth' + Cardinality(InFlight') + Len(handled') + Cardinality(shed')
    BY <1>2, <1>8, <2>3 DEF ConservedInv, AcceptedConserved
  <2> QED
    BY <1>2, <2>2, <2>4 DEF ConservedInv, AcceptedConserved
<1>10. ShedIsGone'
  BY <1>2, <1>6 DEF ConservedInv, ShedIsGone
<1>11. SubmittedIsNew'
  BY <1>2, NobodyNearer DEF ConservedInv, PipelineInv, Pushing
<1>12. HandIsFree'
  BY <1>2 DEF HandIsFree
<1> QED
  BY <1>6, <1>9, <1>10, <1>11, <1>12 DEF ConservedInv, Tidy

\* The sink's return moves the record from the hand to the handled ones.
LEMMA SinkConserves ==
  ASSUME PipelineInv, ConservedInv, SinkReturns
  PROVE  ConservedInv'
<1>1. PICK r : r = current
  OBVIOUS
<1>2. /\ handled' = Append(handled, r) /\ current' = NoRecord /\ writer' = "pop"
      /\ UNCHANGED <<queues, depth, accepted, shed, submitting, pc>>
      /\ r \in Record /\ r # NoRecord /\ handled \in Seq(Record)
  BY <1>1, PipelineAssumption DEF SinkReturns, queueVars, PipelineInv, WriterHoldsRecord, TypeOK
<1>3. /\ Len(handled') = Len(handled) + 1 /\ Len(handled) \in Nat
      /\ RangeOf(handled') = RangeOf(handled) \cup {r}
  BY <1>2, AppendedElements
<1>4. InFlight = {r} /\ InFlight' = {}
  BY <1>1, <1>2 DEF InFlight
<1>5. Cardinality(InFlight) = 1 /\ Cardinality(InFlight') = 0
  BY <1>4, FS_EmptySet, FS_Singleton
<1>6. Queued' = Queued
  BY <1>2 DEF Queued
<1>7. AcceptedConserved'
  <2>1. RangeOf(accepted)' = RangeOf(accepted) /\ RangeOf(handled)' = RangeOf(handled')
    BY <1>2 DEF RangeOf
  <2>2. RangeOf(accepted)' = Queued' \cup InFlight' \cup RangeOf(handled)' \cup shed'
    BY <1>2, <1>3, <1>4, <1>6, <2>1 DEF ConservedInv, AcceptedConserved
  <2>3. depth \in Nat /\ Cardinality(shed) \in Nat
    BY FS_CardinalityType DEF PipelineInv, TypeOK, ConservedInv, ShedIsGone
  <2>4. Len(accepted') = depth' + Cardinality(InFlight') + Len(handled') + Cardinality(shed')
    BY <1>2, <1>3, <1>5, <2>3 DEF ConservedInv, AcceptedConserved
  <2> QED
    BY <1>2, <2>2, <2>4 DEF ConservedInv, AcceptedConserved
<1>8. SubmittedIsNew'
  BY <1>2, NobodyNearer DEF ConservedInv, PipelineInv, Pushing
<1> QED
  BY <1>2, <1>6, <1>7, <1>8 DEF ConservedInv, Tidy, ShedIsGone, HandIsFree

\* The other steps move no record, and bring no thread nearer to push.
LEMMA OthersConserve ==
  ASSUME PipelineInv, ConservedInv,
         \/ \E p \in Producers : LockQueue(p) \/ RecheckOpen(p) \/ NotifyOne(p)
         \/ StartWriter \/ PopNothing \/ SinkFails \/ GiveUp \/ Notified \/ SeeShutdown
         \/ CloseAdmission \/ RequestShutdown \/ AbortWriter \/ UNCHANGED vars
  PROVE  ConservedInv'
<1>1. UNCHANGED <<queues, depth, current, accepted, handled, shed, submitting>>
  BY DEF LockQueue, RecheckOpen, NotifyOne, StartWriter, PopNothing, SinkFails, GiveUp, Notified,
         SeeShutdown, CloseAdmission, RequestShutdown, AbortWriter, vars, queueVars, writerVars, history
<1>2. \A o \in Producers : Pushing(o)' => Pushing(o)
  BY DEF LockQueue, RecheckOpen, NotifyOne, StartWriter, PopNothing, SinkFails, GiveUp, Notified,
         SeeShutdown, CloseAdmission, RequestShutdown, AbortWriter, vars, Goto, Pushing,
         PipelineInv, TypeOK
<1>3. HandIsFree'
  BY <1>1 DEF ConservedInv, HandIsFree, LockQueue, RecheckOpen, NotifyOne, StartWriter, PopNothing,
         SinkFails, GiveUp, Notified, SeeShutdown, CloseAdmission, RequestShutdown, AbortWriter,
         vars, writerVars
<1>4. SubmittedIsNew'
  BY <1>1, <1>2, NobodyNearer DEF ConservedInv, PipelineInv
<1> QED
  BY <1>1, <1>3, <1>4, NothingMoves

\* Whatever the interleaving of submit, pop and shutdown, a record the queue
\* accepted is queued, in the writer's hand, handled, or an ordinary one shed
\* for a protected one, and in one of them only.
THEOREM ConservationSound == Spec => []AcceptedConserved
<1>1. Init => ConservedInv
  <2> SUFFICES ASSUME Init PROVE ConservedInv
    OBVIOUS
  <2>1. Queued = {} /\ InFlight = {} /\ RangeOf(accepted) = {} /\ RangeOf(handled) = {}
    BY DEF Init, Queued, RangeOf, InFlight
  <2>2. Len(accepted) = 0 /\ Len(handled) = 0 /\ depth = 0
    BY DEF Init
  <2>3. shed = {} /\ IsFiniteSet(shed) /\ Cardinality(shed) = 0 /\ Cardinality(InFlight) = 0
    BY <2>1, FS_EmptySet DEF Init
  <2>4. AcceptedConserved
    BY <2>1, <2>2, <2>3 DEF AcceptedConserved
  <2>5. Tidy(queues) /\ HandIsFree /\ ShedIsGone
    BY <2>3 DEF Init, Tidy, HandIsFree, ShedIsGone
  <2>6. SubmittedIsNew
    BY <2>1 DEF Init, SubmittedIsNew
  <2> QED
    BY <2>4, <2>5, <2>6 DEF ConservedInv
<1>2. PipelineInv /\ PipelineInv' /\ ConservedInv /\ [Next]_vars => ConservedInv'
  BY NextIsNew, PushConserves, PopConserves, SinkConserves, OthersConserve DEF Next, Submit, RunWriter
<1>3. ConservedInv => AcceptedConserved
  BY DEF ConservedInv
<1> QED
  BY <1>1, <1>2, <1>3, PipelineInvariant, PTL DEF Spec

=============================================================================
