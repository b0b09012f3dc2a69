------------------------- MODULE DaemonServerProofs -------------------------
(***************************************************************************)
(* For every set of adapters and clients and every capacity of the scope   *)
(* channel: no timeout and no abort leaves the registry locked, and every  *)
(* caller of the observer is owed exactly one answer.                      *)
(***************************************************************************)
EXTENDS DaemonServer, SequenceTheorems, FiniteSetTheorems, TLAPS

AllSteps == ServeSteps \cup ObserverSteps \cup OperationSteps

\* The steps at which a task has a place in the queue of the lock, and those
\* at which it may hold it.
WaitingSteps == {"lock_write", "lock_read", "ingest", "tracked_cgroups"}
HoldingSteps == {"operate", "reply"}

(* What the queue needs besides NoLockLeaked: a task is in it only once,   *)
(* so that the one that leaves the head leaves the queue; and the observer *)
(* does not exist before serve has read the tracked cgroups.               *)
WaitsOnce == \A i, j \in DOMAIN waiting : waiting[i] = waiting[j] => i = j

SpawnedLater == at[Serve] \in {"spawned", "tracked_cgroups"} => at[Observer] = "unspawned"

LockInv == NoLockLeaked /\ WaitsOnce /\ SpawnedLater

(* OneReplyOwed without cardinalities.                                     *)
Asks(i, t) == requests[i].from = t /\ requests[i].live

OwedOnce(t) ==
  /\ \A i, j \in DOMAIN requests : Asks(i, t) /\ Asks(j, t) => i = j
  /\ \A i \in DOMAIN requests : Asks(i, t) => t \notin replied
  /\ at[t] = "reply" <=> t \in replied \/ \E i \in DOMAIN requests : Asks(i, t)

ReplyInv == \A t \in Tasks : OwedOnce(t)

----------------------------------------------------------------------------
\* The queue of the lock

(* RemoveAt on the queue: the other tasks keep their order.                *)
LEMMA RemoveAtProperties ==
  ASSUME NEW S, NEW s \in Seq(S), NEW i \in DOMAIN s
  PROVE  /\ RemoveAt(s, i) \in Seq(S)
         /\ Len(RemoveAt(s, i)) = Len(s) - 1
         /\ \A j \in DOMAIN RemoveAt(s, i) :
              RemoveAt(s, i)[j] = IF j < i THEN s[j] ELSE s[j + 1]
<1> DEFINE a == SubSeq(s, 1, i - 1)
           b == SubSeq(s, i + 1, Len(s))
<1>1. i \in 1..Len(s) /\ Len(s) \in Nat /\ \A j \in 1..Len(s) : s[j] \in S
  BY LenProperties, ElementOfSeq
<1>2. /\ a \in Seq(S) /\ Len(a) = i - 1
      /\ \A j \in 1..(i - 1) : a[j] = s[j]
  <2>1. \A j \in 1..(i - 1) : s[j] \in S
    BY <1>1
  <2> QED
    BY <1>1, <2>1, SubSeqProperties
<1>3. /\ b \in Seq(S) /\ Len(b) = Len(s) - i
      /\ \A j \in 1..(Len(s) - i) : b[j] = s[i + j]
  <2>1. \A j \in (i + 1)..Len(s) : s[j] \in S
    BY <1>1
  <2>2. /\ b \in Seq(S) /\ Len(b) = IF i + 1 <= Len(s) THEN Len(s) - (i + 1) + 1 ELSE 0
        /\ \A j \in 1..(Len(s) - (i + 1) + 1) : b[j] = s[(i + 1) + j - 1]
    BY <1>1, <2>1, SubSeqProperties
  <2> QED
    BY <1>1, <2>2
<1> HIDE DEF a, b
<1>4. /\ a \o b \in Seq(S) /\ Len(a \o b) = Len(a) + Len(b)
      /\ \A j \in 1..(Len(a) + Len(b)) :
           (a \o b)[j] = IF j <= Len(a) THEN a[j] ELSE b[j - Len(a)]
  BY <1>2, <1>3, ConcatProperties
<1>5. DOMAIN (a \o b) = 1..(Len(s) - 1)
  BY SMTT(40), <1>1, <1>2, <1>3, <1>4, LenProperties
<1>6. ASSUME NEW j \in 1..(Len(s) - 1)
      PROVE  (a \o b)[j] = IF j < i THEN s[j] ELSE s[j + 1]
  <2>1. CASE j < i
    BY SMTT(40), <1>1, <1>2, <1>3, <1>4, <2>1
  <2>2. CASE ~(j < i)
    <3>1. (a \o b)[j] = b[j - (i - 1)]
      <4>1. j \in 1..(Len(a) + Len(b)) /\ ~(j <= Len(a))
        BY <1>1, <1>2, <1>3, <2>2
      <4> QED
        BY <1>2, <1>4, <4>1
    <3>2. j - (i - 1) \in 1..(Len(s) - i) /\ i + (j - (i - 1)) = j + 1
      BY <1>1, <2>2
    <3> QED
      BY <1>3, <2>2, <3>1, <3>2
  <2> QED
    BY <2>1, <2>2
<1> QED
  <2>1. RemoveAt(s, i) = a \o b
    BY DEF RemoveAt, a, b
  <2>2. Len(a \o b) = Len(s) - 1
    BY <1>1, <1>2, <1>3, <1>4
  <2> QED
    BY <1>4, <1>5, <1>6, <2>1, <2>2

(* What Release leaves in the queue: only other tasks, each as often as    *)
(* before.                                                                 *)
LEMMA Released ==
  ASSUME NEW t \in Tasks, waiting \in Seq(Tasks), WaitsOnce, Release(t)
  PROVE  /\ waiting' \in Seq(Tasks)
         /\ WaitsOnce'
         /\ \A j \in DOMAIN waiting' :
              /\ waiting'[j] # t
              /\ \E i \in DOMAIN waiting : waiting'[j] = waiting[i]
<1>1. CASE t \notin ToSet(waiting) /\ waiting' = waiting
  BY <1>1 DEF WaitsOnce, ToSet
<1>2. ASSUME NEW i \in DOMAIN waiting, waiting[i] = t, waiting' = RemoveAt(waiting, i)
      PROVE  /\ waiting' \in Seq(Tasks)
             /\ WaitsOnce'
             /\ \A j \in DOMAIN waiting' :
                  /\ waiting'[j] # t
                  /\ \E k \in DOMAIN waiting : waiting'[j] = waiting[k]
  <2>1. /\ waiting' \in Seq(Tasks)
        /\ Len(waiting') = Len(waiting) - 1
        /\ \A j \in DOMAIN waiting' :
             waiting'[j] = IF j < i THEN waiting[j] ELSE waiting[j + 1]
    BY <1>2, RemoveAtProperties
  <2>2. DOMAIN waiting = 1..Len(waiting) /\ DOMAIN waiting' = 1..(Len(waiting) - 1) /\ Len(waiting) \in Nat
    BY <2>1, LenProperties
  <2> DEFINE old(j) == IF j < i THEN j ELSE j + 1
  <2>3. \A j \in DOMAIN waiting' : old(j) \in DOMAIN waiting /\ old(j) # i /\ waiting'[j] = waiting[old(j)]
    BY <2>1, <2>2
  <2>4. \A j, k \in DOMAIN waiting' : old(j) = old(k) => j = k
    BY <2>2
  <2> HIDE DEF old
  <2>5. WaitsOnce'
    BY <2>3, <2>4 DEF WaitsOnce
  <2>6. \A j \in DOMAIN waiting' : waiting'[j] # t
    BY <1>2, <2>3 DEF WaitsOnce
  <2> QED
    BY <2>1, <2>3, <2>5, <2>6
<1> QED
  BY <1>1, <1>2 DEF Release

(* The head leaves the queue and is nowhere else in it.                    *)
LEMMA HeadLeft ==
  ASSUME waiting \in Seq(Tasks), WaitsOnce, waiting # <<>>, waiting' = Tail(waiting)
  PROVE  /\ waiting' \in Seq(Tasks)
         /\ WaitsOnce'
         /\ \A j \in DOMAIN waiting' :
              /\ waiting'[j] # Head(waiting)
              /\ \E i \in DOMAIN waiting : waiting'[j] = waiting[i]
<1>1. /\ waiting' \in Seq(Tasks) /\ Len(waiting') = Len(waiting) - 1
      /\ \A j \in 1..Len(waiting') : waiting'[j] = waiting[j + 1]
  BY HeadTailProperties
<1>2. DOMAIN waiting = 1..Len(waiting) /\ DOMAIN waiting' = 1..(Len(waiting) - 1) /\ Len(waiting) \in Nat \ {0}
  BY <1>1, LenProperties, EmptySeq
<1>3. Head(waiting) = waiting[1] /\ 1 \in DOMAIN waiting
  BY <1>2
<1>4. \A j \in DOMAIN waiting' : j + 1 \in DOMAIN waiting /\ j + 1 # 1 /\ waiting'[j] = waiting[j + 1]
  BY <1>1, <1>2
<1>5. \A j, k \in DOMAIN waiting' : j + 1 = k + 1 => j = k
  BY <1>2
<1> QED
  BY <1>1, <1>3, <1>4, <1>5 DEF WaitsOnce

(* A task that is not in the queue joins it.                               *)
LEMMA Joins ==
  ASSUME NEW t \in Tasks, waiting \in Seq(Tasks), WaitsOnce, Enqueue(t),
         \A i \in DOMAIN waiting : waiting[i] # t
  PROVE  /\ waiting' \in Seq(Tasks)
         /\ WaitsOnce'
         /\ \A j \in DOMAIN waiting' :
              waiting'[j] = t \/ \E i \in DOMAIN waiting : waiting'[j] = waiting[i]
<1>1. /\ waiting' \in Seq(Tasks) /\ Len(waiting') = Len(waiting) + 1
      /\ \A i \in 1..Len(waiting) : waiting'[i] = waiting[i]
      /\ waiting'[Len(waiting) + 1] = t
  BY AppendProperties DEF Enqueue
<1>2. DOMAIN waiting = 1..Len(waiting) /\ DOMAIN waiting' = 1..(Len(waiting) + 1) /\ Len(waiting) \in Nat
  BY <1>1, LenProperties
<1>3. \A j \in DOMAIN waiting' : \/ j \in DOMAIN waiting /\ waiting'[j] = waiting[j]
                                 \/ j = Len(waiting) + 1 /\ waiting'[j] = t
  BY <1>1, <1>2
<1> QED
  BY <1>1, <1>3 DEF WaitsOnce

----------------------------------------------------------------------------
\* Steps of one task and the lock

(* A step of task t: every other task stays where it is, save the observer *)
(* when it is spawned.                                                     *)
StepOf(t) ==
  /\ at' \in [Tasks -> AllSteps]
  /\ \A u \in Tasks \ {t} : at'[u] = at[u] \/ at[u] = "unspawned"

\* A step of one task leaves the places of the others alone.
LEMMA GotoIsStep ==
  ASSUME at \in [Tasks -> AllSteps], NEW t \in Tasks, NEW step \in AllSteps, Goto(t, step)
  PROVE  StepOf(t) /\ at'[t] = step /\ \A u \in Tasks \ {t} : at'[u] = at[u]
BY DEF StepOf, Goto

(* The five things a task does to the lock.                                *)
LockTyped == at \in [Tasks -> AllSteps] /\ holder \in Tasks \cup {NoTask} /\ waiting \in Seq(Tasks)

\* Giving the lock up, or handing it to the first in the queue.
LEMMA ReleaseKeeps ==
  ASSUME LockTyped, NoLockLeaked, WaitsOnce, NEW t \in Tasks, StepOf(t), Release(t)
  PROVE  LockTyped' /\ NoLockLeaked' /\ WaitsOnce'
<1>1. \A j \in DOMAIN waiting' : \E i \in DOMAIN waiting : waiting'[j] = waiting[i] /\ waiting[i] # t
  BY Released DEF LockTyped
<1>2. \A i \in DOMAIN waiting : waiting[i] \in Tasks
  BY LenProperties DEF LockTyped
<1>3. holder' \in Tasks \cup {NoTask} /\ holder' # t /\ (holder' # NoTask => holder' = holder)
  BY ServerAssumption DEF Release, LockTyped
<1>4. LockTyped'
  BY Released, <1>3 DEF LockTyped, StepOf
<1>5. WaitsOnce'
  BY Released DEF LockTyped
<1>6. NoLockLeaked'
  BY <1>1, <1>2, <1>3 DEF NoLockLeaked, StepOf
<1> QED
  BY <1>4, <1>5, <1>6

\* The task a hand-over woke leaves the queue, with or without the lock.
LEMMA LeaveHeadKeeps ==
  ASSUME LockTyped, NoLockLeaked, WaitsOnce, NEW t \in Tasks, StepOf(t), AtHead(t),
         waiting' = Tail(waiting),
         \/ holder' = holder
         \/ holder' = t /\ at'[t] \in HoldingSteps
  PROVE  LockTyped' /\ NoLockLeaked' /\ WaitsOnce'
<1>1. \A j \in DOMAIN waiting' : \E i \in DOMAIN waiting : waiting'[j] = waiting[i] /\ waiting[i] # t
  BY HeadLeft DEF LockTyped, AtHead
<1>2. \A i \in DOMAIN waiting : waiting[i] \in Tasks
  BY LenProperties DEF LockTyped
<1>3. LockTyped'
  BY HeadLeft DEF LockTyped, StepOf, AtHead
<1>4. WaitsOnce'
  BY HeadLeft DEF LockTyped, AtHead
<1>5. NoLockLeaked'
  BY <1>1, <1>2 DEF NoLockLeaked, StepOf, AtHead, HoldingSteps
<1> QED
  BY <1>3, <1>4, <1>5

\* A task that finds the lock held joins the queue once.
LEMMA EnqueueKeeps ==
  ASSUME LockTyped, NoLockLeaked, WaitsOnce, NEW t \in Tasks, StepOf(t), Enqueue(t),
         at[t] \notin WaitingSteps \cup HoldingSteps, at'[t] \in WaitingSteps
  PROVE  LockTyped' /\ NoLockLeaked' /\ WaitsOnce'
<1>1. \A i \in DOMAIN waiting : waiting[i] \in Tasks /\ waiting[i] # t
  BY LenProperties DEF LockTyped, NoLockLeaked, WaitingSteps
<1>2. \A j \in DOMAIN waiting' : waiting'[j] = t \/ \E i \in DOMAIN waiting : waiting'[j] = waiting[i]
  BY <1>1, Joins DEF LockTyped
<1>3. holder' = holder /\ holder # t
  BY ServerAssumption DEF Enqueue, NoLockLeaked, HoldingSteps
<1>4. LockTyped'
  BY <1>1, <1>3, Joins DEF LockTyped, StepOf
<1>5. WaitsOnce'
  BY <1>1, Joins DEF LockTyped
<1>6. NoLockLeaked'
  BY <1>1, <1>2, <1>3 DEF NoLockLeaked, StepOf, LockTyped, WaitingSteps
<1> QED
  BY <1>4, <1>5, <1>6

\* A step away from the lock: a holder still holds it afterwards.
LEMMA ElsewhereKeeps ==
  ASSUME LockTyped, NoLockLeaked, WaitsOnce, NEW t \in Tasks, StepOf(t), UNCHANGED lockVars,
         at[t] \notin WaitingSteps, at[t] \in HoldingSteps => at'[t] \in HoldingSteps
  PROVE  LockTyped' /\ NoLockLeaked' /\ WaitsOnce'
<1>1. \A i \in DOMAIN waiting : waiting[i] \in Tasks /\ waiting[i] # t
  BY LenProperties DEF LockTyped, NoLockLeaked, WaitingSteps
<1>2. LockTyped' /\ WaitsOnce'
  BY DEF LockTyped, StepOf, WaitsOnce, lockVars
<1>3. NoLockLeaked'
  BY <1>1 DEF NoLockLeaked, StepOf, LockTyped, HoldingSteps, lockVars
<1> QED
  BY <1>2, <1>3

(* Every step of every task is one of these five.                          *)
LEMMA LockStep ==
  ASSUME LockTyped, NoLockLeaked, WaitsOnce, SpawnedLater, Next
  PROVE  LockTyped' /\ NoLockLeaked' /\ WaitsOnce'
<1> DEFINE Goal == LockTyped' /\ NoLockLeaked' /\ WaitsOnce'
<1> USE DEF AllSteps, ServeSteps, ObserverSteps, OperationSteps
<1>0. /\ at \in [Tasks -> AllSteps] /\ Serve \in Tasks /\ Observer \in Tasks /\ Writer \in Tasks
      /\ Operators \subseteq Tasks /\ Adapters \subseteq Tasks /\ Clients \subseteq Tasks
      /\ Serve \notin Operators /\ Observer \notin Operators /\ Serve # Observer
  BY ServerAssumption DEF LockTyped, Tasks, Operators
<1>1. ASSUME NEW t \in Operators, Operate(t) PROVE Goal
  <2>1. CASE GetWriteLock(t)
    <3>1. StepOf(t) /\ at'[t] = "operate"
      BY <1>0, <2>1, GotoIsStep DEF GetWriteLock
    <3>2. AtHead(t) /\ waiting' = Tail(waiting) /\ (holder' = holder \/ holder' = t)
      BY <2>1 DEF GetWriteLock, Acquire, PassThrough
    <3> QED
      BY <1>0, <3>1, <3>2, LeaveHeadKeeps DEF HoldingSteps
  <2>2. CASE SendScope(t)
    <3>1. StepOf(t) /\ at[t] = "operate" /\ at'[t] = "reply" /\ UNCHANGED lockVars
      BY <1>0, <2>2, GotoIsStep DEF SendScope
    <3> QED
      BY <1>0, <3>1, ElsewhereKeeps DEF HoldingSteps, WaitingSteps
  <2>3. CASE GetReply(t)
    <3>1. StepOf(t) /\ at[t] = "reply" /\ at'[t] = "operate" /\ UNCHANGED lockVars
      BY <1>0, <2>3, GotoIsStep DEF GetReply
    <3> QED
      BY <1>0, <3>1, ElsewhereKeeps DEF HoldingSteps, WaitingSteps
  <2>4. CASE FinishOperation(t)
    <3>1. After(t) \in AllSteps
      BY DEF After
    <3>2. StepOf(t) /\ Release(t)
      BY <1>0, <2>4, <3>1, GotoIsStep DEF FinishOperation
    <3> QED
      BY <1>0, <3>2, ReleaseKeeps
  <2>5. CASE GetReadLock(t)
    <3>1. StepOf(t) /\ AtHead(t) /\ waiting' = Tail(waiting) /\ holder' = holder
      BY <1>0, <2>5, GotoIsStep DEF GetReadLock, PassThrough
    <3> QED
      BY <1>0, <3>1, LeaveHeadKeeps
  <2> QED
    BY <1>1, <2>1, <2>2, <2>3, <2>4, <2>5 DEF Operate
<1>2. ASSUME NEW a \in Tasks, NEW old \in AllSteps \ (WaitingSteps \cup HoldingSteps),
             NEW step \in WaitingSteps, at[a] = old, Goto(a, step), Enqueue(a)
      PROVE  Goal
  BY <1>0, <1>2, GotoIsStep, EnqueueKeeps DEF WaitingSteps
<1>3. ASSUME NEW a \in Tasks, NEW old \in AllSteps \ (WaitingSteps \cup HoldingSteps),
             NEW step \in AllSteps, at[a] = old, Goto(a, step), UNCHANGED lockVars
      PROVE  Goal
  BY <1>0, <1>3, GotoIsStep, ElsewhereKeeps
<1>4. ASSUME NEW a \in Adapters, FindWorkload(a) \/ EndIngest(a) PROVE Goal
  BY <1>0, <1>2, <1>3, <1>4 DEF FindWorkload, EndIngest, WaitingSteps, HoldingSteps
<1>5. ASSUME NEW c \in Clients, Accept(c) \/ Dispatch(c) \/ WriteResponse(c) PROVE Goal
  BY <1>0, <1>2, <1>3, <1>5 DEF Accept, Dispatch, WriteResponse, WaitingSteps, HoldingSteps
<1>6. ASSUME NEW c \in Clients, RequestTimeout(c) PROVE Goal
  BY <1>0, <1>6, GotoIsStep, ReleaseKeeps DEF RequestTimeout
<1>7. ASSUME NEW t \in Operators, TaskStops(t) \/ AbortTask(t) PROVE Goal
  <2>1. CASE TaskStops(t)
    BY <1>0, <1>3, <2>1 DEF TaskStops, WaitingSteps, HoldingSteps
  <2>2. CASE AbortTask(t)
    BY <1>0, <2>2, GotoIsStep, ReleaseKeeps DEF AbortTask
  <2> QED
    BY <1>7, <2>1, <2>2
<1>8. CASE PersistFails
  BY <1>0, <1>2, <1>8 DEF PersistFails, WaitingSteps, HoldingSteps
<1>9. CASE ServeScopeRequest
  BY <1>9 DEF ServeScopeRequest, LockTyped, NoLockLeaked, WaitsOnce, lockVars
<1>10. CASE ReadBatch
  BY <1>0, <1>2, <1>10 DEF ReadBatch, WaitingSteps, HoldingSteps
<1>11. CASE IngestEvent
  <2>1. StepOf(Observer) /\ AtHead(Observer) /\ waiting' = Tail(waiting) /\ holder' = holder
    BY <1>0, <1>11, GotoIsStep DEF IngestEvent, PassThrough
  <2> QED
    BY <1>0, <2>1, LeaveHeadKeeps
<1>12. CASE ObserverStops \/ AbortObserver
  BY <1>0, <1>12, GotoIsStep, ReleaseKeeps DEF ObserverStops, AbortObserver, EndObserver
<1>13. CASE AskTracked
  BY <1>0, <1>2, <1>13 DEF AskTracked, WaitingSteps, HoldingSteps
<1>14. CASE SpawnObserver
  <2>1. at[Observer] = "unspawned"
    BY <1>14 DEF SpawnObserver, SpawnedLater
  <2>2. StepOf(Serve)
    BY <1>0, <1>14, <2>1 DEF SpawnObserver, StepOf
  <2> QED
    BY <1>0, <1>14, <2>2, LeaveHeadKeeps DEF SpawnObserver, PassThrough
<1>15. CASE Shutdown \/ HandlersJoined \/ ObserverJoined \/ AdaptersJoined \/ WriterJoined
  BY <1>0, <1>3, <1>15 DEF Shutdown, HandlersJoined, ObserverJoined, AdaptersJoined, WriterJoined,
                           Joined, WaitingSteps, HoldingSteps
<1> QED
  BY <1>1, <1>4, <1>5, <1>6, <1>7, <1>8, <1>9, <1>10, <1>11, <1>12, <1>13, <1>14, <1>15
     DEF Next, ServeStep

\* A connection's task is spawned only once.
LEMMA SpawnedLaterStep ==
  ASSUME LockTyped, SpawnedLater, Next
  PROVE  SpawnedLater'
<1>0. /\ at \in [Tasks -> AllSteps] /\ Serve \in Tasks /\ Observer \in Tasks
      /\ Serve # Observer /\ Serve \notin Operators /\ Observer \notin Operators
      /\ Adapters \subseteq Operators /\ Clients \subseteq Operators /\ Writer \in Operators
  BY ServerAssumption DEF LockTyped, Tasks, Operators
<1>1. ASSUME NEW t \in Operators, NEW step, Goto(t, step) PROVE SpawnedLater'
  BY <1>0, <1>1 DEF Goto, SpawnedLater
<1>2. CASE \E t \in Operators : Operate(t) \/ TaskStops(t) \/ AbortTask(t)
  BY <1>1, <1>2 DEF Operate, GetWriteLock, SendScope, GetReply, FinishOperation, GetReadLock,
                    TaskStops, AbortTask
<1>3. CASE \/ \E a \in Adapters : FindWorkload(a) \/ EndIngest(a)
           \/ \E c \in Clients : Accept(c) \/ Dispatch(c) \/ WriteResponse(c) \/ RequestTimeout(c)
           \/ PersistFails
  BY <1>0, <1>1, <1>3 DEF FindWorkload, EndIngest, Accept, Dispatch, WriteResponse, RequestTimeout,
                          PersistFails
<1>4. CASE ServeScopeRequest \/ ReadBatch \/ IngestEvent \/ ObserverStops \/ AbortObserver
  BY <1>0, <1>4 DEF ServeScopeRequest, ReadBatch, IngestEvent, ObserverStops, AbortObserver,
                    EndObserver, Goto, SpawnedLater
<1>5. CASE ServeStep \/ Shutdown
  BY <1>0, <1>5 DEF ServeStep, AskTracked, SpawnObserver, HandlersJoined, ObserverJoined,
                    AdaptersJoined, WriterJoined, Joined, Shutdown, Goto, SpawnedLater
<1> QED
  BY <1>2, <1>3, <1>4, <1>5 DEF Next

\* The lock is free and nobody waits for it.
LEMMA LockInitially == Init => LockTyped /\ LockInv
<1> SUFFICES ASSUME Init PROVE LockTyped /\ LockInv
  OBVIOUS
<1>1. at \in [Tasks -> AllSteps]
  BY DEF Init, AllSteps, ServeSteps, ObserverSteps, OperationSteps
<1>2. at[Observer] = "unspawned"
  BY ServerAssumption DEF Init, Tasks
<1> QED
  BY <1>1, <1>2, EmptySeq DEF Init, LockTyped, LockInv, NoLockLeaked, WaitsOnce, SpawnedLater

\* Every step of the daemon's tasks keeps the lock's invariant.
LEMMA LockKept == LockTyped /\ LockInv /\ [Next]_vars => LockTyped' /\ LockInv'
<1>1. CASE Next
  BY <1>1, LockStep, SpawnedLaterStep DEF LockInv
<1>2. CASE UNCHANGED vars
  BY <1>2 DEF vars, lockVars, scopeVars, LockTyped, LockInv, NoLockLeaked, WaitsOnce, SpawnedLater
<1> QED
  BY <1>1, <1>2

(* The registry's lock is held, and a place in its queue kept, only by a   *)
(* task in the middle of an operation, whatever request_timeout and the    *)
(* drain timeout of serve drop: for any number of adapters and clients.    *)
THEOREM LockSound == Spec => []NoLockLeaked
<1>1. LockInv => NoLockLeaked
  BY DEF LockInv
<1> QED
  BY <1>1, LockInitially, LockKept, PTL DEF Spec

----------------------------------------------------------------------------
\* The scope channel and its answers

ScopeTyped ==
  /\ requests \in Seq([from : Tasks, live : BOOLEAN])
  /\ Len(requests) <= ScopeCapacity
  /\ replied \subseteq Tasks
  /\ observing \in BOOLEAN

(* The cardinality in OneReplyOwed says what OwedOnce says.                *)
LEMMA OwedCounted ==
  ASSUME ScopeTyped, NEW t \in Tasks, OwedOnce(t)
  PROVE  LET live == {i \in DOMAIN requests : requests[i].from = t /\ requests[i].live}
         IN  Cardinality(live) + (IF t \in replied THEN 1 ELSE 0) = IF at[t] = "reply" THEN 1 ELSE 0
<1> DEFINE live == {i \in DOMAIN requests : requests[i].from = t /\ requests[i].live}
<1>1. live = {} \/ \E i : live = {i}
  BY DEF OwedOnce, Asks
<1>2. /\ live = {} => Cardinality(live) = 0
      /\ (\E i : live = {i}) => Cardinality(live) = 1
  BY FS_EmptySet, FS_Singleton
<1>3. live = {} <=> ~\E i \in DOMAIN requests : Asks(i, t)
  BY DEF Asks
<1>4. live # {} => t \notin replied
  BY <1>3 DEF OwedOnce
<1>5. at[t] = "reply" <=> t \in replied \/ live # {}
  BY <1>3 DEF OwedOnce
<1> HIDE DEF live
<1>6. Cardinality(live) + (IF t \in replied THEN 1 ELSE 0) = IF at[t] = "reply" THEN 1 ELSE 0
  BY <1>1, <1>2, <1>4, <1>5
<1> QED
  BY <1>6 DEF live

(* Nothing happens to the channel, and no task begins or ends to wait for  *)
(* an answer.                                                              *)
LEMMA AskingUnchanged ==
  ASSUME ScopeTyped, ReplyInv, UNCHANGED <<requests, replied>>, observing' \in BOOLEAN,
         \A t \in Tasks : at'[t] = "reply" <=> at[t] = "reply"
  PROVE  ScopeTyped' /\ ReplyInv'
BY DEF ScopeTyped, ReplyInv, OwedOnce, Asks

(* try_send: t was owed nothing and is owed one answer now.                *)
LEMMA SendKeeps ==
  ASSUME ScopeTyped, ReplyInv, at \in [Tasks -> AllSteps], NEW t \in Operators, SendScope(t)
  PROVE  ScopeTyped' /\ ReplyInv'
<1> DEFINE new == [from |-> t, live |-> TRUE]
           R == [from : Tasks, live : BOOLEAN]
<1>0. t \in Tasks /\ new \in R
  BY DEF Tasks
<1>1. /\ requests' \in Seq(R) /\ Len(requests') = Len(requests) + 1
      /\ \A i \in 1..Len(requests) : requests'[i] = requests[i]
      /\ requests'[Len(requests) + 1] = new
  BY <1>0, AppendProperties DEF SendScope, ScopeTyped
<1>2. DOMAIN requests = 1..Len(requests) /\ DOMAIN requests' = 1..(Len(requests) + 1)
      /\ Len(requests) \in Nat
  BY <1>1, LenProperties DEF ScopeTyped
<1>3. ScopeTyped'
  BY <1>1, <1>2, ServerAssumption DEF SendScope, ScopeTyped
<1>4. \A i \in DOMAIN requests' : \/ i \in DOMAIN requests /\ requests'[i] = requests[i]
                                  \/ i = Len(requests) + 1 /\ requests'[i] = new
  BY <1>1, <1>2
<1>5. /\ \A i \in DOMAIN requests : i \in DOMAIN requests' /\ requests'[i] = requests[i]
      /\ Len(requests) + 1 \in DOMAIN requests' /\ Len(requests) + 1 \notin DOMAIN requests
      /\ requests'[Len(requests) + 1] = new
  BY <1>1, <1>2
<1>6. new.from = t /\ new.live
  OBVIOUS
<1>7. at[t] = "operate" /\ at' = [at EXCEPT ![t] = "reply"] /\ replied' = replied
  BY DEF SendScope, Goto
<1>8. ASSUME NEW u \in Tasks PROVE OwedOnce(u)'
  <2>1. OwedOnce(u)
    BY DEF ReplyInv
  <2>2. CASE u = t
    <3>0. PICK n : n = Len(requests) + 1
      OBVIOUS
    <3>1. t \notin replied /\ \A i \in DOMAIN requests : ~Asks(i, t)
      BY <1>7, <2>1, <2>2 DEF OwedOnce
    <3>2. \A i \in DOMAIN requests' : Asks(i, t)' => i = n
      BY <1>4, <3>0, <3>1 DEF Asks
    <3>3. n \in DOMAIN requests' /\ Asks(n, t)'
      BY <1>5, <1>6, <3>0 DEF Asks
    <3>4. at'[t] = "reply"
      BY <1>0, <1>7
    <3> QED
      BY <1>7, <2>2, <3>1, <3>2, <3>3, <3>4 DEF OwedOnce
  <2>3. CASE u # t
    <3>1. \A i \in DOMAIN requests' : Asks(i, u)' <=> i \in DOMAIN requests /\ Asks(i, u)
      BY <1>4, <1>5, <1>6, <2>3 DEF Asks
    <3>2. at'[u] = at[u]
      BY <1>7, <2>3
    <3> QED
      BY <1>5, <1>7, <2>1, <3>1, <3>2 DEF OwedOnce
  <2> QED
    BY <2>2, <2>3
<1> QED
  BY <1>3, <1>8 DEF ReplyInv

(* A task that is dropped at its await takes its oneshot with it.          *)
LEMMA DropKeeps ==
  ASSUME ScopeTyped, ReplyInv, at \in [Tasks -> AllSteps], NEW t \in Tasks, DropReply(t),
         UNCHANGED observing, NEW step \in AllSteps \ {"reply"}, Goto(t, step)
  PROVE  ScopeTyped' /\ ReplyInv'
<1> DEFINE R == [from : Tasks, live : BOOLEAN]
<1>1. requests \in [1..Len(requests) -> R] /\ DOMAIN requests = 1..Len(requests) /\ Len(requests) \in Nat
  BY LenProperties DEF ScopeTyped
<1>2. /\ DOMAIN requests' = DOMAIN requests
      /\ \A i \in DOMAIN requests :
           requests'[i] = IF requests[i].from = t THEN [requests[i] EXCEPT !.live = FALSE] ELSE requests[i]
  BY DEF DropReply
<1>3. \A i \in DOMAIN requests : /\ requests'[i] \in R
                                 /\ requests'[i].from = requests[i].from
                                 /\ requests'[i].live <=> requests[i].live /\ requests[i].from # t
  BY <1>1, <1>2
<1>4. requests' \in Seq(R) /\ Len(requests') = Len(requests)
  <2>0. PICK n \in Nat : n = Len(requests)
    BY <1>1
  <2>1. requests' \in [1..n -> R]
    BY <1>1, <1>3, <2>0 DEF DropReply
  <2>2. requests' \in Seq(R) /\ DOMAIN requests' = 1..n
    <3>1. requests' \in UNION {[1..m -> R] : m \in Nat}
      BY <2>1, Zenon
    <3> QED
      BY <2>1, <3>1, SeqDef, Zenon
  <2> QED
    BY <2>0, <2>2, LenProperties
<1>5. ScopeTyped'
  BY <1>4 DEF ScopeTyped, DropReply
<1>6. /\ replied' = replied \ {t} /\ at'[t] # "reply"
      /\ \A u \in Tasks \ {t} : at'[u] = at[u]
  BY DEF DropReply, Goto
<1>7. \A u, i : i \in DOMAIN requests => (Asks(i, u)' <=> Asks(i, u) /\ u # t)
  BY <1>3 DEF Asks
<1>8. ASSUME NEW u \in Tasks PROVE OwedOnce(u)'
  BY <1>2, <1>6, <1>7 DEF ReplyInv, OwedOnce
<1> QED
  BY <1>5, <1>8 DEF ReplyInv

(* The observer answers the first request, or drops it when nobody waits.  *)
LEMMA AnswerKeeps ==
  ASSUME ScopeTyped, ReplyInv, ServeScopeRequest
  PROVE  ScopeTyped' /\ ReplyInv'
<1> DEFINE R == [from : Tasks, live : BOOLEAN]
<1>1. /\ requests' \in Seq(R) /\ Len(requests') = Len(requests) - 1
      /\ \A i \in 1..Len(requests') : requests'[i] = requests[i + 1]
      /\ Head(requests) \in R
  BY HeadTailProperties DEF ServeScopeRequest, ScopeTyped
<1>2. DOMAIN requests = 1..Len(requests) /\ DOMAIN requests' = 1..(Len(requests) - 1)
      /\ Len(requests) \in Nat \ {0}
  BY <1>1, LenProperties, EmptySeq DEF ScopeTyped, ServeScopeRequest
<1>3. Head(requests) = requests[1] /\ 1 \in DOMAIN requests
  BY <1>2
<1>4. /\ at' = at /\ observing' = observing
      /\ replied' = IF requests[1].live THEN replied \cup {requests[1].from} ELSE replied
  BY <1>3 DEF ServeScopeRequest
<1>5. ScopeTyped'
  BY <1>1, <1>2, <1>3, <1>4, ServerAssumption DEF ScopeTyped
<1>6. \A u, i : i \in DOMAIN requests' =>
        /\ i + 1 \in DOMAIN requests /\ i + 1 # 1
        /\ Asks(i, u)' <=> Asks(i + 1, u)
  BY <1>1, <1>2 DEF Asks
<1>7. \A i \in DOMAIN requests : i # 1 => i - 1 \in DOMAIN requests' /\ (i - 1) + 1 = i
  BY <1>2
<1>8. ASSUME NEW u \in Tasks PROVE OwedOnce(u)'
  <2>1. OwedOnce(u)
    BY DEF ReplyInv
  <2>2. u \in replied' <=> u \in replied \/ Asks(1, u)
    BY <1>4 DEF Asks
  <2>3. \A i, j \in DOMAIN requests' : Asks(i, u)' /\ Asks(j, u)' => i = j
    <3>1. \A i, j \in DOMAIN requests' : i + 1 = j + 1 => i = j
      BY <1>2
    <3> QED
      BY <1>6, <2>1, <3>1 DEF OwedOnce
  <2>4. \A i \in DOMAIN requests' : Asks(i, u)' => u \notin replied'
    BY <1>3, <1>6, <2>1, <2>2 DEF OwedOnce
  <2>5. (\E i \in DOMAIN requests' : Asks(i, u)') \/ Asks(1, u) <=> \E i \in DOMAIN requests : Asks(i, u)
    BY <1>3, <1>6, <1>7
  <2> QED
    BY <1>4, <2>1, <2>2, <2>3, <2>4, <2>5 DEF OwedOnce
<1> QED
  BY <1>5, <1>8 DEF ReplyInv

(* The end of the observer answers everybody who still waits.              *)
LEMMA EndKeeps ==
  ASSUME ScopeTyped, ReplyInv, at \in [Tasks -> AllSteps], EndObserver, at[Observer] # "reply"
  PROVE  ScopeTyped' /\ ReplyInv'
<1>0. Observer \in Tasks
  BY DEF Tasks
<1>1. requests' = <<>> /\ DOMAIN requests' = {} /\ Len(requests') = 0 /\ observing' = FALSE
  BY EmptySeq DEF EndObserver
<1>2. \A i \in DOMAIN requests : requests[i] \in [from : Tasks, live : BOOLEAN]
  BY LenProperties, ElementOfSeq DEF ScopeTyped
<1>3. \A u : u \in replied' <=> u \in replied \/ \E i \in DOMAIN requests : Asks(i, u)
  BY DEF EndObserver, Asks
<1>4. ScopeTyped'
  <2>1. replied' \subseteq Tasks
    BY <1>2, <1>3 DEF ScopeTyped, Asks
  <2>2. requests' \in Seq([from : Tasks, live : BOOLEAN])
    BY <1>1, EmptySeq
  <2> QED
    <3>1. Len(requests') <= ScopeCapacity
      BY <1>1, ServerAssumption
    <3> QED
      BY <1>1, <2>1, <2>2, <3>1, Zenon DEF ScopeTyped
<1>5. \A u \in Tasks : at'[u] = "reply" <=> at[u] = "reply"
  BY <1>0 DEF EndObserver, Goto
<1> QED
  BY <1>1, <1>3, <1>4, <1>5 DEF ReplyInv, OwedOnce

(* A task takes its answer.                                                *)
LEMMA GetReplyKeeps ==
  ASSUME ScopeTyped, ReplyInv, at \in [Tasks -> AllSteps], NEW t \in Operators, GetReply(t)
  PROVE  ScopeTyped' /\ ReplyInv'
<1>0. t \in Tasks
  BY DEF Tasks
<1>1. /\ t \in replied /\ replied' = replied \ {t} /\ at' = [at EXCEPT ![t] = "operate"]
      /\ requests' = requests /\ observing' = observing
  BY DEF GetReply, Goto
<1>2. ASSUME NEW u \in Tasks PROVE OwedOnce(u)'
  <2>1. OwedOnce(u)
    BY DEF ReplyInv
  <2>2. CASE u = t
    BY <1>0, <1>1, <2>1, <2>2 DEF OwedOnce, Asks
  <2>3. CASE u # t
    BY <1>1, <2>1, <2>3 DEF OwedOnce, Asks
  <2> QED
    BY <2>2, <2>3
<1> QED
  BY <1>1, <1>2 DEF ScopeTyped, ReplyInv

(* Only an operation waits for an answer.                                  *)
AskersOperate == at[Serve] # "reply" /\ at[Observer] # "reply"

\* Every step keeps the account of the replies owed.
LEMMA ReplyStep ==
  ASSUME LockTyped, ScopeTyped, ReplyInv, AskersOperate, Next
  PROVE  ScopeTyped' /\ ReplyInv' /\ AskersOperate'
<1>0. /\ at \in [Tasks -> AllSteps] /\ Serve \in Tasks /\ Observer \in Tasks
      /\ Serve # Observer /\ Serve \notin Operators /\ Observer \notin Operators
      /\ Operators \subseteq Tasks
      /\ Adapters \subseteq Operators /\ Clients \subseteq Operators /\ Writer \in Operators
  BY ServerAssumption DEF LockTyped, Tasks, Operators
<1>1. ASSUME NEW t \in Operators, NEW step, Goto(t, step) PROVE AskersOperate'
  BY <1>0, <1>1 DEF Goto, AskersOperate
<1>2. ASSUME NEW t \in Tasks, NEW step, Goto(t, step), step # "reply", at[t] # "reply",
             UNCHANGED scopeVars
      PROVE  ScopeTyped' /\ ReplyInv'
  <2>1. \A u \in Tasks : at'[u] = "reply" <=> at[u] = "reply"
    BY <1>0, <1>2 DEF Goto
  <2>2. UNCHANGED <<requests, replied>> /\ observing' \in BOOLEAN
    BY <1>2 DEF scopeVars, ScopeTyped
  <2> QED
    BY <2>1, <2>2, AskingUnchanged
<1>3. ASSUME NEW t \in Operators, Operate(t) PROVE ScopeTyped' /\ ReplyInv' /\ AskersOperate'
  <2>1. CASE SendScope(t)
    BY <1>0, <1>1, <2>1, SendKeeps DEF SendScope
  <2>2. CASE GetReply(t)
    BY <1>0, <1>1, <2>2, GetReplyKeeps DEF GetReply
  <2>3. CASE GetWriteLock(t)
    BY <1>0, <1>1, <1>2, <2>3 DEF GetWriteLock
  <2>4. CASE FinishOperation(t)
    <3>1. After(t) # "reply"
      BY DEF After
    <3> QED
      BY <1>0, <1>1, <1>2, <2>4, <3>1 DEF FinishOperation
  <2>5. CASE GetReadLock(t)
    <3>1. (IF t \in Clients THEN "response" ELSE "idle") # "reply"
      OBVIOUS
    <3> QED
      BY <1>0, <1>1, <1>2, <2>5, <3>1 DEF GetReadLock
  <2> QED
    BY <1>3, <2>1, <2>2, <2>3, <2>4, <2>5 DEF Operate
<1>4. ASSUME NEW t \in Operators, TaskStops(t) PROVE ScopeTyped' /\ ReplyInv' /\ AskersOperate'
  BY <1>0, <1>1, <1>2, <1>4 DEF TaskStops
<1>5. ASSUME NEW t \in Operators, AbortTask(t) PROVE ScopeTyped' /\ ReplyInv' /\ AskersOperate'
  <2>1. "ended" \in AllSteps \ {"reply"}
    BY DEF AllSteps, ServeSteps, ObserverSteps, OperationSteps
  <2>2. Goto(t, "ended") /\ DropReply(t) /\ UNCHANGED observing
    BY <1>5 DEF AbortTask
  <2> QED
    BY <1>0, <1>1, <2>1, <2>2, DropKeeps
<1>6. ASSUME NEW c \in Clients, RequestTimeout(c) PROVE ScopeTyped' /\ ReplyInv' /\ AskersOperate'
  <2>1. "idle" \in AllSteps \ {"reply"}
    BY DEF AllSteps, ServeSteps, ObserverSteps, OperationSteps
  <2>2. Goto(c, "idle") /\ DropReply(c) /\ UNCHANGED observing
    BY <1>6 DEF RequestTimeout
  <2> QED
    BY <1>0, <1>1, <2>1, <2>2, DropKeeps
<1>7. ASSUME NEW a \in Adapters, FindWorkload(a) \/ EndIngest(a)
      PROVE  ScopeTyped' /\ ReplyInv' /\ AskersOperate'
  BY <1>0, <1>1, <1>2, <1>7 DEF FindWorkload, EndIngest
<1>8. ASSUME NEW c \in Clients, Accept(c) \/ Dispatch(c) \/ WriteResponse(c)
      PROVE  ScopeTyped' /\ ReplyInv' /\ AskersOperate'
  BY <1>0, <1>1, <1>2, <1>8 DEF Accept, Dispatch, WriteResponse
<1>9. CASE PersistFails
  BY <1>0, <1>1, <1>2, <1>9 DEF PersistFails
<1>10. CASE ServeScopeRequest
  BY <1>10, AnswerKeeps DEF AskersOperate, ServeScopeRequest
<1>11. CASE ReadBatch \/ IngestEvent
  BY <1>0, <1>2, <1>11 DEF ReadBatch, IngestEvent, AskersOperate, Goto
<1>12. CASE ObserverStops \/ AbortObserver
  <2>1. EndObserver /\ at[Observer] # "reply"
    BY <1>12 DEF ObserverStops, AbortObserver
  <2>2. AskersOperate'
    BY <1>0, <2>1 DEF EndObserver, Goto, AskersOperate
  <2> QED
    BY <1>0, <2>1, <2>2, EndKeeps
<1>13. CASE AskTracked \/ Shutdown
  BY <1>0, <1>2, <1>13 DEF AskTracked, Shutdown, AskersOperate, Goto
<1>14. CASE SpawnObserver
  <2>1. \A u \in Tasks : at'[u] = "reply" <=> at[u] = "reply"
    BY <1>0, <1>14 DEF SpawnObserver, AskersOperate
  <2>2. UNCHANGED <<requests, replied>> /\ observing' \in BOOLEAN
    BY <1>14 DEF SpawnObserver, scopeVars, ScopeTyped
  <2>3. AskersOperate'
    BY <1>0, <2>1 DEF AskersOperate
  <2> QED
    BY <2>1, <2>2, <2>3, AskingUnchanged
<1>15. CASE HandlersJoined \/ ObserverJoined \/ AdaptersJoined \/ WriterJoined
  BY <1>0, <1>2, <1>15 DEF HandlersJoined, ObserverJoined, AdaptersJoined, WriterJoined, Joined,
                           AskersOperate, Goto
<1> QED
  BY <1>3, <1>4, <1>5, <1>6, <1>7, <1>8, <1>9, <1>10, <1>11, <1>12, <1>13, <1>14, <1>15
     DEF Next, ServeStep

\* Nobody is owed a reply at the start.
LEMMA ReplyInitially == Init => ScopeTyped /\ ReplyInv /\ AskersOperate
<1> SUFFICES ASSUME Init PROVE ScopeTyped /\ ReplyInv /\ AskersOperate
  OBVIOUS
<1>1. /\ requests = <<>> /\ DOMAIN requests = {} /\ Len(requests) = 0
      /\ replied = {} /\ observing = TRUE
  BY EmptySeq DEF Init
<1>2. \A t \in Tasks : at[t] # "reply"
  BY DEF Init
<1>3. ScopeTyped
  <2>1. Len(requests) <= ScopeCapacity
    BY <1>1, ServerAssumption
  <2>2. requests \in Seq([from : Tasks, live : BOOLEAN])
    BY <1>1, EmptySeq
  <2> QED
    BY <1>1, <2>1, <2>2, Zenon DEF ScopeTyped
<1> QED
  BY <1>1, <1>2, <1>3 DEF ReplyInv, OwedOnce, AskersOperate, Tasks

\* So does a step that changes nothing.
LEMMA ReplyKept ==
  LockTyped /\ ScopeTyped /\ ReplyInv /\ AskersOperate /\ [Next]_vars
    => ScopeTyped' /\ ReplyInv' /\ AskersOperate'
<1>1. CASE Next
  BY <1>1, ReplyStep
<1>2. CASE UNCHANGED vars
  BY <1>2 DEF vars, scopeVars, lockVars, ScopeTyped, ReplyInv, AskersOperate, OwedOnce, Asks
<1> QED
  BY <1>1, <1>2

(* A caller of ScopeController::apply is owed exactly one answer and       *)
(* nobody else is owed any, whoever is dropped while it waits and whenever *)
(* the observer ends: for any capacity of the channel.                     *)
THEOREM ReplySound == Spec => []OneReplyOwed
<1>1. ScopeTyped /\ ReplyInv => OneReplyOwed
  BY OwedCounted DEF ReplyInv, OneReplyOwed
<1> QED
  BY <1>1, LockInitially, LockKept, ReplyInitially, ReplyKept, PTL DEF Spec

(* The queues hold tasks and requests and the channel stays within its     *)
(* capacity.                                                               *)
THEOREM ServerTypeCorrect == Spec => []TypeOK
<1>1. LockTyped /\ ScopeTyped => TypeOK
  BY DEF LockTyped, ScopeTyped, TypeOK, AllSteps
<1> QED
  BY <1>1, LockInitially, LockKept, ReplyInitially, ReplyKept, PTL DEF Spec
=============================================================================
