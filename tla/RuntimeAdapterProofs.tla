------------------------ MODULE RuntimeAdapterProofs ------------------------
(***************************************************************************)
(* Theorems about RuntimeAdapter, for any set of workloads, any capacity   *)
(* of the seen set, any backend and any number of faults.                  *)
(***************************************************************************)
EXTENDS RuntimeAdapter, SequenceTheorems, FiniteSetTheorems, WellFoundedInduction, TLAPS

USE DEF world

\* What the steps keep between the hand, the place in the code and the
\* counters: a workload is in hand exactly while it is worked on, pods are
\* never inspected after they were popped, a run of errors is over when
\* ingestion starts, and a finding follows the workload's record.
StepsAgree ==
  /\ at \in Ingesting \cup {"inspect"} => hand # {}
  /\ at \in {"next", "resolve", "filter", "sleep", "backoff"} => hand = {}
  /\ at = "inspect" => backend # "kubernetes"
  /\ at \in Ingesting => errors = 0
  /\ at = "finding" => hand \subseteq recorded

AdapterInv ==
  /\ TypeOK
  /\ StepsAgree
  /\ SeenBounded
  /\ HealthIsHonest
  /\ PodsSurviveFailedScans
  /\ NothingVanishes
-----------------------------------------------------------------------------
(***************************************************************************)
(* Sequences, seen as the sets of their elements.                          *)
(***************************************************************************)
LEMMA RangeHeadTail ==
  ASSUME NEW S, NEW s \in Seq(S), s # <<>>
  PROVE  /\ Head(s) \in S
         /\ Tail(s) \in Seq(S)
         /\ Range(s) = {Head(s)} \cup Range(Tail(s))
<1>1. /\ Head(s) \in S
      /\ Tail(s) \in Seq(S)
      /\ Len(s) \in Nat \ {0}
      /\ Head(s) = s[1]
      /\ Len(Tail(s)) = Len(s) - 1
      /\ \A i \in 1..Len(Tail(s)) : Tail(s)[i] = s[i + 1]
  BY EmptySeq, HeadTailProperties
<1>2. ASSUME NEW x \in Range(s) PROVE x \in {Head(s)} \cup Range(Tail(s))
  <2>1. PICK i \in 1..Len(s) : x = s[i]
    BY DEF Range
  <2>2. CASE i = 1
    BY <1>1, <2>1, <2>2
  <2>3. CASE i # 1
    <3>1. i - 1 \in 1..Len(Tail(s)) /\ (i - 1) + 1 = i
      BY <1>1, <2>3
    <3>2. Tail(s)[i - 1] = s[i]
      BY <1>1, <3>1
    <3>3. DOMAIN Tail(s) = 1..Len(Tail(s))
      BY <1>1
    <3> QED BY <2>1, <3>1, <3>2, <3>3 DEF Range
  <2> QED BY <2>2, <2>3
<1>3. ASSUME NEW x \in Range(Tail(s)) PROVE x \in Range(s)
  <2>1. PICK i \in 1..Len(Tail(s)) : x = Tail(s)[i]
    BY <1>1 DEF Range
  <2>2. i + 1 \in 1..Len(s) /\ x = s[i + 1]
    BY <1>1, <2>1
  <2> QED BY <2>2 DEF Range
<1>4. Head(s) \in Range(s)
  BY <1>1 DEF Range
<1> QED BY <1>1, <1>2, <1>3, <1>4

\* An id put at the end of the backlog joins its ids.
LEMMA RangeAppend ==
  ASSUME NEW S, NEW s \in Seq(S), NEW e \in S
  PROVE  /\ Append(s, e) \in Seq(S)
         /\ Range(Append(s, e)) = Range(s) \cup {e}
<1>1. /\ Append(s, e) \in Seq(S)
      /\ Len(s) \in Nat
      /\ Len(Append(s, e)) = Len(s) + 1
      /\ \A i \in 1..Len(s) : Append(s, e)[i] = s[i]
      /\ Append(s, e)[Len(s) + 1] = e
  BY AppendProperties
<1>2. ASSUME NEW x \in Range(Append(s, e)) PROVE x \in Range(s) \cup {e}
  <2>1. PICK i \in 1..Len(s) + 1 : x = Append(s, e)[i]
    BY <1>1 DEF Range
  <2>2. CASE i = Len(s) + 1
    BY <1>1, <2>1, <2>2
  <2>3. CASE i # Len(s) + 1
    BY <1>1, <2>1, <2>3 DEF Range
  <2> QED BY <2>2, <2>3
<1>3. ASSUME NEW x \in Range(s) PROVE x \in Range(Append(s, e))
  <2>1. PICK i \in 1..Len(s) : x = s[i]
    BY DEF Range
  <2>2. i \in 1..Len(s) + 1 /\ x = Append(s, e)[i]
    BY <1>1, <2>1
  <2> QED BY <1>1, <2>2 DEF Range
<1>4. e \in Range(Append(s, e))
  <2>1. Len(s) + 1 \in 1..Len(s) + 1
    BY <1>1
  <2> QED BY <1>1, <2>1 DEF Range
<1> QED BY <1>1, <1>2, <1>3, <1>4

\* Every order of a set of workloads is a sequence of them.
LEMMA OrdersAreSeqs ==
  ASSUME NEW S \in SUBSET Ids, NEW s \in SetToSeqs(S)
  PROVE  s \in Seq(Ids)
<1>1. IsFiniteSet(S) /\ Cardinality(S) \in Nat
  BY AdapterAssumption, FS_Subset, FS_CardinalityType
<1>2. s \in [1..Cardinality(S) -> S]
  BY DEF SetToSeqs
<1> QED BY <1>1, <1>2

\* A set of workloads that is not empty has a first element.
LEMMA FirstOfSet ==
  ASSUME NEW S \in SUBSET Ids, S # {}
  PROVE  Min(S) \in S
<1>1. S \subseteq Nat
  BY AdapterAssumption
<1>2. \E c \in S : \A d \in S : ~(<<d, c>> \in OpToRel(<, Nat))
  BY <1>1, WFMin, NatLessThanWellFounded
<1>3. \A c, d \in Nat : ~(<<d, c>> \in OpToRel(<, Nat)) => c <= d
  BY DEF OpToRel
<1>4. \E c \in S : \A d \in S : c <= d
  BY <1>1, <1>2, <1>3
<1> QED BY <1>4 DEF Min

\* remember_seen stays within the capacity.
LEMMA RememberBounded ==
  ASSUME TypeOK, SeenBounded, NEW c \in Ids, c \notin seen
  PROVE  /\ Evicted \cup {c} \subseteq Ids
         /\ Cardinality(Evicted \cup {c}) <= capacity
<1>1. capacity \in Nat \ {0}
  BY AdapterAssumption DEF TypeOK, capacity
<1>2. IsFiniteSet(seen) /\ Cardinality(seen) \in Nat
  BY AdapterAssumption, FS_Subset, FS_CardinalityType DEF TypeOK
<1>3. CASE Cardinality(seen) >= capacity
  <2>1. seen # {}
    BY <1>1, <1>2, <1>3, FS_EmptySet
  <2>2. Min(seen) \in seen
    BY <2>1, FirstOfSet DEF TypeOK
  <2>3. /\ IsFiniteSet(seen \ {Min(seen)})
        /\ Cardinality(seen \ {Min(seen)}) = Cardinality(seen) - 1
    BY <1>2, <2>2, FS_RemoveElement
  <2>4. Evicted = seen \ {Min(seen)}
    BY <1>3 DEF Evicted
  <2>5. Cardinality(Evicted \cup {c}) = Cardinality(Evicted) + 1
    BY <2>3, <2>4, FS_AddElement
  <2> QED BY <1>1, <1>2, <2>3, <2>4, <2>5 DEF TypeOK, SeenBounded
<1>4. CASE ~(Cardinality(seen) >= capacity)
  <2>1. Evicted = seen
    BY <1>4 DEF Evicted
  <2>2. Cardinality(Evicted \cup {c}) = Cardinality(seen) + 1
    BY <1>2, <2>1, FS_AddElement
  <2> QED BY <1>1, <1>2, <1>4, <2>1, <2>2 DEF TypeOK
<1> QED BY <1>3, <1>4
-----------------------------------------------------------------------------
(***************************************************************************)
(* The steps.                                                              *)
(***************************************************************************)
LEMMA CountTyped ==
  ASSUME TypeOK, NEW counters \in SUBSET Counters, Count(counters)
  PROVE  /\ summary' \in [Counters -> 0..CounterMax]
         /\ \A k \in Counters : k \in counters => summary'[k] > 0
         /\ \A k \in Counters : k \notin counters => summary'[k] = summary[k]
         /\ \A k \in Counters : summary'[k] >= summary[k]
<1>1. \A k \in Counters : summary[k] \in 0..CounterMax
  BY DEF TypeOK
<1> QED BY <1>1, AdapterAssumption DEF Count, Increment

\* At most one workload is in hand.
LEMMA HandSize ==
  /\ Cardinality({}) = 0
  /\ \A c \in Ids : Cardinality({c}) = 1
BY FS_EmptySet, FS_Singleton

\* An ingestion settles the errors and counts, to two, what it ingests.
LEMMA IngestTyped ==
  ASSUME TypeOK, NEW workload, Ingest(workload)
  PROVE  /\ recovered' \in BOOLEAN
         /\ errors' = 0
         /\ ingests' \in [Ids -> 0..2]
<1>1. \A c \in Ids : ingests[c] \in 0..2
  BY DEF TypeOK
<1>2. ingests' \in [Ids -> 0..2]
  BY <1>1 DEF Ingest
<1> QED BY <1>2 DEF Ingest

\* The adapter starts with nothing in hand, and a backlog only if it runs once.
LEMMA InitAdapter == Init => AdapterInv
<1> SUFFICES ASSUME Init PROVE AdapterInv
  OBVIOUS
<1>1. pending \in Seq(Ids)
  <2>1. CASE backend = "once"
    BY <2>1, OrdersAreSeqs DEF Init
  <2>2. CASE backend # "once"
    BY <2>2 DEF Init
  <2> QED BY <2>1, <2>2
<1>2. Range(pending) \subseteq Ids
  BY <1>1, RangeOfSeq
<1>3. TypeOK
  <2>1. missing \in BOOLEAN /\ recovered \in BOOLEAN /\ shutdown \in BOOLEAN
    BY DEF Init
  <2>2. Cardinality(hand) <= 1
    BY HandSize DEF Init
  <2> QED BY <1>1, <1>2, <2>1, <2>2, AdapterAssumption
     DEF Init, TypeOK, ContainerStates, Cancellable, Ingesting, Stopped
<1>4. SeenBounded
  <2>1. capacity \in Nat
    BY AdapterAssumption DEF Init, capacity
  <2> QED BY <2>1, FS_EmptySet DEF Init, SeenBounded
<1>5. StepsAgree /\ HealthIsHonest /\ PodsSurviveFailedScans /\ NothingVanishes
  BY DEF Init, StepsAgree, HealthIsHonest, PodsSurviveFailedScans, NothingVanishes, Ingesting
<1> QED BY <1>3, <1>4, <1>5 DEF AdapterInv

\* Steps that move the task or the world around it and leave the scan, the loop
\* and the history alone.
LEMMA QuietStep ==
  ASSUME AdapterInv, UNCHANGED <<setup, scan, loop, history>>,
         running' \subseteq Ids, containers' \in [Ids -> ContainerStates],
         shutdown' \in BOOLEAN, faults' = faults,
         \/ at' = at
         \/ at' \in Stopped
         \/ at \in {"filter", "sleep", "backoff"} /\ at' \in {"next", "sleep"}
  PROVE  AdapterInv'
<1> USE DEF AdapterInv, scan, loop, history
<1>1. TypeOK'
  BY DEF TypeOK, Cancellable, Ingesting, Stopped
<1>2. StepsAgree'
  BY DEF StepsAgree, Cancellable, Ingesting, Stopped, backend
<1>3. SeenBounded' /\ HealthIsHonest' /\ PodsSurviveFailedScans'
  BY DEF SeenBounded, HealthIsHonest, PodsSurviveFailedScans, capacity, backend
<1>4. NothingVanishes'
  BY DEF NothingVanishes, HasSession, Stopped, backend, mark
<1> QED BY <1>1, <1>2, <1>3, <1>4

\* The reaction to a backend error: what was in hand is given up.
LEMMA ErrorStep ==
  ASSUME AdapterInv, BackendError, at \notin Stopped,
         UNCHANGED <<setup, world, pending, seen, shutdown, remembered, recorded, ingests>>,
         faults' \in 0..MaxFaults,
         given_up' = given_up \cup hand,
         backend = "kubernetes" => hand = {}
  PROVE  AdapterInv'
<1> USE DEF AdapterInv, BackendError
<1>1. /\ summary' \in [Counters -> 0..CounterMax]
      /\ summary'["ingest_errors"] = summary["ingest_errors"]
  BY CountTyped DEF Counters
<1>2. errors' \in 0..CounterMax
  BY AdapterAssumption DEF TypeOK, Increment
<1>3. TypeOK'
  BY <1>1, <1>2, FS_EmptySet DEF TypeOK
<1>4. StepsAgree' /\ SeenBounded' /\ HealthIsHonest'
  BY DEF StepsAgree, SeenBounded, HealthIsHonest, capacity, Ingesting
<1>5. PodsSurviveFailedScans'
  BY <1>1 DEF PodsSurviveFailedScans, backend
<1>6. NothingVanishes'
  BY DEF NothingVanishes, HasSession, backend, mark
<1> QED BY <1>3, <1>4, <1>5, <1>6

\* The oldest id of the backlog is taken in hand.
LEMMA PopStep == AdapterInv /\ Pop => AdapterInv'
<1> SUFFICES ASSUME AdapterInv, Pop PROVE AdapterInv'
  OBVIOUS
<1> USE DEF AdapterInv, Pop
<1>1. /\ Head(pending) \in Ids
      /\ Tail(pending) \in Seq(Ids)
      /\ Range(pending) = {Head(pending)} \cup Range(Tail(pending))
  BY RangeHeadTail DEF TypeOK
<1>2. /\ recovered' \in BOOLEAN
      /\ errors' \in 0..CounterMax
      /\ ingests' \in [Ids -> 0..2]
      /\ errors' > 0 => errors > 0
      /\ backend = "kubernetes" => errors' = 0
  <2>1. CASE backend = "kubernetes"
    BY <2>1, IngestTyped, AdapterAssumption
  <2>2. CASE backend # "kubernetes"
    BY <2>2 DEF TypeOK
  <2> QED BY <2>1, <2>2
<1>3. TypeOK'
  <2>1. at' \in {"discover", "inspect"}
    OBVIOUS
  <2>2. hand' \subseteq Ids /\ Cardinality(hand') <= 1
    BY <1>1, HandSize
  <2>3. missing' \in BOOLEAN /\ shutdown' \in BOOLEAN
    BY DEF TypeOK
  <2> QED BY <1>1, <1>2, <2>1, <2>2, <2>3 DEF TypeOK, Cancellable, Ingesting
<1>4. StepsAgree'
  BY <1>2 DEF StepsAgree, Ingesting, backend
<1>5. SeenBounded' /\ HealthIsHonest' /\ PodsSurviveFailedScans'
  BY <1>2 DEF SeenBounded, HealthIsHonest, PodsSurviveFailedScans, capacity, backend
<1>6. NothingVanishes'
  BY <1>1 DEF NothingVanishes, StepsAgree, HasSession, Stopped, backend, mark
<1> QED BY <1>3, <1>4, <1>5, <1>6

\* The inspection of a container, marked, unmarked or failed.
LEMMA InspectStep ==
  ASSUME AdapterInv, Inspect \/ InspectUnmarked \/ InspectFails
  PROVE  AdapterInv'
<1> USE DEF AdapterInv
<1>1. CASE Inspect
  <2> USE DEF Inspect, scan, Ingest
  <2>1. TypeOK'
    BY <1>1, AdapterAssumption DEF TypeOK, Ingesting
  <2>2. StepsAgree' /\ SeenBounded' /\ HealthIsHonest' /\ PodsSurviveFailedScans'
    BY <1>1 DEF StepsAgree, SeenBounded, HealthIsHonest, PodsSurviveFailedScans, Ingesting,
                capacity, backend
  <2>3. NothingVanishes'
    BY <1>1 DEF NothingVanishes, HasSession, Stopped, backend, mark
  <2> QED BY <2>1, <2>2, <2>3
<1>2. CASE InspectUnmarked
  <2> USE DEF InspectUnmarked, loop, history
  <2>1. TypeOK'
    BY <1>2, FS_EmptySet DEF TypeOK, Cancellable
  <2>2. StepsAgree' /\ SeenBounded' /\ HealthIsHonest' /\ PodsSurviveFailedScans'
    BY <1>2 DEF StepsAgree, SeenBounded, HealthIsHonest, PodsSurviveFailedScans, Ingesting,
                capacity, backend
  <2>3. NothingVanishes'
    BY <1>2 DEF NothingVanishes, HasSession, Stopped, backend, mark
  <2> QED BY <2>1, <2>2, <2>3
<1>3. CASE InspectFails
  <2>1. faults' \in 0..MaxFaults
    BY <1>3, AdapterAssumption DEF InspectFails, Fault, TypeOK
  <2> QED BY <1>3, <2>1, ErrorStep DEF InspectFails, StepsAgree, Stopped
<1> QED BY <1>1, <1>2, <1>3

\* A scan of the marked workloads, and the pods resolved in it.
LEMMA ScanStep ==
  ASSUME AdapterInv, List \/ ListFails \/ ResolvePod \/ ResolveFails \/ Resolved
  PROVE  AdapterInv'
<1> USE DEF AdapterInv
<1>1. CASE List
  <2> USE DEF List, loop, history
  <2>1. listed' \in Seq(Ids)
    <3>1. Answer \in SUBSET Ids
      BY DEF Answer, MarkedPods, ContainerCandidates, MarkedCriContainerIds, MarkedContainerIds,
             TypeOK
    <3> QED BY <1>1, <3>1, OrdersAreSeqs
  <2>2. TypeOK'
    BY <1>1, <2>1 DEF TypeOK, Cancellable
  <2>3. StepsAgree' /\ SeenBounded' /\ HealthIsHonest' /\ PodsSurviveFailedScans'
    BY <1>1 DEF StepsAgree, SeenBounded, HealthIsHonest, PodsSurviveFailedScans, Ingesting,
                capacity, backend
  <2>4. NothingVanishes'
    BY <1>1 DEF NothingVanishes, HasSession, Stopped, backend, mark
  <2> QED BY <2>2, <2>3, <2>4
<1>2. CASE ListFails
  <2>1. faults' \in 0..MaxFaults
    BY <1>2, AdapterAssumption DEF ListFails, Fault, TypeOK
  <2>2. hand = {} /\ at \notin Stopped
    BY <1>2 DEF ListFails, StepsAgree, Stopped
  <2> QED BY <1>2, <2>1, <2>2, ErrorStep DEF ListFails, history
<1>3. CASE ResolvePod
  <2> USE DEF ResolvePod, loop, history
  <2>1. Min(Unresolved) \in Ids
    <3>1. Unresolved \in SUBSET Ids
      BY RangeOfSeq DEF TypeOK, Unresolved
    <3> QED BY <1>3, <3>1, FirstOfSet
  <2>2. TypeOK'
    BY <1>3, <2>1 DEF TypeOK
  <2>3. StepsAgree' /\ SeenBounded' /\ HealthIsHonest' /\ PodsSurviveFailedScans'
    BY <1>3 DEF StepsAgree, SeenBounded, HealthIsHonest, PodsSurviveFailedScans, Ingesting,
                capacity, backend
  <2>4. NothingVanishes'
    BY <1>3 DEF NothingVanishes, HasSession, Stopped, backend, mark
  <2> QED BY <2>2, <2>3, <2>4
<1>4. CASE ResolveFails
  <2>1. faults' \in 0..MaxFaults
    BY <1>4, AdapterAssumption DEF ResolveFails, Fault, TypeOK
  <2>2. hand = {} /\ at \notin Stopped
    BY <1>4 DEF ResolveFails, StepsAgree, Stopped
  <2> QED BY <1>4, <2>1, <2>2, ErrorStep DEF ResolveFails, history
<1>5. CASE Resolved
  <2> USE DEF Resolved, loop, history
  <2>1. TypeOK'
    BY <1>5 DEF TypeOK
  <2>2. StepsAgree' /\ SeenBounded' /\ HealthIsHonest' /\ PodsSurviveFailedScans'
    BY <1>5 DEF StepsAgree, SeenBounded, HealthIsHonest, PodsSurviveFailedScans, Ingesting,
                capacity, backend
  <2>3. NothingVanishes'
    BY <1>5 DEF NothingVanishes, HasSession, Stopped, backend, mark
  <2> QED BY <2>1, <2>2, <2>3
<1> QED BY <1>1, <1>2, <1>3, <1>4, <1>5

\* remember_seen: an id that is new joins the backlog.
LEMMA RememberStep == AdapterInv /\ RememberSeen => AdapterInv'
<1> SUFFICES ASSUME AdapterInv, RememberSeen PROVE AdapterInv'
  OBVIOUS
<1> USE DEF AdapterInv, RememberSeen, loop
<1>1. Head(listed) \in Ids /\ Tail(listed) \in Seq(Ids)
  BY RangeHeadTail DEF TypeOK
<1>2. /\ pending' \in Seq(Ids)
      /\ seen' \subseteq Ids
      /\ remembered' \subseteq Ids
      /\ SeenBounded'
      /\ remembered' \ remembered \subseteq Range(pending')
      /\ Range(pending) \subseteq Range(pending')
  <2>1. CASE Head(listed) \in seen
    BY <2>1 DEF TypeOK, SeenBounded, capacity
  <2>2. CASE Head(listed) \notin seen
    <3>1. /\ Append(pending, Head(listed)) \in Seq(Ids)
          /\ Range(Append(pending, Head(listed))) = Range(pending) \cup {Head(listed)}
      <4>1. pending \in Seq(Ids)
        BY DEF TypeOK
      <4> QED BY <1>1, <4>1, RangeAppend
    <3>2. seen' \subseteq Ids /\ Cardinality(seen') <= capacity
      BY <1>1, <2>2, RememberBounded
    <3> QED BY <1>1, <2>2, <3>1, <3>2 DEF TypeOK, SeenBounded, capacity
  <2> QED BY <2>1, <2>2
<1>3. TypeOK'
  BY <1>1, <1>2 DEF TypeOK
<1>4. StepsAgree' /\ HealthIsHonest' /\ PodsSurviveFailedScans'
  BY DEF StepsAgree, HealthIsHonest, PodsSurviveFailedScans, Ingesting, backend
<1>5. NothingVanishes'
  BY <1>2 DEF NothingVanishes, HasSession, Stopped, backend, mark
<1> QED BY <1>2, <1>3, <1>4, <1>5

\* The discovery, record and finding of an ingestion, and its errors.
LEMMA IngestStep ==
  ASSUME AdapterInv, Discover \/ Record \/ Finding \/ IngestFails
  PROVE  AdapterInv'
<1> USE DEF AdapterInv
<1>1. CASE Discover
  <2> USE DEF Discover, scan, history
  <2>1. TypeOK'
    BY <1>1 DEF TypeOK, Ingesting
  <2>2. StepsAgree' /\ SeenBounded' /\ HealthIsHonest' /\ PodsSurviveFailedScans'
    BY <1>1 DEF StepsAgree, SeenBounded, HealthIsHonest, PodsSurviveFailedScans, Ingesting,
                capacity, backend
  <2>3. NothingVanishes'
    BY <1>1 DEF NothingVanishes, HasSession, Stopped, backend, mark
  <2> QED BY <2>1, <2>2, <2>3
<1>2. CASE Record /\ missing
  <2> USE DEF Record
  <2>1. TypeOK'
    BY <1>2 DEF TypeOK, Ingesting
  <2>2. StepsAgree' /\ SeenBounded' /\ HealthIsHonest' /\ PodsSurviveFailedScans'
    BY <1>2 DEF StepsAgree, SeenBounded, HealthIsHonest, PodsSurviveFailedScans, Ingesting,
                capacity, backend
  <2>3. NothingVanishes'
    BY <1>2 DEF NothingVanishes, HasSession, Stopped, backend, mark
  <2> QED BY <2>1, <2>2, <2>3
<1>3. CASE (Record /\ ~missing) \/ Finding
  <2>1. /\ Ingested
        /\ at \in Ingesting
        /\ recorded' = recorded \cup hand
        /\ UNCHANGED <<setup, world, pending, seen, listed, resolved, errors, shutdown, faults,
                       remembered, given_up, ingests>>
    BY <1>3 DEF Record, Finding, Ingesting, StepsAgree, history
  <2>2. /\ summary' \in [Counters -> 0..CounterMax]
        /\ summary'["discovered"] > 0
        /\ summary'["ingest_errors"] = summary["ingest_errors"]
    BY <2>1, CountTyped DEF Ingested, Counters
  <2>3. TypeOK'
    <3>1. missing' \in BOOLEAN /\ recovered' \in BOOLEAN
      BY <2>1 DEF Ingested, EndOfIngestion
    <3>2. hand' \subseteq Ids /\ Cardinality(hand') <= 1
      BY <2>1, HandSize DEF Ingested, EndOfIngestion
    <3>3. at' = "next" /\ health' = "Ready" /\ recorded' \subseteq Ids
      BY <2>1 DEF Ingested, TypeOK
    <3> QED BY <2>1, <2>2, <3>1, <3>2, <3>3 DEF TypeOK, Cancellable
  <2>4. StepsAgree' /\ SeenBounded' /\ HealthIsHonest' /\ PodsSurviveFailedScans'
    BY <2>1, <2>2 DEF StepsAgree, SeenBounded, HealthIsHonest, PodsSurviveFailedScans, Ingesting,
                      Ingested, EndOfIngestion, capacity, backend
  <2>5. NothingVanishes'
    BY <2>1 DEF NothingVanishes, HasSession, Stopped, Ingesting, Ingested, EndOfIngestion,
                backend, mark
  <2> QED BY <2>3, <2>4, <2>5
<1>4. CASE IngestFails
  <2> USE DEF IngestFails, EndOfIngestion
  <2>1. summary' \in [Counters -> 0..CounterMax] /\ summary'["ingest_errors"] > 0
    BY <1>4, CountTyped DEF Counters
  <2>2. faults' \in 0..MaxFaults
    BY <1>4, AdapterAssumption DEF Fault, TypeOK
  <2>3. TypeOK'
    <3>1. missing' \in BOOLEAN /\ recovered' \in BOOLEAN
      BY <1>4
    <3>2. hand' \subseteq Ids /\ Cardinality(hand') <= 1
      BY <1>4, HandSize
    <3> QED BY <1>4, <2>1, <2>2, <3>1, <3>2 DEF TypeOK, Cancellable
  <2>4. StepsAgree' /\ SeenBounded' /\ HealthIsHonest' /\ PodsSurviveFailedScans'
    BY <1>4, <2>1 DEF StepsAgree, SeenBounded, HealthIsHonest, PodsSurviveFailedScans, Ingesting,
                      capacity, backend
  <2>5. NothingVanishes'
    BY <1>4 DEF NothingVanishes, HasSession, Stopped, Ingesting, backend, mark
  <2> QED BY <2>3, <2>4, <2>5
<1> QED BY <1>1, <1>2, <1>3, <1>4

\* The inductive invariant holds in every reachable state.
LEMMA AdapterInvariant == Spec => []AdapterInv
<1>1. AdapterInv /\ [Next]_vars => AdapterInv'
  <2> SUFFICES ASSUME AdapterInv, [Next]_vars PROVE AdapterInv'
    OBVIOUS
  <2>1. CASE \E c \in Ids : Start(c) \/ Stop(c) \/ ContainersChange(c)
    BY <2>1, QuietStep DEF Start, Stop, ContainersChange, ContainerStates, AdapterInv, TypeOK
  <2>2. CASE SendShutdown \/ Abort \/ Break \/ Wake \/ Filtered
    <3>1. /\ running \subseteq Ids
          /\ containers \in [Ids -> ContainerStates]
          /\ shutdown' \in BOOLEAN
      BY <2>2 DEF SendShutdown, Abort, Break, Wake, Filtered, AdapterInv, TypeOK
    <3> QED BY <2>2, <3>1, QuietStep DEF SendShutdown, Abort, Break, Wake, Filtered, Stopped
  <2>3. CASE Pop
    BY <2>3, PopStep
  <2>4. CASE Inspect \/ InspectUnmarked \/ InspectFails
    BY <2>4, InspectStep
  <2>5. CASE List \/ ListFails \/ ResolvePod \/ ResolveFails \/ Resolved
    BY <2>5, ScanStep
  <2>6. CASE RememberSeen
    BY <2>6, RememberStep
  <2>7. CASE Discover \/ Record \/ Finding \/ IngestFails
    BY <2>7, IngestStep
  <2>8. CASE UNCHANGED vars
    BY <2>8, QuietStep DEF vars, AdapterInv, TypeOK
  <2> QED BY <2>1, <2>2, <2>3, <2>4, <2>5, <2>6, <2>7, <2>8 DEF Next, Step
<1> QED BY <1>1, InitAdapter, PTL DEF Spec
-----------------------------------------------------------------------------
\* The adapter's state is well typed, whatever the backend and its faults.
THEOREM AdapterTypeCorrect == Spec => []TypeOK
<1>1. AdapterInv => TypeOK
  BY DEF AdapterInv
<1> QED BY <1>1, AdapterInvariant, PTL

\* remember_seen never lets the seen set grow beyond its capacity.
THEOREM SeenSetBounded == Spec => []SeenBounded
<1>1. AdapterInv => SeenBounded
  BY DEF AdapterInv
<1> QED BY <1>1, AdapterInvariant, PTL

\* A workload the adapter has remembered, and so never looks at again, is
\* waiting, being ingested, recorded, or was dropped with a counted error.
THEOREM NoWorkloadVanishes == Spec => []NothingVanishes
<1>1. AdapterInv => NothingVanishes
  BY DEF AdapterInv
<1> QED BY <1>1, AdapterInvariant, PTL

\* No pod is dropped because a Kubernetes scan failed.
THEOREM PodsSurvive == Spec => []PodsSurviveFailedScans
<1>1. AdapterInv => PodsSurviveFailedScans
  BY DEF AdapterInv
<1> QED BY <1>1, AdapterInvariant, PTL

\* The health the adapter reports agrees with its errors and its records.
THEOREM HealthHonest == Spec => []HealthIsHonest
<1>1. AdapterInv => HealthIsHonest
  BY DEF AdapterInv
<1> QED BY <1>1, AdapterInvariant, PTL
-----------------------------------------------------------------------------
(***************************************************************************)
(* No workload is ingested twice.  With room for every workload nothing is *)
(* ever evicted; then a workload that waits, is in hand or was ingested    *)
(* has been seen, so a scan never queues it again, and the backlog holds   *)
(* no workload twice.                                                      *)
(***************************************************************************)
RoomForAll == capacity >= Cardinality(Ids)

OnceInv ==
  /\ at \in {"resolve", "filter"} => backend # "once"
  /\ RoomForAll =>
       /\ IsInjective(pending)
       /\ \A c \in Range(pending) : ingests[c] = 0 /\ c \notin hand
       /\ at = "inspect" => \A c \in hand : ingests[c] = 0
       /\ \A c \in Ids : ingests[c] <= 1
       /\ backend # "once" =>
            \A c \in Ids : c \in Range(pending) \cup hand \/ ingests[c] > 0 => c \in seen

\* The rest of a backlog without repetitions has none, nor its first id.
LEMMA InjectiveTail ==
  ASSUME NEW S, NEW s \in Seq(S), s # <<>>, IsInjective(s)
  PROVE  IsInjective(Tail(s)) /\ Head(s) \notin Range(Tail(s))
<1>1. /\ Tail(s) \in Seq(S)
      /\ Len(s) \in Nat \ {0}
      /\ Head(s) = s[1]
      /\ Len(Tail(s)) = Len(s) - 1
      /\ \A i \in 1..Len(Tail(s)) : Tail(s)[i] = s[i + 1]
  BY EmptySeq, HeadTailProperties
<1>2. \A i, j \in 1..Len(s) : s[i] = s[j] => i = j
  BY DEF IsInjective
<1>3. DOMAIN Tail(s) = 1..Len(Tail(s))
  BY <1>1
<1>4. IsInjective(Tail(s))
  <2>1. ASSUME NEW i \in 1..Len(Tail(s)), NEW j \in 1..Len(Tail(s)), Tail(s)[i] = Tail(s)[j]
        PROVE  i = j
    <3>1. i + 1 \in 1..Len(s) /\ j + 1 \in 1..Len(s) /\ s[i + 1] = s[j + 1]
      BY <1>1, <2>1
    <3>2. i + 1 = j + 1
      BY <1>2, <3>1
    <3> QED BY <3>2
  <2> QED BY <1>3, <2>1 DEF IsInjective
<1>5. Head(s) \notin Range(Tail(s))
  <2>1. ASSUME NEW i \in 1..Len(Tail(s)), Tail(s)[i] = Head(s) PROVE FALSE
    <3>1. 1 \in 1..Len(s) /\ i + 1 \in 1..Len(s) /\ s[i + 1] = s[1]
      BY <1>1, <2>1
    <3>2. i + 1 = 1
      BY <1>2, <3>1
    <3> QED BY <3>2
  <2> QED BY <1>3, <2>1 DEF Range
<1> QED BY <1>4, <1>5

\* A new id at the end repeats none.
LEMMA InjectiveAppend ==
  ASSUME NEW S, NEW s \in Seq(S), NEW e \in S, IsInjective(s), e \notin Range(s)
  PROVE  IsInjective(Append(s, e))
<1>1. /\ Append(s, e) \in Seq(S)
      /\ Len(s) \in Nat
      /\ Len(Append(s, e)) = Len(s) + 1
      /\ \A i \in 1..Len(s) : Append(s, e)[i] = s[i]
      /\ Append(s, e)[Len(s) + 1] = e
  BY AppendProperties
<1>2. \A i, j \in 1..Len(s) : s[i] = s[j] => i = j
  BY DEF IsInjective
<1>3. \A i \in 1..Len(s) : s[i] # e
  BY DEF Range
<1>4. DOMAIN Append(s, e) = 1..Len(s) + 1
  BY <1>1
<1>5. ASSUME NEW i \in 1..Len(s) + 1, NEW j \in 1..Len(s) + 1,
             Append(s, e)[i] = Append(s, e)[j]
      PROVE  i = j
  BY <1>1, <1>2, <1>3, <1>5
<1> QED BY <1>4, <1>5 DEF IsInjective

\* With room for all nothing is evicted.
LEMMA NothingEvicted ==
  ASSUME TypeOK, RoomForAll, NEW c \in Ids, c \notin seen
  PROVE  Evicted = seen
<1>1. seen \in SUBSET Ids /\ seen # Ids
  BY DEF TypeOK
<1>2. Cardinality(seen) <= Cardinality(Ids) /\ Cardinality(seen) # Cardinality(Ids)
  BY <1>1, AdapterAssumption, FS_Subset
<1>3. Cardinality(seen) \in Nat /\ Cardinality(Ids) \in Nat
  BY <1>1, AdapterAssumption, FS_Subset, FS_CardinalityType
<1>4. capacity \in Nat
  BY AdapterAssumption DEF TypeOK, capacity
<1> QED BY <1>2, <1>3, <1>4 DEF Evicted, RoomForAll

\* Nothing is ingested at first.
LEMMA OnceInit == Init => OnceInv
<1> SUFFICES ASSUME Init PROVE OnceInv
  OBVIOUS
<1>1. IsInjective(pending)
  <2>1. CASE backend = "once"
    <3>1. pending \in SetToSeqs(Ids)
      BY <2>1 DEF Init
    <3> QED BY <3>1 DEF SetToSeqs, IsInjective
  <2>2. CASE backend # "once"
    <3>1. pending = <<>>
      BY <2>2 DEF Init
    <3> QED BY <3>1 DEF IsInjective
  <2> QED BY <2>1, <2>2
<1>2. Range(pending) \subseteq Ids
  <2>1. pending \in Seq(Ids)
    BY InitAdapter DEF AdapterInv, TypeOK
  <2> QED BY <2>1, RangeOfSeq
<1>3. backend # "once" => Range(pending) = {}
  BY DEF Init, Range
<1> QED BY <1>1, <1>2, <1>3 DEF Init, OnceInv

\* Steps that leave the backlog, the seen set and the ingestions alone and put
\* nothing in hand.
LEMMA OnceQuiet ==
  ASSUME OnceInv, UNCHANGED <<setup, pending, seen, ingests>>, hand' \subseteq hand,
         at' = "inspect" => at = "inspect",
         at' \in {"resolve", "filter"} => at \in {"resolve", "filter"} \/ backend # "once"
  PROVE  OnceInv'
BY DEF OnceInv, RoomForAll, capacity, backend

\* An id taken from the backlog is not in it any more.
LEMMA OncePop == AdapterInv /\ OnceInv /\ Pop => OnceInv'
<1> SUFFICES ASSUME AdapterInv, OnceInv, Pop, RoomForAll PROVE OnceInv'
  BY DEF OnceInv, RoomForAll, Pop, capacity
<1> DEFINE c == Head(pending)
<1>1. /\ c \in Ids
      /\ Range(pending) = {c} \cup Range(pending')
      /\ IsInjective(pending')
      /\ c \notin Range(pending')
  BY RangeHeadTail, InjectiveTail DEF AdapterInv, TypeOK, OnceInv, Pop
<1>2. Range(pending) \subseteq Ids
  BY RangeOfSeq DEF AdapterInv, TypeOK
<1>3. ingests[c] = 0
  BY <1>1 DEF OnceInv
<1>4. /\ ingests'[c] <= 1
      /\ backend # "kubernetes" => ingests'[c] = 0
      /\ \A d \in Ids : d # c => ingests'[d] = ingests[d]
  BY <1>1, <1>3 DEF Pop, Ingest
<1>5. hand' = {c} /\ seen' = seen /\ setup' = setup
  BY DEF Pop
<1>6. at' = "inspect" => backend # "kubernetes"
  BY DEF Pop
<1>7. \A d \in Range(pending') : ingests'[d] = 0 /\ d \notin hand'
  BY <1>1, <1>2, <1>4, <1>5 DEF OnceInv
<1>8. \A d \in Ids : ingests'[d] <= 1
  BY <1>4 DEF OnceInv
<1>9. backend # "once" =>
        \A d \in Ids : d \in Range(pending') \cup hand' \/ ingests'[d] > 0 => d \in seen'
  BY <1>1, <1>4, <1>5 DEF OnceInv
<1>10. at' \notin {"resolve", "filter"}
  BY DEF Pop
<1> QED BY <1>1, <1>4, <1>5, <1>6, <1>7, <1>8, <1>9, <1>10 DEF OnceInv, RoomForAll, capacity,
                                                               backend

\* An inspected container stays in hand until it is discovered.
LEMMA OnceInspect == AdapterInv /\ OnceInv /\ Inspect => OnceInv'
<1> SUFFICES ASSUME AdapterInv, OnceInv, Inspect, RoomForAll PROVE OnceInv'
  BY DEF OnceInv, RoomForAll, Inspect, capacity
<1>1. UNCHANGED <<setup, pending, seen, hand>> /\ at = "inspect" /\ at' = "discover"
  BY DEF Inspect, scan
<1>2. \A c \in Ids : ingests[c] \in 0..2
  BY DEF AdapterInv, TypeOK
<1>3. \A c \in Ids : ingests'[c] = IF c \in hand THEN ingests[c] + 1 ELSE ingests[c]
  BY <1>1, <1>2 DEF Inspect, Ingest, OnceInv, AdapterInv, TypeOK
<1>4. hand \subseteq Ids /\ Range(pending) \subseteq Ids
  BY RangeOfSeq DEF AdapterInv, TypeOK
<1>5. \A c \in Ids : ingests'[c] <= 1
  BY <1>1, <1>2, <1>3 DEF OnceInv
<1>6. \A c \in Range(pending) : ingests'[c] = 0 /\ c \notin hand
  BY <1>3, <1>4 DEF OnceInv
<1>7. backend # "once" =>
        \A c \in Ids : c \in Range(pending) \cup hand \/ ingests'[c] > 0 => c \in seen
  BY <1>3 DEF OnceInv
<1> QED BY <1>1, <1>5, <1>6, <1>7 DEF OnceInv, RoomForAll, capacity, backend

\* With room for all, an id enters the backlog only when first seen.
LEMMA OnceRemember == AdapterInv /\ OnceInv /\ RememberSeen => OnceInv'
<1> SUFFICES ASSUME AdapterInv, OnceInv, RememberSeen, RoomForAll PROVE OnceInv'
  BY DEF OnceInv, RoomForAll, RememberSeen, capacity, backend
<1> DEFINE c == Head(listed)
<1>1. c \in Ids
  BY RangeHeadTail DEF RememberSeen, AdapterInv, TypeOK
<1>2. UNCHANGED <<setup, hand, ingests, at>> /\ at = "filter" /\ backend # "once"
  BY DEF RememberSeen, OnceInv
<1>3. CASE c \in seen
  BY <1>2, <1>3, OnceQuiet DEF RememberSeen
<1>4. CASE c \notin seen
  <2>1. seen' = seen \cup {c}
    BY <1>1, <1>4, NothingEvicted DEF RememberSeen, AdapterInv
  <2>2. c \notin Range(pending) \cup hand /\ ~(ingests[c] > 0)
    BY <1>1, <1>2, <1>4 DEF OnceInv
  <2>3. ingests[c] = 0
    BY <1>1, <2>2 DEF AdapterInv, TypeOK
  <2>4. pending' = Append(pending, c) /\ pending \in Seq(Ids)
    BY <1>4 DEF RememberSeen, AdapterInv, TypeOK
  <2>5. Range(pending') = Range(pending) \cup {c}
    BY <1>1, <2>4, RangeAppend
  <2>6. IsInjective(pending')
    BY <1>1, <2>2, <2>4, InjectiveAppend DEF OnceInv
  <2> QED BY <1>1, <1>2, <2>1, <2>2, <2>3, <2>5, <2>6 DEF OnceInv, RoomForAll, capacity, backend
<1> QED BY <1>3, <1>4

\* With room for all, nothing is ingested a second time.
LEMMA OnceInvariant == Spec => []OnceInv
<1>1. AdapterInv /\ OnceInv /\ [Next]_vars => OnceInv'
  <2> SUFFICES ASSUME AdapterInv, OnceInv, [Next]_vars PROVE OnceInv'
    OBVIOUS
  <2>1. CASE \/ \E c \in Ids : Start(c) \/ Stop(c) \/ ContainersChange(c)
             \/ SendShutdown \/ Abort \/ Break
    BY <2>1, OnceQuiet DEF Start, Stop, ContainersChange, SendShutdown, Abort, Break, scan, history
  <2>2. CASE Pop
    BY <2>2, OncePop
  <2>3. CASE Inspect
    BY <2>3, OnceInspect
  <2>4. CASE InspectUnmarked \/ InspectFails \/ ListFails \/ ResolveFails
    BY <2>4, OnceQuiet DEF InspectUnmarked, InspectFails, ListFails, ResolveFails, BackendError,
                           history
  <2>5. CASE List \/ ResolvePod \/ Resolved \/ Filtered \/ Wake
    BY <2>5, OnceQuiet DEF List, ResolvePod, Resolved, Filtered, Wake, scan, history
  <2>6. CASE RememberSeen
    BY <2>6, OnceRemember
  <2>7. CASE Discover \/ Record \/ Finding \/ IngestFails
    BY <2>7, OnceQuiet DEF Discover, Record, Finding, IngestFails, Ingested, EndOfIngestion, scan,
                           history
  <2>8. CASE UNCHANGED vars
    BY <2>8, OnceQuiet DEF vars, scan, history
  <2> QED BY <2>1, <2>2, <2>3, <2>4, <2>5, <2>6, <2>7, <2>8 DEF Next, Step
<1> QED BY <1>1, OnceInit, AdapterInvariant, PTL DEF Spec

\* With room for every workload in the seen set, no workload is handed to
\* ingestion twice, however often it is listed, stops and starts.
THEOREM NeverIngestedTwice == Spec => []IngestedOnce
<1>1. OnceInv => IngestedOnce
  BY DEF OnceInv, RoomForAll, IngestedOnce
<1> QED BY <1>1, OnceInvariant, PTL
=============================================================================
