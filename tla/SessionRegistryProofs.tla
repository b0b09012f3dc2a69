----------------------- MODULE SessionRegistryProofs -----------------------
(***************************************************************************)
(* The registry's type and attribution invariants for every set of         *)
(* sessions, cgroups and tenants and every capacity, and what they give    *)
(* the daemon that persists and replays the registry.                      *)
(***************************************************************************)
EXTENDS DaemonState, FiniteSetTheorems, TLAPS

\* Attributing cgroups to a session keeps the index a map and names exactly
\* the domain and the owners it then has.
LEMMA IndexWithMap ==
  ASSUME NEW s \in Sessions, NEW cs \in SUBSET Cgroups,
         IsMap(cgroup_index, Cgroups, Sessions)
  PROVE  /\ IsMap(IndexWith(s, cs), Cgroups, Sessions)
         /\ DOMAIN IndexWith(s, cs) = DOMAIN cgroup_index \cup cs
         /\ \A c \in DOMAIN IndexWith(s, cs) :
              IndexWith(s, cs)[c] = IF c \in cs THEN s ELSE cgroup_index[c]
  BY DEF IsMap, IndexWith

\* Dropping cgroups keeps the index a map and leaves the other entries alone.
LEMMA IndexWithoutMap ==
  ASSUME NEW cs, IsMap(cgroup_index, Cgroups, Sessions)
  PROVE  /\ IsMap(IndexWithout(cs), Cgroups, Sessions)
         /\ DOMAIN IndexWithout(cs) = DOMAIN cgroup_index \ cs
         /\ \A c \in DOMAIN IndexWithout(cs) :
              IndexWithout(cs)[c] = cgroup_index[c]
  BY DEF IsMap, IndexWithout

\* Claiming cgroups that are available to s takes none from its owner.
LEMMA ClaimKeepsOwners ==
  ASSUME NEW s \in Sessions, NEW cs \in SUBSET Cgroups,
         IsMap(cgroup_index, Cgroups, Sessions),
         \A c \in cs : Available(s, c)
  PROVE  \A c \in DOMAIN cgroup_index \cap DOMAIN IndexWith(s, cs) :
           IndexWith(s, cs)[c] = cgroup_index[c]
  BY DEF Available, IndexWith

\* The cgroups that wait for s are counted: as many pairs leave the pending
\* set when s registers as register subtracts from the counter, and the
\* counter holds at least that many.
LEMMA PendingOfCounted ==
  ASSUME TypeOK, NEW s \in Sessions
  PROVE  /\ IsFiniteSet(pending)
         /\ Cardinality(pending) \in Nat
         /\ Cardinality(PendingOf(s)) \in Nat
         /\ Cardinality(PendingOf(s)) <= Cardinality(pending)
         /\ Cardinality(pending \ ({s} \X PendingOf(s)))
              = Cardinality(pending) - Cardinality(PendingOf(s))
<1> DEFINE W == PendingOf(s)
           P == {s} \X W
<1>1. IsFiniteSet(Sessions \X Cgroups)
  BY RegistryAssumption, FS_Product
<1>2. IsFiniteSet(pending) /\ Cardinality(pending) \in Nat
  BY <1>1, FS_Subset, FS_CardinalityType DEF TypeOK
<1>3. IsFiniteSet(W) /\ Cardinality(W) \in Nat
  BY RegistryAssumption, FS_Subset, FS_CardinalityType, W \in SUBSET Cgroups DEF PendingOf
<1>4. P \in SUBSET pending /\ pending \cap P = P
  BY DEF PendingOf
<1>5. Cardinality(P) = Cardinality(W)
  <2>1. IsFiniteSet({s}) /\ Cardinality({s}) = 1
    BY FS_Singleton
  <2>2. Cardinality(P) = Cardinality({s}) * Cardinality(W)
    BY <2>1, <1>3, FS_Product
  <2> QED BY <2>1, <2>2, <1>3
<1>6. Cardinality(P) <= Cardinality(pending)
  BY <1>2, <1>4, FS_Subset
<1>7. Cardinality(pending \ P) = Cardinality(pending) - Cardinality(pending \cap P)
  BY <1>2, FS_Difference
<1> QED BY <1>2, <1>3, <1>4, <1>5, <1>6, <1>7

\* Every operation keeps the session map, the cgroup index and the pending set
\* within their types; that the counter stays a natural number needs the
\* exactness of the count.
LEMMA TypeStep ==
  ASSUME TypeOK, PendingCountExact, [Next]_vars
  PROVE  TypeOK'
<1> USE RegistryAssumption
<1>1. ASSUME NEW s \in Sessions, NEW i \in Intent, Register(s, i) PROVE TypeOK'
  <2>1. IsMap(sessions', Sessions, SessionState)
    BY <1>1 DEF Register, TypeOK, IsMap, SessionState, Status, PendingOf
  <2>2. IsMap(cgroup_index', Cgroups, Sessions)
    BY <1>1, IndexWithMap, PendingOf(s) \in SUBSET Cgroups DEF Register, TypeOK, PendingOf
  <2>3. pending_count' \in Nat
    BY <1>1, PendingOfCounted DEF Register, TypeOK, PendingCountExact
  <2> QED BY <1>1, <2>1, <2>2, <2>3 DEF Register, TypeOK
<1>2. ASSUME NEW s \in Sessions, NEW e \in ExpiryTimes, Renew(s, e) PROVE TypeOK'
  <2>1. IsMap(sessions', Sessions, SessionState)
    BY <1>2 DEF Renew, RenewAccepted, TypeOK, IsMap, SessionState, Status, Intent
  <2> QED BY <1>2, <2>1 DEF Renew, TypeOK
<1>3. ASSUME NEW s \in Sessions, NEW st \in Status, Deactivate(s, st) PROVE TypeOK'
  <2>1. IsMap(sessions', Sessions, SessionState)
    BY <1>3 DEF Deactivate, TypeOK, IsMap, SessionState
  <2>2. IsMap(cgroup_index', Cgroups, Sessions)
    BY <1>3, IndexWithoutMap DEF Deactivate, TypeOK
  <2> QED BY <1>3, <2>1, <2>2 DEF Deactivate, TypeOK
<1>4. CASE Expire
  <2>1. IsMap(sessions', Sessions, SessionState)
    BY <1>4 DEF Expire, TypeOK, IsMap, SessionState, Status
  <2>2. IsMap(cgroup_index', Cgroups, Sessions)
    BY <1>4, IndexWithoutMap DEF Expire, TypeOK
  <2> QED BY <1>4, <2>1, <2>2 DEF Expire, TypeOK
<1>5. ASSUME NEW s \in Sessions, NEW c \in Cgroups, AssociateCgroup(s, c) PROVE TypeOK'
  <2>1. IsMap(sessions', Sessions, SessionState)
    BY <1>5 DEF AssociateCgroup, IsActive, TypeOK, IsMap, SessionState
  <2>2. IsMap(cgroup_index', Cgroups, Sessions)
    BY <1>5, IndexWithMap, {c} \in SUBSET Cgroups DEF AssociateCgroup, TypeOK
  <2> QED BY <1>5, <2>1, <2>2 DEF AssociateCgroup, TypeOK
<1>6. ASSUME NEW s \in Sessions, NEW c \in Cgroups, DiscoverPending(s, c) PROVE TypeOK'
  <2>1. IsMap(cgroup_index', Cgroups, Sessions)
    BY <1>6, IndexWithMap, {c} \in SUBSET Cgroups DEF DiscoverPending, TypeOK
  <2> QED BY <1>6, <2>1 DEF DiscoverPending, TypeOK
<1>7. ASSUME NEW t \in Tenants, NEW at \in RetentionTimes, ApplyRetentionForTenant(t, at) PROVE TypeOK'
  <2>1. IsMap(sessions', Sessions, SessionState)
    BY <1>7 DEF ApplyRetentionForTenant, TypeOK, IsMap
  <2>2. IsMap(cgroup_index', Cgroups, Sessions)
    BY <1>7, IndexWithoutMap DEF ApplyRetentionForTenant, TypeOK
  <2> QED BY <1>7, <2>1, <2>2 DEF ApplyRetentionForTenant, TypeOK
<1>8. CASE Tick
  BY <1>8 DEF Tick, TypeOK, registryVars
<1>9. CASE UNCHANGED vars
  BY <1>9 DEF vars, registryVars, TypeOK
<1> QED
  BY <1>1, <1>2, <1>3, <1>4, <1>5, <1>6, <1>7, <1>8, <1>9
  DEF Next, Close, Degrade, DiscoverCgroup, Status

\* Every operation keeps the counter equal to the number of waiting pairs.
LEMMA CountStep ==
  ASSUME TypeOK, PendingCountExact, [Next]_vars
  PROVE  PendingCountExact'
<1> USE RegistryAssumption
<1>1. ASSUME NEW s \in Sessions, NEW i \in Intent, Register(s, i)
      PROVE  PendingCountExact'
  BY <1>1, PendingOfCounted DEF Register, TypeOK, PendingCountExact
<1>2. ASSUME NEW s \in Sessions, NEW c \in Cgroups, DiscoverPending(s, c)
      PROVE  PendingCountExact'
  <2>1. IsFiniteSet(pending)
    BY PendingOfCounted
  <2>2. Cardinality(pending \cup {<<s, c>>}) = Cardinality(pending) + 1
    BY <1>2, <2>1, FS_AddElement DEF DiscoverPending
  <2> QED BY <1>2, <2>2 DEF DiscoverPending, TypeOK, PendingCountExact
<1>3. CASE UNCHANGED <<pending, pending_count>>
  BY <1>3 DEF PendingCountExact
<1> QED
  BY <1>1, <1>2, <1>3
  DEF Next, Renew, Close, Degrade, Deactivate, Expire, DiscoverCgroup, AssociateCgroup,
      ApplyRetentionForTenant, Tick, vars, registryVars

\* What closing, degrading, expiring and purging have in common: the sessions
\* in gone give up every cgroup they list, the others stay as they are.
Released(gone) ==
  /\ gone \subseteq DOMAIN sessions
  /\ DOMAIN cgroup_index' = DOMAIN cgroup_index \ UNION {sessions[s].cgroup_ids : s \in gone}
  /\ \A c \in DOMAIN cgroup_index' : cgroup_index'[c] = cgroup_index[c]
  /\ \A s \in DOMAIN sessions \ gone : s \in DOMAIN sessions' /\ sessions'[s] = sessions[s]
  /\ pending' = pending

\* Releasing a session's listed cgroups leaves only justified index entries.
LEMMA ReleaseJustified ==
  ASSUME NEW gone, Released(gone), AttributionJustified
  PROVE  AttributionJustified'
<1>1. ASSUME NEW c \in DOMAIN cgroup_index', c \in sessions[cgroup_index[c]].cgroup_ids
      PROVE  cgroup_index[c] \notin gone
  BY <1>1 DEF Released
<1> QED BY <1>1 DEF Released, AttributionJustified, IsActive

\* Every operation leaves each index entry justified: what deactivation and
\* retention leave in the index belongs to somebody else or still waits.
LEMMA AttributionStep ==
  ASSUME TypeOK, AttributionJustified, [Next]_vars
  PROVE  AttributionJustified'
<1>1. ASSUME NEW s \in Sessions, NEW i \in Intent, Register(s, i)
      PROVE  AttributionJustified'
  <2> DEFINE W == PendingOf(s)
  <2>1. W \in SUBSET Cgroups /\ \A c \in Cgroups : <<s, c>> \in pending => c \in W
    BY DEF PendingOf
  <2>2. /\ DOMAIN cgroup_index' = DOMAIN cgroup_index \cup W
        /\ \A c \in W : cgroup_index'[c] = s
        /\ \A c \in DOMAIN cgroup_index \ W : cgroup_index'[c] = cgroup_index[c]
    BY <1>1 DEF Register, IndexWith
  <2>3. /\ s \in DOMAIN sessions'
        /\ sessions'[s].status = "Active"
        /\ W \subseteq sessions'[s].cgroup_ids
        /\ s \in DOMAIN sessions => sessions[s].cgroup_ids \subseteq sessions'[s].cgroup_ids
    BY <1>1 DEF Register
  <2>4. \A t \in DOMAIN sessions \ {s} : t \in DOMAIN sessions' /\ sessions'[t] = sessions[t]
    BY <1>1 DEF Register
  <2>5. \A t, c : <<t, c>> \in pending /\ t # s => <<t, c>> \in pending'
    BY <1>1 DEF Register
  <2>6. \A c \in DOMAIN cgroup_index : c \in Cgroups
    BY DEF TypeOK, IsMap
  <2> HIDE DEF W
  <2>7. ASSUME NEW c \in DOMAIN cgroup_index \ W, cgroup_index[c] = s
        PROVE  IsActive(s) /\ c \in sessions[s].cgroup_ids
    BY <2>1, <2>6, <2>7 DEF AttributionJustified
  <2> QED
    BY <2>2, <2>3, <2>4, <2>5, <2>7 DEF AttributionJustified, IsActive
<1>2. ASSUME NEW s \in Sessions, NEW e \in ExpiryTimes, Renew(s, e)
      PROVE  AttributionJustified'
  <2>1. /\ DOMAIN sessions' = DOMAIN sessions
        /\ \A t \in DOMAIN sessions :
             /\ sessions'[t].cgroup_ids = sessions[t].cgroup_ids
             /\ sessions[t].status = "Active" => sessions'[t].status = "Active"
    BY <1>2 DEF Renew, RenewAccepted, TypeOK, IsMap, SessionState
  <2> QED BY <1>2, <2>1 DEF Renew, AttributionJustified, IsActive
<1>3. ASSUME NEW s \in Sessions, NEW st \in Status, Deactivate(s, st)
      PROVE  AttributionJustified'
  <2>1. UNION {sessions[t].cgroup_ids : t \in {s}} = sessions[s].cgroup_ids
    OBVIOUS
  <2>2. \A t \in DOMAIN sessions \ {s} : t \in DOMAIN sessions' /\ sessions'[t] = sessions[t]
    BY <1>3 DEF Deactivate, TypeOK, IsMap
  <2>3. Released({s})
    BY ZenonT(60), <1>3, <2>1, <2>2, IndexWithoutMap DEF Deactivate, Released, TypeOK
  <2> QED BY <2>3, ReleaseJustified
<1>4. CASE Expire
  <2> DEFINE due == {s \in DOMAIN sessions : IsActive(s) /\ sessions[s].intent.expires <= now}
  <2>1. \A s \in DOMAIN sessions \ due : s \in DOMAIN sessions' /\ sessions'[s] = sessions[s]
    BY <1>4 DEF Expire
  <2>2. cgroup_index' = IndexWithout(UNION {sessions[s].cgroup_ids : s \in due}) /\ pending' = pending
    BY <1>4 DEF Expire
  <2>3. due \subseteq DOMAIN sessions
    OBVIOUS
  <2> HIDE DEF due
  <2>4. Released(due)
    BY <2>1, <2>2, <2>3, IndexWithoutMap DEF Released, TypeOK
  <2> QED BY <2>4, ReleaseJustified
<1>5. ASSUME NEW s \in Sessions, NEW c \in Cgroups, AssociateCgroup(s, c)
      PROVE  AttributionJustified'
  <2>1. /\ DOMAIN sessions' = DOMAIN sessions
        /\ \A t \in DOMAIN sessions :
             /\ sessions'[t].status = sessions[t].status
             /\ sessions[t].cgroup_ids \subseteq sessions'[t].cgroup_ids
        /\ IsActive(s) /\ c \in sessions'[s].cgroup_ids
    BY <1>5 DEF AssociateCgroup, IsActive, TypeOK, IsMap, SessionState
  <2>2. /\ DOMAIN cgroup_index' = DOMAIN cgroup_index \cup {c}
        /\ cgroup_index'[c] = s
        /\ \A d \in DOMAIN cgroup_index \ {c} : cgroup_index'[d] = cgroup_index[d]
    BY <1>5 DEF AssociateCgroup, IndexWith
  <2> QED BY ZenonT(60), <1>5, <2>1, <2>2 DEF AssociateCgroup, AttributionJustified, IsActive
<1>6. ASSUME NEW s \in Sessions, NEW c \in Cgroups, DiscoverPending(s, c)
      PROVE  AttributionJustified'
  <2>1. /\ DOMAIN cgroup_index' = DOMAIN cgroup_index \cup {c}
        /\ cgroup_index'[c] = s
        /\ \A d \in DOMAIN cgroup_index \ {c} : cgroup_index'[d] = cgroup_index[d]
    BY <1>6 DEF DiscoverPending, IndexWith
  <2> QED BY <1>6, <2>1 DEF DiscoverPending, AttributionJustified, IsActive
<1>7. ASSUME NEW t \in Tenants, NEW at \in RetentionTimes, ApplyRetentionForTenant(t, at)
      PROVE  AttributionJustified'
  <2>1. Released(Purgeable(t, at))
    BY <1>7, IndexWithoutMap DEF ApplyRetentionForTenant, Released, TypeOK, Purgeable
  <2> QED BY <2>1, ReleaseJustified
<1>8. CASE UNCHANGED registryVars
  BY <1>8 DEF registryVars, AttributionJustified, IsActive
<1> QED
  BY <1>1, <1>2, <1>3, <1>4, <1>5, <1>6, <1>7, <1>8
  DEF Next, Close, Degrade, DiscoverCgroup, Tick, Status, vars

\* Registration and its replacement path keep the session table in capacity.
LEMMA CapacityStep ==
  ASSUME TypeOK, SessionCapacityRespected, [Next]_vars
  PROVE  SessionCapacityRespected'
<1> USE RegistryAssumption
<1>1. IsFiniteSet(DOMAIN sessions) /\ Cardinality(DOMAIN sessions) \in Nat
  BY FS_Subset, FS_CardinalityType DEF TypeOK, IsMap
<1>2. ASSUME NEW s \in Sessions, NEW i \in Intent, Register(s, i)
      PROVE  SessionCapacityRespected'
  <2>1. DOMAIN sessions' = DOMAIN sessions \cup {s}
    BY <1>2 DEF Register
  <2>2. Cardinality(DOMAIN sessions \cup {s})
          = IF s \in DOMAIN sessions THEN Cardinality(DOMAIN sessions)
                                     ELSE Cardinality(DOMAIN sessions) + 1
    BY <1>1, FS_AddElement
  <2> QED BY <1>1, <1>2, <2>1, <2>2 DEF Register, RegisterAccepted, SessionCapacityRespected
<1>3. ASSUME NEW t \in Tenants, NEW at \in RetentionTimes, ApplyRetentionForTenant(t, at)
      PROVE  SessionCapacityRespected'
  <2>1. DOMAIN sessions' \in SUBSET DOMAIN sessions
    BY <1>3 DEF ApplyRetentionForTenant
  <2>2. Cardinality(DOMAIN sessions') \in Nat /\ Cardinality(DOMAIN sessions') <= Cardinality(DOMAIN sessions)
    BY <1>1, <2>1, FS_Subset, FS_CardinalityType
  <2> QED BY <1>1, <2>2 DEF SessionCapacityRespected
<1>4. CASE DOMAIN sessions' = DOMAIN sessions
  BY <1>4 DEF SessionCapacityRespected
<1> QED
  BY <1>2, <1>3, <1>4
  DEF Next, Renew, Close, Degrade, Deactivate, Expire, DiscoverCgroup, AssociateCgroup,
      DiscoverPending, Tick, vars, registryVars

\* A session that registers takes its waiting pairs with it, and only an
\* unregistered session gains one.
LEMMA RegisteredStep ==
  ASSUME TypeOK, NoPendingForRegistered, [Next]_vars
  PROVE  NoPendingForRegistered'
<1> USE DEF NoPendingForRegistered
<1>1. ASSUME NEW s \in Sessions, NEW i \in Intent, Register(s, i)
      PROVE  NoPendingForRegistered'
  <2>1. SUFFICES ASSUME NEW p \in pending' PROVE p[1] \notin DOMAIN sessions'
    OBVIOUS
  <2>2. p \in pending /\ p = <<p[1], p[2]>> /\ p[2] \in Cgroups
    BY <1>1, <2>1 DEF Register, TypeOK
  <2>3. p[1] # s
    BY <1>1, <2>1, <2>2 DEF Register, PendingOf
  <2> QED BY <1>1, <2>2, <2>3 DEF Register
<1>2. ASSUME NEW s \in Sessions, NEW c \in Cgroups, DiscoverPending(s, c)
      PROVE  NoPendingForRegistered'
  BY <1>2 DEF DiscoverPending
<1>3. CASE pending' = pending /\ DOMAIN sessions' \subseteq DOMAIN sessions
  BY <1>3
<1> QED
  BY <1>1, <1>2, <1>3
  DEF Next, Renew, Close, Degrade, Deactivate, Expire, DiscoverCgroup, AssociateCgroup,
      ApplyRetentionForTenant, Tick, vars, registryVars
-----------------------------------------------------------------------------
\* The inductive invariant: the type invariant is inductive only together with
\* the exact count, and attribution only together with the types.
RegistryInv ==
  /\ TypeOK
  /\ PendingCountExact
  /\ AttributionJustified
  /\ NoPendingForRegistered
  /\ SessionCapacityRespected

\* A registry that knows nothing satisfies the invariant.
LEMMA RegistryInitially == Init => RegistryInv
  BY RegistryAssumption, FS_EmptySet
  DEF Init, RegistryInv, TypeOK, IsMap, EmptyMap, PendingCountExact, AttributionJustified,
      NoPendingForRegistered, SessionCapacityRespected

\* Every operation keeps the registry's invariant.
LEMMA RegistryKept == RegistryInv /\ [Next]_vars => RegistryInv'
  BY TypeStep, CountStep, AttributionStep, CapacityStep, RegisteredStep DEF RegistryInv

\* The registry's invariant holds in every reachable state (session.rs).
LEMMA RegistryInvariant == Spec => []RegistryInv
  BY RegistryInitially, RegistryKept, PTL DEF Spec

\* Type correctness of the registry (session.rs): every reachable state has a
\* well-typed session map, cgroup index, pending set and counter.
THEOREM TypeCorrect == Spec => []TypeOK
  BY RegistryInvariant, PTL DEF RegistryInv

\* The pending counter is exact and within capacity in every reachable state:
\* the unchecked subtraction in register never underflows.
THEOREM PendingCounted == Spec => []PendingCountExact
  BY RegistryInvariant, PTL DEF RegistryInv

\* Events are only ever attributed to an Active session that lists the cgroup
\* or to an unregistered one it waits for: no closed, degraded, expired or
\* purged session receives evidence.
THEOREM AttributionSound == Spec => []AttributionJustified
  BY RegistryInvariant, PTL DEF RegistryInv

\* The session table never exceeds max_sessions.
THEOREM CapacitySound == Spec => []SessionCapacityRespected
  BY RegistryInvariant, PTL DEF RegistryInv

\* A registered session never has a workload waiting for its intent.
THEOREM RegisteredSound == Spec => []NoPendingForRegistered
  BY RegistryInvariant, PTL DEF RegistryInv

\* No single operation hands a cgroup from one session to another.
THEOREM OwnershipNeverTransferred == Spec => NoOwnershipTransfer
<1> DEFINE Kept == \A c \in DOMAIN cgroup_index \cap DOMAIN cgroup_index' :
                     cgroup_index'[c] = cgroup_index[c]
<1>1. TypeOK /\ [Next]_vars => [Kept]_vars
  <2> SUFFICES ASSUME TypeOK, Next PROVE Kept
    OBVIOUS
  <2>1. ASSUME NEW s \in Sessions, NEW i \in Intent, Register(s, i) PROVE Kept
    <3>1. PendingOf(s) \in SUBSET Cgroups
      BY DEF PendingOf
    <3>2. \A c \in PendingOf(s) : Available(s, c)
      BY <2>1 DEF Register, RegisterAccepted
    <3>3. cgroup_index' = IndexWith(s, PendingOf(s))
      BY <2>1 DEF Register
    <3> QED BY <3>1, <3>2, <3>3, ClaimKeepsOwners DEF TypeOK
  <2>2. ASSUME NEW s \in Sessions, NEW c \in Cgroups, AssociateCgroup(s, c) PROVE Kept
    <3>1. {c} \in SUBSET Cgroups /\ \A d \in {c} : Available(s, d)
      BY <2>2 DEF AssociateCgroup
    <3> QED BY <2>2, <3>1, ClaimKeepsOwners DEF AssociateCgroup, TypeOK
  <2>3. ASSUME NEW s \in Sessions, NEW c \in Cgroups, DiscoverPending(s, c) PROVE Kept
    <3>1. {c} \in SUBSET Cgroups /\ \A d \in {c} : Available(s, d)
      BY <2>3 DEF DiscoverPending
    <3> QED BY <2>3, <3>1, ClaimKeepsOwners DEF DiscoverPending, TypeOK
  <2>4. ASSUME NEW cs, cgroup_index' = IndexWithout(cs) PROVE Kept
    BY <2>4, IndexWithoutMap DEF TypeOK
  <2>5. CASE cgroup_index' = cgroup_index
    BY <2>5
  <2> QED
    BY <2>1, <2>2, <2>3, <2>4, <2>5
    DEF Next, Renew, Close, Degrade, Deactivate, Expire, DiscoverCgroup, ApplyRetentionForTenant,
        Tick, registryVars
<1> QED BY <1>1, TypeCorrect, PTL DEF Spec, NoOwnershipTransfer

\* Retention respects the order in which sessions become due, for every clock,
\* tier and requested time (retention_eligible and apply_retention_for_tenant).
THEOREM RetentionOrdered == Spec => ForgottenInOrder
<1> DEFINE Ordered ==
      \A s \in DOMAIN sessions \ DOMAIN sessions' :
        /\ sessions[s].status # "Degraded"
        /\ \A r \in DOMAIN sessions \cap DOMAIN sessions' :
             (/\ sessions[r].intent.tenant = sessions[s].intent.tenant
              /\ sessions[r].status \in {"Closed", "Expired"})
                => RetentionEnd(r) > RetentionEnd(s)
<1>1. ASSUME TypeOK, [Next]_vars PROVE Ordered
  <2>1. ASSUME NEW t \in Tenants, NEW at \in RetentionTimes, ApplyRetentionForTenant(t, at) PROVE Ordered
    <3>1. at \in Nat
      BY RegistryAssumption DEF RetentionTimes, ExpiryTimes
    <3>2. ASSUME NEW s \in DOMAIN sessions PROVE RetentionEnd(s) \in Nat
      <4>1. sessions[s].intent.expires \in Nat /\ sessions[s].intent.window \in Nat
        BY <1>1, RegistryAssumption DEF TypeOK, IsMap, SessionState, Intent, ExpiryTimes
      <4> QED BY <4>1 DEF RetentionEnd
    <3>3. DOMAIN sessions' = DOMAIN sessions \ Purgeable(t, at)
      BY <2>1 DEF ApplyRetentionForTenant
    <3>4. ASSUME NEW s \in Purgeable(t, at)
          PROVE  /\ s \in DOMAIN sessions
                 /\ sessions[s].intent.tenant = t
                 /\ sessions[s].status # "Degraded"
                 /\ RetentionEnd(s) <= at
      BY DEF Purgeable, RetentionEligible
    <3>5. ASSUME NEW r \in DOMAIN sessions \ Purgeable(t, at), sessions[r].intent.tenant = t,
                 sessions[r].status \in {"Closed", "Expired"}
          PROVE  RetentionEnd(r) > at
      <4>1. ~(RetentionEnd(r) <= at)
        BY <3>5 DEF Purgeable, RetentionEligible
      <4> QED BY <3>1, <3>2, <4>1
    <3>6. ASSUME NEW s \in Purgeable(t, at), NEW r \in DOMAIN sessions \ Purgeable(t, at),
                 sessions[r].intent.tenant = sessions[s].intent.tenant,
                 sessions[r].status \in {"Closed", "Expired"}
          PROVE  RetentionEnd(r) > RetentionEnd(s)
      <4>1. RetentionEnd(r) > at /\ RetentionEnd(s) <= at
        BY <3>4, <3>5, <3>6
      <4>2. RetentionEnd(r) \in Nat /\ RetentionEnd(s) \in Nat
        BY <3>2, <3>4
      <4> QED BY <3>1, <4>1, <4>2
    <3> QED BY <3>3, <3>4, <3>6
  <2>2. CASE DOMAIN sessions \in SUBSET DOMAIN sessions'
    BY <2>2
  <2> QED
    BY <1>1, <2>1, <2>2
    DEF Next, Register, Renew, Close, Degrade, Deactivate, Expire, DiscoverCgroup, AssociateCgroup,
        DiscoverPending, Tick, vars, registryVars
<1> QED BY <1>1, TypeCorrect, PTL DEF Spec, ForgottenInOrder
-----------------------------------------------------------------------------
(***************************************************************************)
(* The registry inside the daemon (state.rs): what its invariant gives the *)
(* operations that persist, fail half-way, crash and replay.               *)
(***************************************************************************)

\* The daemon never expires a session, and degrades only what it paused.
Finished ==
  \A s \in DOMAIN sessions :
    /\ sessions[s].status # "Expired"
    /\ sessions[s].status = "Degraded" => s \in paused

\* What RegistryMatchesDisk needs to be inductive: the intent agrees even
\* when it has run out, since a renewal persists only the new expiry, and a
\* closed session's timeline says so whatever the clock reads.
TimelinesAgree ==
  /\ \A s \in DOMAIN sessions \ (paused \cup lost) :
       /\ IsActive(s) => disk[s].intent = sessions[s].intent /\ ~disk[s].closed
       /\ sessions[s].status = "Closed" => disk[s].closed
  /\ \A s \in Sessions \ DOMAIN sessions : ~ReplayedActive(disk[s])

DaemonInv ==
  /\ RegistryInv
  /\ DaemonTypeOK
  /\ Finished
  /\ up /\ writable => TimelinesAgree

\* Nothing but a start rebuilds the registry: every other step of the daemon
\* is an operation of the registry or leaves it alone.
LEMMA RegistryPart ==
  ASSUME DaemonNext
  PROVE  [Next]_vars \/ Restart
<1>1. ASSUME NEW s \in Sessions, NEW i \in Intent, RegisterSession(s, i) PROVE [Next]_vars
  BY <1>1 DEF RegisterSession, Next, vars, registryVars
<1>2. ASSUME NEW s \in Sessions, NEW e \in ExpiryTimes, RenewSession(s, e) PROVE [Next]_vars
  BY <1>2 DEF RenewSession, Next, vars, registryVars
<1>3. ASSUME NEW s \in Sessions, CloseSession(s) PROVE [Next]_vars
  BY <1>3 DEF CloseSession, Next
<1>4. ASSUME NEW t \in Tenants, NEW at \in RetentionTimes, ApplyRetention(t, at) PROVE [Next]_vars
  BY <1>4 DEF ApplyRetention, Next
<1>5. ASSUME NEW s \in Sessions, NEW c \in Cgroups, DiscoverAndTrack(s, c) PROVE [Next]_vars
  BY <1>5 DEF DiscoverAndTrack, Next, vars, registryVars
<1>6. ASSUME NEW s \in Sessions, MarkSessionDegraded(s) PROVE [Next]_vars
  BY <1>6 DEF MarkSessionDegraded, Next, vars, registryVars
<1>7. CASE DaemonTick
  BY <1>7 DEF DaemonTick, Next
<1>8. CASE UNCHANGED <<now, registryVars>>
  BY <1>8 DEF vars, registryVars
<1> QED
  BY <1>1, <1>2, <1>3, <1>4, <1>5, <1>6, <1>7, <1>8
  DEF DaemonNext, CloseNotPersisted, CloseCancelled, RollbackCancelled,
      RetentionFails, DiscoverNotPersisted, ApplyLate, Crash

\* A record replayed over a timeline gives a timeline.
LEMMA ReplayedTimeline ==
  ASSUME NEW d \in Timeline
  PROVE  /\ \A i \in Intent : IntentRegistered(d, i) \in Timeline
         /\ \A e \in ExpiryTimes : IntentRenewed(d, e) \in Timeline
         /\ \A c \in Cgroups : CgroupDiscovered(d, c) \in Timeline
         /\ SessionClosed(d) \in Timeline /\ SessionClosed(d).closed
         /\ EmptyTimeline.intent = NoIntent
<1>1. Timeline = [intent : Intent \cup {NoIntent}, cgroup_ids : SUBSET Cgroups, closed : BOOLEAN]
  BY DEF Timeline
<1>2. \A i \in Intent : IntentRegistered(d, i) \in Timeline
  BY <1>1 DEF IntentRegistered
<1>3. ASSUME NEW e \in ExpiryTimes PROVE IntentRenewed(d, e) \in Timeline
  BY <1>1 DEF IntentRenewed, Intent
<1>4. \A c \in Cgroups : CgroupDiscovered(d, c) \in Timeline
  BY <1>1 DEF CgroupDiscovered
<1>5. SessionClosed(d) \in Timeline /\ SessionClosed(d).closed
  BY <1>1 DEF SessionClosed
<1>6. EmptyTimeline.intent = NoIntent
  BY DEF EmptyTimeline
<1> QED
  BY <1>2, <1>3, <1>4, <1>5, <1>6

\* Every step keeps the timelines, complete or cut short, timelines.
LEMMA TimelinesStep ==
  ASSUME DaemonTypeOK, DaemonNext
  PROVE  disk' \in [Sessions -> Timeline]
<1>1. disk \in [Sessions -> Timeline]
  BY DEF DaemonTypeOK
<1>2. ASSUME NEW s \in Sessions, NEW d \in Timeline,
             Persisted(s, d) \/ PersistFailed(s, d)
      PROVE  disk' \in [Sessions -> Timeline]
  BY <1>1, <1>2 DEF Persisted, PersistFailed
<1>3. ASSUME NEW gone, disk' = [s \in Sessions |-> IF s \in gone THEN EmptyTimeline ELSE disk[s]]
      PROVE  disk' \in [Sessions -> Timeline]
  <2>1. EmptyTimeline \in Timeline
    BY DEF EmptyTimeline, Timeline
  <2> QED
    BY <1>1, <1>3, <2>1
<1>4. CASE UNCHANGED disk
  BY <1>1, <1>4
<1>5. ASSUME NEW s \in Sessions, NEW i \in Intent, RegisterSession(s, i)
      PROVE  disk' \in [Sessions -> Timeline]
  BY <1>1, <1>2, <1>5, ReplayedTimeline DEF RegisterSession
<1>6. ASSUME NEW s \in Sessions, NEW e \in ExpiryTimes, RenewSession(s, e)
      PROVE  disk' \in [Sessions -> Timeline]
  BY <1>1, <1>2, <1>6, ReplayedTimeline DEF RenewSession
<1>7. ASSUME NEW s \in Sessions,
             CloseSession(s) \/ CloseNotPersisted(s) \/ RollbackCancelled(s)
      PROVE  disk' \in [Sessions -> Timeline]
  BY <1>1, <1>2, <1>4, <1>7, ReplayedTimeline
     DEF CloseSession, CloseNotPersisted, RollbackCancelled
<1>8. ASSUME NEW s \in Sessions, NEW c \in Cgroups,
             DiscoverAndTrack(s, c) \/ DiscoverNotPersisted(s, c)
      PROVE  disk' \in [Sessions -> Timeline]
  BY <1>1, <1>2, <1>4, <1>8, ReplayedTimeline DEF DiscoverAndTrack, DiscoverNotPersisted
<1>9. ASSUME NEW t \in Tenants, NEW at \in RetentionTimes,
             ApplyRetention(t, at) \/ RetentionFails(t, at)
      PROVE  disk' \in [Sessions -> Timeline]
  BY <1>3, <1>9 DEF ApplyRetention, RetentionFails
<1> QED
  BY <1>4, <1>5, <1>6, <1>7, <1>8, <1>9
  DEF DaemonNext, CloseCancelled, MarkSessionDegraded, ApplyLate, DaemonTick,
      Crash, Restart

\* A start makes a registry of the timelines that satisfies every invariant
\* of the registry: its replay stands for the registrations and associations.
LEMMA RestartStep ==
  ASSUME RegistryInv, DaemonTypeOK, Restart
  PROVE  RegistryInv'
<1> DEFINE R == Restorable
<1>1. /\ R \in SUBSET Sessions
      /\ \A s \in R : /\ disk[s].intent \in Intent /\ disk[s].cgroup_ids \in SUBSET Cgroups
                      /\ ReplayedActive(disk[s])
      /\ \A s \in Sessions \ R : ~ReplayedActive(disk[s])
  <2>1. \A s \in Sessions : /\ disk[s].intent \in Intent \cup {NoIntent}
                            /\ disk[s].cgroup_ids \in SUBSET Cgroups
    BY DEF DaemonTypeOK, Timeline
  <2> QED
    BY <2>1 DEF Restorable, ReplayedActive
<1> DEFINE claimed == UNION {disk[s].cgroup_ids : s \in R}
<1>2. /\ sessions' = [s \in R |-> [status |-> "Active", intent |-> disk[s].intent,
                                  cgroup_ids |-> disk[s].cgroup_ids]]
      /\ cgroup_index' = [c \in claimed |-> CHOOSE s \in R : c \in disk[s].cgroup_ids]
      /\ pending' = {} /\ pending_count' = 0 /\ now' = now /\ Cardinality(R) <= MaxSessions
  BY DEF Restart, RestoredIndex, FreshPending, ReplayConsistent
<1>3. claimed \in SUBSET Cgroups /\ \A c \in claimed : \E s \in R : c \in disk[s].cgroup_ids
  BY <1>1
<1> HIDE DEF R, claimed
<1>4. /\ DOMAIN cgroup_index' = claimed
      /\ \A c \in claimed : cgroup_index'[c] \in R /\ c \in disk[cgroup_index'[c]].cgroup_ids
  BY <1>2, <1>3
<1>5. TypeOK'
  <2>1. IsMap(sessions', Sessions, SessionState)
    BY <1>1, <1>2 DEF IsMap, SessionState, Status
  <2>2. IsMap(cgroup_index', Cgroups, Sessions)
    BY <1>1, <1>2, <1>3, <1>4 DEF IsMap
  <2> QED
    BY <1>2, <2>1, <2>2 DEF RegistryInv, TypeOK
<1>6. PendingCountExact' /\ NoPendingForRegistered'
  BY <1>2, FS_EmptySet, RegistryAssumption DEF PendingCountExact, NoPendingForRegistered
<1>7. AttributionJustified'
  BY <1>2, <1>4 DEF AttributionJustified, IsActive
<1>8. SessionCapacityRespected'
  BY <1>2 DEF SessionCapacityRespected
<1> QED
  BY <1>5, <1>6, <1>7, <1>8 DEF RegistryInv

\* Every step of the daemon keeps the registry's invariant.
LEMMA RegistryUnderDaemon ==
  ASSUME RegistryInv, DaemonTypeOK, [DaemonNext]_daemonVars
  PROVE  RegistryInv'
<1>1. CASE UNCHANGED daemonVars
  BY <1>1, RegistryKept DEF daemonVars, vars, registryVars
<1>2. CASE DaemonNext
  BY <1>2, RegistryPart, RegistryKept, RestartStep
<1> QED
  BY <1>1, <1>2

\* The daemon's variables keep their types.
LEMMA DaemonTypeStep ==
  ASSUME RegistryInv, DaemonTypeOK, DaemonNext
  PROVE  DaemonTypeOK'
<1>1. TypeOK /\ TypeOK'
  BY RegistryUnderDaemon DEF RegistryInv
<1>3. \A s \in DOMAIN sessions : s \in Sessions /\ sessions[s].cgroup_ids \in SUBSET Cgroups
  BY <1>1 DEF TypeOK, IsMap, SessionState
<1>4. /\ scope \in SUBSET Cgroups /\ late \in SUBSET ScopeRequest
      /\ paused \in SUBSET Sessions /\ lost \in SUBSET Sessions /\ writable \in BOOLEAN /\ up \in BOOLEAN
  BY DEF DaemonTypeOK
<1>5. ScopeRequest = {"track", "untrack"} \X Cgroups
  BY DEF ScopeRequest
<1>6. DOMAIN cgroup_index' \in SUBSET Cgroups
  BY <1>1 DEF TypeOK, IsMap
<1>7. scope' \in SUBSET Cgroups
  BY <1>3, <1>4, <1>5, <1>6
     DEF DaemonNext, RegisterSession, RenewSession, CloseSession, CloseNotPersisted,
         CloseCancelled, RollbackCancelled, ApplyRetention, RetentionFails,
         DiscoverAndTrack, DiscoverNotPersisted, MarkSessionDegraded, ApplyLate,
         DaemonTick, Crash, Restart
<1>8. late' \in SUBSET ScopeRequest
  <2>1. ASSUME NEW s \in DOMAIN sessions
        PROVE  \A c \in sessions[s].cgroup_ids : <<"track", c>> \in ScopeRequest
                                                 /\ <<"untrack", c>> \in ScopeRequest
    BY <1>3, <1>5
  <2>2. ASSUME NEW s \in Sessions, CloseCancelled(s) \/ RollbackCancelled(s)
        PROVE  late' \in SUBSET ScopeRequest
    <3>1. /\ s \in DOMAIN sessions
          /\ \/ late' = late
             \/ \E c \in sessions[s].cgroup_ids :
                  late' = late \cup {<<"track", c>>} \/ late' = late \cup {<<"untrack", c>>}
      BY <2>2 DEF CloseCancelled, RollbackCancelled
    <3>2. ASSUME NEW r \in ScopeRequest, late' = late \cup {r} PROVE late' \in SUBSET ScopeRequest
      BY <1>4, <3>2
    <3> QED
      BY <1>4, <2>1, <3>1, <3>2
  <2>3. ASSUME NEW s \in Sessions, MarkSessionDegraded(s)
        PROVE  late' \in SUBSET ScopeRequest
    <3>1. CASE s \in DOMAIN sessions
      <4>1. late' = late \cup {<<"untrack", c>> : c \in sessions[s].cgroup_ids}
        BY <2>3, <3>1 DEF MarkSessionDegraded
      <4>2. {<<"untrack", c>> : c \in sessions[s].cgroup_ids} \in SUBSET ScopeRequest
        BY <2>1, <3>1
      <4> QED
        BY <1>4, <4>1, <4>2
    <3>2. CASE s \notin DOMAIN sessions
      BY <1>4, <2>3, <3>2 DEF MarkSessionDegraded
    <3> QED
      BY <3>1, <3>2
  <2>4. CASE late' \in SUBSET late
    BY <1>4, <2>4
  <2> QED
    BY <2>2, <2>3, <2>4
     DEF DaemonNext, RegisterSession, RenewSession, CloseSession, CloseNotPersisted,
         ApplyRetention, RetentionFails, DiscoverAndTrack, DiscoverNotPersisted,
         ApplyLate, DaemonTick, Crash, Restart
<1>9. /\ paused' \in SUBSET Sessions /\ lost' \in SUBSET Sessions
      /\ writable' \in BOOLEAN /\ up' \in BOOLEAN
  <2>1. \A t, at : Purgeable(t, at) \subseteq DOMAIN sessions
    BY DEF Purgeable
  <2> QED
    BY <1>3, <1>4, <2>1
     DEF DaemonNext, RegisterSession, RenewSession, CloseSession, CloseNotPersisted,
         CloseCancelled, RollbackCancelled, ApplyRetention, RetentionFails,
         DiscoverAndTrack, DiscoverNotPersisted, MarkSessionDegraded, ApplyLate,
         DaemonTick, Crash, Restart, Persisted, PersistFailed
<1> QED
  BY <1>1, <1>7, <1>8, <1>9, TimelinesStep DEF DaemonTypeOK

\* What an operation of the registry may do to the status of a session.
LEMMA FinishedStep ==
  ASSUME RegistryInv, DaemonTypeOK, Finished, DaemonNext
  PROVE  Finished'
<1>1. \A s \in DOMAIN sessions : sessions[s] \in SessionState
  BY DEF RegistryInv, TypeOK, IsMap
<1>2. ASSUME NEW s \in Sessions, NEW i \in Intent, RegisterSession(s, i) PROVE Finished'
  <2>1. CASE Register(s, i)
    <3>1. /\ DOMAIN sessions' = DOMAIN sessions \cup {s} /\ sessions'[s].status = "Active"
          /\ \A t \in DOMAIN sessions \ {s} : sessions'[t] = sessions[t]
      BY <2>1 DEF Register
    <3> QED
      BY <1>2, <3>1 DEF RegisterSession, Finished
  <2> QED
    BY <1>2, <2>1 DEF RegisterSession, Finished, registryVars
<1>3. ASSUME NEW s \in Sessions, NEW e \in ExpiryTimes, RenewSession(s, e) PROVE Finished'
  <2>1. CASE Renew(s, e)
    <3>1. /\ DOMAIN sessions' = DOMAIN sessions
          /\ \A t \in DOMAIN sessions : sessions'[t].status \in {sessions[t].status, "Active"}
      BY <1>1, <2>1 DEF Renew, RenewAccepted, SessionState
    <3> QED
      BY <1>3, <3>1 DEF RenewSession, Finished
  <2> QED
    BY <1>3, <2>1 DEF RenewSession, Finished, registryVars
<1>4. ASSUME NEW s \in Sessions, CloseSession(s) PROVE Finished'
  <2>1. /\ DOMAIN sessions' = DOMAIN sessions
        /\ \A t \in DOMAIN sessions : sessions'[t].status \in {sessions[t].status, "Closed"}
    BY <1>1, <1>4 DEF CloseSession, Close, Deactivate, SessionState
  <2> QED
    BY <1>4, <2>1 DEF CloseSession, Finished
<1>5. ASSUME NEW t \in Tenants, NEW at \in RetentionTimes, ApplyRetention(t, at) PROVE Finished'
  <2>1. PICK purged : /\ paused' = paused \ purged
                      /\ sessions' = [s \in DOMAIN sessions \ purged |-> sessions[s]]
    BY <1>5 DEF ApplyRetention, ApplyRetentionForTenant
  <2> QED
    BY <2>1 DEF Finished
<1>6. ASSUME NEW s \in Sessions, NEW c \in Cgroups, DiscoverAndTrack(s, c) PROVE Finished'
  <2>1. /\ DOMAIN sessions' = DOMAIN sessions
        /\ \A t \in DOMAIN sessions : sessions'[t].status = sessions[t].status
    <3>1. AssociateCgroup(s, c) \/ UNCHANGED sessions
      BY <1>6
         DEF DiscoverAndTrack, DiscoverCgroup, DiscoverPending, registryVars
    <3>2. CASE AssociateCgroup(s, c)
      BY <1>1, <3>2 DEF AssociateCgroup, SessionState
    <3> QED
      BY <3>1, <3>2
  <2> QED
    BY <1>6, <2>1 DEF DiscoverAndTrack, Finished
<1>7. ASSUME NEW s \in Sessions, MarkSessionDegraded(s) PROVE Finished'
  <2>1. CASE Degrade(s)
    <3>1. /\ DOMAIN sessions' = DOMAIN sessions /\ sessions'[s].status = "Degraded"
          /\ \A t \in DOMAIN sessions \ {s} : sessions'[t] = sessions[t]
      BY <1>1, <2>1 DEF Degrade, Deactivate, SessionState
    <3> QED
      BY <1>7, <3>1 DEF MarkSessionDegraded, Finished
  <2> QED
    BY <1>7, <2>1 DEF MarkSessionDegraded, Finished, registryVars
<1>8. CASE Restart
  BY <1>8 DEF Restart, Finished
<1>9. CASE UNCHANGED <<sessions, paused>>
  BY <1>9 DEF Finished
<1> QED
  BY <1>2, <1>3, <1>4, <1>5, <1>6, <1>7, <1>8, <1>9
  DEF DaemonNext, CloseNotPersisted, CloseCancelled, RollbackCancelled,
      RetentionFails, DiscoverNotPersisted, ApplyLate, DaemonTick,
      Tick, registryVars, Crash, registryVars

\* What one session contributes to the agreement.
Agrees(s) ==
  IF s \in DOMAIN sessions
    THEN s \notin paused \cup lost =>
           /\ IsActive(s) => disk[s].intent = sessions[s].intent /\ ~disk[s].closed
           /\ sessions[s].status = "Closed" => disk[s].closed
    ELSE ~ReplayedActive(disk[s])

\* The sessions agree one by one.
LEMMA AgreeOneByOne ==
  ASSUME DOMAIN sessions \subseteq Sessions
  PROVE  TimelinesAgree <=> \A s \in Sessions : Agrees(s)
  BY DEF TimelinesAgree, Agrees

\* A step that moves neither a session nor its timeline keeps its agreement.
LEMMA AgreesKept ==
  ASSUME NEW s \in Sessions, Agrees(s), sessions' = sessions, disk'[s].intent = disk[s].intent,
         disk'[s].closed = disk[s].closed, now' = now, paused \subseteq paused', lost \subseteq lost'
  PROVE  Agrees(s)'
  BY DEF Agrees, IsActive, ReplayedActive

\* Every step that leaves the storage writable keeps the agreement: the record
\* is on file before the registry is published.
LEMMA AgreementStep ==
  ASSUME DaemonInv, DaemonNext, up', writable'
  PROVE  TimelinesAgree'
<1>1. /\ TypeOK /\ TypeOK' /\ Finished /\ disk \in [Sessions -> Timeline]
      /\ DOMAIN sessions \subseteq Sessions /\ DOMAIN sessions' \subseteq Sessions
      /\ \A s \in DOMAIN sessions : sessions[s] \in SessionState
  BY RegistryUnderDaemon DEF DaemonInv, RegistryInv, TypeOK, IsMap, DaemonTypeOK
<1>2. up /\ writable => \A s \in Sessions : Agrees(s)
  BY <1>1, AgreeOneByOne DEF DaemonInv
<1>3. SUFFICES \A s \in Sessions : Agrees(s)'
  BY <1>1 DEF TimelinesAgree, Agrees
<1>4. SUFFICES ASSUME NEW r \in Sessions PROVE Agrees(r)'
  OBVIOUS
<1>5. NoIntent \notin Intent
  BY NoIntentAssumption
<1>6. \A s \in Sessions : \A d : ~PersistFailed(s, d)
  BY DEF PersistFailed
<1>7. ASSUME up, writable, UNCHANGED <<sessions, now>>, \A s \in Sessions : disk'[s] = disk[s],
             paused \subseteq paused', lost \subseteq lost'
      PROVE  Agrees(r)'
  BY <1>2, <1>7, AgreesKept
<1>8. ASSUME NEW s \in Sessions, NEW i \in Intent, RegisterSession(s, i) PROVE Agrees(r)'
  <2>1. /\ Register(s, i) /\ Persisted(s, IntentRegistered(disk[s], i))
        /\ up /\ UNCHANGED <<paused, lost>>
    BY <1>6, <1>8 DEF RegisterSession
  <2>2. /\ DOMAIN sessions' = DOMAIN sessions \cup {s}
        /\ sessions'[s].status = "Active" /\ sessions'[s].intent = i /\ now' = now
        /\ \A t \in DOMAIN sessions \ {s} : sessions'[t] = sessions[t]
    BY <2>1 DEF Register
  <2>3. /\ writable /\ disk'[s] = IntentRegistered(disk[s], i)
        /\ \A t \in Sessions \ {s} : disk'[t] = disk[t]
    BY <1>1, <2>1 DEF Persisted
  <2>4. disk'[s].intent = i /\ ~disk'[s].closed
    BY <2>3 DEF IntentRegistered
  <2>5. CASE r = s
    BY <2>2, <2>4, <2>5 DEF Agrees
  <2>6. CASE r # s
    BY <1>2, <2>1, <2>2, <2>3, <2>6 DEF Agrees, IsActive, ReplayedActive
  <2> QED
    BY <2>5, <2>6
<1>9. ASSUME NEW s \in Sessions, NEW e \in ExpiryTimes, RenewSession(s, e) PROVE Agrees(r)'
  <2>1. /\ Renew(s, e) /\ Persisted(s, IntentRenewed(disk[s], e))
        /\ up /\ UNCHANGED <<paused, lost>>
    BY <1>6, <1>9 DEF RenewSession
  <2>2. /\ s \in DOMAIN sessions /\ DOMAIN sessions' = DOMAIN sessions /\ now' = now
        /\ sessions'[s].status = "Active" /\ sessions'[s].intent = [sessions[s].intent EXCEPT !.expires = e]
        /\ \A t \in DOMAIN sessions \ {s} : sessions'[t] = sessions[t]
        /\ sessions[s].status # "Closed"
    BY <1>1, <2>1 DEF Renew, RenewAccepted, SessionState, Intent
  <2>3. /\ writable /\ disk'[s] = IntentRenewed(disk[s], e)
        /\ \A t \in Sessions \ {s} : disk'[t] = disk[t]
    BY <1>1, <2>1 DEF Persisted
  <2>4. CASE r = s
    <3>1. SUFFICES ASSUME s \notin paused \cup lost
                   PROVE  disk'[s].intent = sessions'[s].intent /\ ~disk'[s].closed
      BY <2>1, <2>2, <2>4 DEF Agrees
    <3>2. sessions[s].status = "Active"
      BY <1>1, <2>2, <3>1 DEF Finished, SessionState, Status
    <3>3. disk[s].intent = sessions[s].intent /\ ~disk[s].closed
      BY <1>2, <2>1, <2>2, <2>3, <3>1, <3>2 DEF Agrees, IsActive
    <3>4. disk[s].intent # NoIntent /\ disk[s] \in Timeline
      BY <1>1, <1>5, <2>2, <3>3 DEF SessionState
    <3> QED
      BY <2>2, <2>3, <3>3, <3>4 DEF IntentRenewed, Timeline
  <2>5. CASE r # s
    BY <1>2, <2>1, <2>2, <2>3, <2>5 DEF Agrees, IsActive, ReplayedActive
  <2> QED
    BY <2>4, <2>5
<1>10. ASSUME NEW s \in Sessions, CloseSession(s) PROVE Agrees(r)'
  <2>1. /\ Close(s) /\ Persisted(s, SessionClosed(disk[s]))
        /\ up /\ UNCHANGED <<paused, lost>>
    BY <1>10 DEF CloseSession
  <2>2. /\ s \in DOMAIN sessions /\ DOMAIN sessions' = DOMAIN sessions /\ now' = now
        /\ sessions'[s].status = "Closed"
        /\ \A t \in DOMAIN sessions \ {s} : sessions'[t] = sessions[t]
    BY <1>1, <2>1 DEF Close, Deactivate, SessionState
  <2>3. /\ writable /\ disk'[s].closed
        /\ \A t \in Sessions \ {s} : disk'[t] = disk[t]
    BY <1>1, <2>1, ReplayedTimeline DEF Persisted
  <2> QED
    BY <1>2, <2>1, <2>2, <2>3 DEF Agrees, IsActive, ReplayedActive
<1>11. ASSUME NEW t \in Tenants, NEW at \in RetentionTimes, ApplyRetention(t, at) PROVE Agrees(r)'
  <2>1. PICK purged \in SUBSET DOMAIN sessions :
          /\ sessions' = [s \in DOMAIN sessions \ purged |-> sessions[s]] /\ now' = now
          /\ disk' = [s \in Sessions |-> IF s \in purged THEN EmptyTimeline ELSE disk[s]]
          /\ paused' = paused \ purged /\ lost' = lost \ purged /\ up /\ writable' = writable
    BY <1>11, Purgeable(t, at) \in SUBSET DOMAIN sessions
       DEF ApplyRetention, ApplyRetentionForTenant, Purgeable
  <2>2. CASE r \in purged
    BY <1>1, <2>1, <2>2, ReplayedTimeline DEF Agrees, ReplayedActive
  <2>3. CASE r \notin purged
    BY <1>2, <2>1, <2>3 DEF Agrees, IsActive, ReplayedActive
  <2> QED
    BY <2>2, <2>3
<1>12. ASSUME NEW t \in Tenants, NEW at \in RetentionTimes, RetentionFails(t, at) PROVE Agrees(r)'
  <2>1. PICK removed \in SUBSET DOMAIN sessions :
          /\ disk' = [s \in Sessions |-> IF s \in removed THEN EmptyTimeline ELSE disk[s]]
          /\ lost' = lost \cup removed /\ up /\ UNCHANGED <<sessions, now, writable, paused>>
    BY <1>12, Purgeable(t, at) \subseteq DOMAIN sessions
       DEF RetentionFails, Purgeable, registryVars
  <2>2. CASE r \in removed
    BY <2>1, <2>2 DEF Agrees
  <2>3. CASE r \notin removed
    BY <1>2, <2>1, <2>3, AgreesKept
  <2> QED
    BY <2>2, <2>3
<1>13. ASSUME NEW s \in Sessions, NEW c \in Cgroups, DiscoverAndTrack(s, c) PROVE Agrees(r)'
  <2>1. /\ DiscoverCgroup(s, c) \/ UNCHANGED <<sessions, now>>
        /\ Persisted(s, CgroupDiscovered(disk[s], c)) /\ up /\ UNCHANGED <<paused, lost>>
    BY <1>13 DEF DiscoverAndTrack, registryVars
  <2>2. /\ DOMAIN sessions' = DOMAIN sessions /\ now' = now
        /\ \A t \in DOMAIN sessions : /\ sessions'[t].status = sessions[t].status
                                      /\ sessions'[t].intent = sessions[t].intent
    BY <1>1, <2>1 DEF DiscoverCgroup, AssociateCgroup, DiscoverPending, SessionState
  <2>3. /\ writable
        /\ \A t \in Sessions : disk'[t].intent = disk[t].intent /\ disk'[t].closed = disk[t].closed
    <3>1. /\ disk[s] \in Timeline /\ writable
          /\ disk'[s] = CgroupDiscovered(disk[s], c) /\ \A t \in Sessions \ {s} : disk'[t] = disk[t]
      BY <1>1, <2>1 DEF Persisted
    <3>2. disk'[s].intent = disk[s].intent /\ disk'[s].closed = disk[s].closed
      BY <3>1 DEF CgroupDiscovered, Timeline
    <3> QED
      BY <3>1, <3>2
  <2> QED
    BY <1>2, <2>1, <2>2, <2>3 DEF Agrees, IsActive, ReplayedActive
<1>14. ASSUME NEW s \in Sessions, MarkSessionDegraded(s) PROVE Agrees(r)'
  <2>1. /\ up /\ writable /\ paused' = paused \cup {s} /\ UNCHANGED <<disk, lost>>
        /\ Degrade(s) \/ UNCHANGED <<sessions, now>>
    BY <1>14 DEF MarkSessionDegraded, registryVars
  <2>2. /\ DOMAIN sessions' = DOMAIN sessions /\ now' = now
        /\ \A t \in DOMAIN sessions \ {s} : sessions'[t] = sessions[t]
    BY <1>1, <2>1 DEF Degrade, Deactivate
  <2> QED
    BY <1>2, <2>1, <2>2 DEF Agrees, IsActive, ReplayedActive
<1>15. CASE DaemonTick
  <2>1. /\ now \in Nat /\ now' = now + 1 /\ UNCHANGED <<sessions, disk, paused, lost, up, writable>>
    <3>1. Tick /\ UNCHANGED <<disk, paused, lost, up, writable>>
      BY <1>15 DEF DaemonTick
    <3>2. now \in Nat
      BY <1>1, RegistryAssumption DEF TypeOK
    <3>3. now' = now + 1 /\ UNCHANGED sessions
      BY <3>1 DEF Tick, registryVars
    <3> QED
      BY <3>1, <3>2, <3>3
  <2>2. disk[r].intent # NoIntent => disk[r].intent.expires \in Nat
    BY <1>1, RegistryAssumption DEF Timeline, Intent, ExpiryTimes
  <2>3. ReplayedActive(disk[r])' => ReplayedActive(disk[r])
    BY <2>1, <2>2 DEF ReplayedActive
  <2> QED
    BY <1>2, <2>1, <2>3 DEF Agrees, IsActive
<1>16. CASE Restart
  <2>1. /\ sessions' = [s \in Restorable |->
               [status |-> "Active", intent |-> disk[s].intent, cgroup_ids |-> disk[s].cgroup_ids]]
        /\ UNCHANGED <<now, disk>>
    BY <1>16 DEF Restart
  <2>2. r \in Restorable <=> ReplayedActive(disk[r])
    BY DEF Restorable
  <2> QED
    BY <2>1, <2>2 DEF Agrees, IsActive, ReplayedActive
<1>17. CASE /\ UNCHANGED <<disk, sessions, now, paused, lost, up, writable>>
  BY <1>7, <1>17
<1>18. ASSUME NEW s \in Sessions, RollbackCancelled(s)
       PROVE  UNCHANGED <<disk, sessions, now, paused, lost, up, writable>>
  BY <1>6, <1>18 DEF RollbackCancelled, registryVars
<1>19. ASSUME NEW s \in Sessions, NEW c \in Cgroups, DiscoverNotPersisted(s, c)
       PROVE  UNCHANGED <<disk, sessions, now, paused, lost, up, writable>>
  BY <1>6, <1>19 DEF DiscoverNotPersisted, registryVars
<1> QED
  BY <1>6, <1>8, <1>9, <1>10, <1>11, <1>12, <1>13, <1>14, <1>15, <1>16, <1>17, <1>18, <1>19
  DEF DaemonNext, CloseNotPersisted, CloseCancelled, ApplyLate, Crash,
      registryVars

\* The inductive invariant of the daemon's state: types, the registry's own
\* invariant, and the agreement of registry and timelines while it is owed.
LEMMA DaemonInvariant == DaemonSpec => []DaemonInv
<1>1. DaemonInit => DaemonInv
  <2> SUFFICES ASSUME DaemonInit PROVE DaemonInv
    OBVIOUS
  <2>1. Init /\ sessions = EmptyMap
    BY DEF DaemonInit, Init
  <2>2. RegistryInv
    BY <2>1, RegistryInitially
  <2>3. DaemonTypeOK
    BY <2>2 DEF DaemonInit, DaemonTypeOK, RegistryInv, EmptyTimeline, Timeline
  <2>4. DOMAIN sessions = {}
    BY <2>1 DEF EmptyMap
  <2> QED
    BY <2>2, <2>3, <2>4
    DEF DaemonInit, DaemonInv, Finished, TimelinesAgree, ReplayedActive, EmptyTimeline
<1>2. DaemonInv /\ [DaemonNext]_daemonVars => DaemonInv'
  <2> SUFFICES ASSUME DaemonInv, [DaemonNext]_daemonVars PROVE DaemonInv'
    OBVIOUS
  <2>1. RegistryInv'
    BY RegistryUnderDaemon DEF DaemonInv
  <2>2. CASE DaemonNext
    BY <2>1, <2>2, DaemonTypeStep, FinishedStep, AgreementStep DEF DaemonInv
  <2>3. CASE UNCHANGED daemonVars
    <3>1. UNCHANGED <<now, sessions, cgroup_index, pending, pending_count>>
          /\ UNCHANGED <<disk, scope, late, paused, writable, up, lost>>
      BY <2>3 DEF daemonVars, registryVars
    <3>2. TypeOK'
      BY <2>1 DEF RegistryInv
    <3>3. DaemonTypeOK'
      BY <3>1, <3>2 DEF DaemonInv, DaemonTypeOK
    <3>4. Finished' /\ (up' /\ writable' => TimelinesAgree')
      BY <3>1 DEF DaemonInv, Finished, TimelinesAgree, IsActive, ReplayedActive
    <3> QED
      BY <2>1, <3>3, <3>4 DEF DaemonInv
  <2> QED
    BY <2>2, <2>3
<1> QED
  BY <1>1, <1>2, PTL DEF DaemonSpec

\* The daemon's variables keep their types across failed operations, crashes
\* and replays (state.rs).
THEOREM DaemonTypeCorrect == DaemonSpec => []DaemonTypeOK
BY DaemonInvariant, PTL DEF DaemonInv

\* While the storage accepts writes, what a restart would replay is what the
\* registry holds: every live session with the intent in force, no closed one,
\* and no session the registry does not know (persist before publish, and
\* replay_active_session).
THEOREM DiskSound == DaemonSpec => []RegistryMatchesDisk
<1>1. DaemonInv => RegistryMatchesDisk
  BY DEF DaemonInv, TimelinesAgree, RegistryMatchesDisk, ReplayedActive
<1> QED
  BY <1>1, DaemonInvariant, PTL

\* Attribution stays justified in the composition: neither a half-failed
\* operation nor a registry rebuilt from the timelines attributes an event to
\* a session that is not there to account for it.
THEOREM RestartAttributionSound == DaemonSpec => []AttributionAcrossRestarts
<1>1. DaemonInv => AttributionAcrossRestarts
  BY DEF DaemonInv, RegistryInv, AttributionAcrossRestarts
<1> QED
  BY <1>1, DaemonInvariant, PTL
=============================================================================
