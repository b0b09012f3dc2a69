-------------------------- MODULE SessionRegistry --------------------------
(***************************************************************************)
(* The accountability session registry (apolysis-accountability,           *)
(* session.rs): which sessions exist, which runtime cgroups each one       *)
(* claims, which session each cgroup is attributed to, and the marked      *)
(* workloads that wait for an intent.                                      *)
(*                                                                         *)
(* Every daemon operation works on a clone of the registry and publishes   *)
(* it only when the operation succeeds, so an action below is the          *)
(* successful call; a call the registry refuses leaves no trace and is a   *)
(* stuttering step.  The BTreeMaps are functions with a finite domain; the *)
(* pending map is the set of its (session, cgroup) pairs.                  *)
(***************************************************************************)
EXTENDS Naturals, FiniteSets

CONSTANTS
  Sessions,      \* session identifiers
  Cgroups,       \* cgroup identifiers reported by the runtime adapters
  Tenants,       \* tenant identifiers
  Windows,       \* retention windows of the retention tiers, in clock ticks
  MaxSessions,   \* config.max_sessions
  MaxPending,    \* config.max_pending
  MaxTime        \* bound on the clock; an expiry is at most one tick later

ASSUME RegistryAssumption ==
  /\ IsFiniteSet(Sessions)
  /\ IsFiniteSet(Cgroups)
  /\ Windows \subseteq Nat
  /\ MaxSessions \in Nat
  /\ MaxPending \in Nat
  /\ MaxTime \in Nat

VARIABLES
  now,            \* the clock reading the daemon passes to every operation
  sessions,       \* session id -> SessionState
  cgroup_index,   \* cgroup id -> the session its events are attributed to
  pending,        \* (session, cgroup) pairs discovered before an intent
  pending_count   \* the counter compared with MaxPending

registryVars == <<sessions, cgroup_index, pending, pending_count>>
vars == <<now, registryVars>>

Status == {"Active", "Expired", "Closed", "Degraded"}

ExpiryTimes == 0..(MaxTime + 1)

Intent == [expires : ExpiryTimes, tenant : Tenants, window : Windows]

SessionState ==
  [status : Status, intent : Intent, cgroup_ids : SUBSET Cgroups]

EmptyMap == [x \in {} |-> x]

\* f is a map with keys in D and values in R.
IsMap(f, D, R) == DOMAIN f \subseteq D /\ f \in [DOMAIN f -> R]

TypeOK ==
  /\ now \in 0..MaxTime
  /\ IsMap(sessions, Sessions, SessionState)
  /\ IsMap(cgroup_index, Cgroups, Sessions)
  /\ pending \subseteq Sessions \X Cgroups
  /\ pending_count \in Nat
-----------------------------------------------------------------------------
(***************************************************************************)
(* What the operations ask and compute.                                    *)
(***************************************************************************)
PendingOf(s) == {c \in Cgroups : <<s, c>> \in pending}

\* Mutant: the conflict test is missing.
Available_Always(s, c) == TRUE

\* ensure_cgroup_available: nobody else holds the cgroup.
Available(s, c) == c \in DOMAIN cgroup_index => cgroup_index[c] = s

\* The registry's mapping with the cgroups in cs attributed to s.
IndexWith(s, cs) ==
  [c \in DOMAIN cgroup_index \cup cs |-> IF c \in cs THEN s ELSE cgroup_index[c]]

\* Mutant: the index entries stay behind.
IndexWithout_Kept(cs) == cgroup_index

\* The mapping after cgroup_index.remove for every cgroup in cs, whoever
\* each one is attributed to.
IndexWithout(cs) == [c \in DOMAIN cgroup_index \ cs |-> cgroup_index[c]]

IsActive(s) == s \in DOMAIN sessions /\ sessions[s].status = "Active"

\* Mutant: retention starts at the expiry, whatever the tier's window.
RetentionEligible_NoWindow(s, at) ==
  sessions[s].status \in {"Closed", "Expired", "Active"} /\ sessions[s].intent.expires <= at

RetentionEnd(s) == sessions[s].intent.expires + sessions[s].intent.window

\* at is the time the caller names, which need not be the clock's.
RetentionEligible(s, at) ==
  /\ \/ sessions[s].status \in {"Closed", "Expired"}
     \/ sessions[s].status = "Active" /\ sessions[s].intent.expires <= at
  /\ RetentionEnd(s) <= at

Purgeable(t, at) ==
  {s \in DOMAIN sessions : sessions[s].intent.tenant = t /\ RetentionEligible(s, at)}

\* The times that tell two requests apart.
RetentionTimes == {e + w : e \in ExpiryTimes, w \in Windows}
-----------------------------------------------------------------------------
Init ==
  /\ now = 0
  /\ sessions = EmptyMap
  /\ cgroup_index = EmptyMap
  /\ pending = {}
  /\ pending_count = 0

\* register: a fresh session or the replacement of an existing one, which
\* becomes Active again and keeps the cgroups it listed; the cgroups that
\* waited for the intent are attached.
RegisterAccepted(s, intent) ==
  /\ intent.expires > now
  /\ s \in DOMAIN sessions \/ Cardinality(DOMAIN sessions) < MaxSessions
  /\ \A c \in PendingOf(s) : Available(s, c)

Register(s, intent) ==
  LET waiting == PendingOf(s)
      kept    == IF s \in DOMAIN sessions THEN sessions[s].cgroup_ids ELSE {}
      state   == [status |-> "Active", intent |-> intent, cgroup_ids |-> kept \cup waiting]
  IN /\ RegisterAccepted(s, intent)
     /\ sessions' = [t \in DOMAIN sessions \cup {s} |->
                       IF t = s THEN state ELSE sessions[t]]
     /\ cgroup_index' = IndexWith(s, waiting)
     /\ pending' = pending \ ({s} \X waiting)
     /\ pending_count' = pending_count - Cardinality(waiting)
     /\ UNCHANGED now

\* renew: everything but a Closed session becomes Active again.
RenewAccepted(s, expires) ==
  /\ expires > now
  /\ s \in DOMAIN sessions
  /\ sessions[s].status # "Closed"

Renew(s, expires) ==
  /\ RenewAccepted(s, expires)
  /\ sessions' = [sessions EXCEPT ![s].status = "Active", ![s].intent.expires = expires]
  /\ UNCHANGED <<now, cgroup_index, pending, pending_count>>

\* deactivate: the session keeps its cgroup list as diagnostic state, the
\* index forgets every cgroup on it.
Deactivate(s, status) ==
  /\ s \in DOMAIN sessions
  /\ sessions' = [sessions EXCEPT ![s].status = status]
  /\ cgroup_index' = IndexWithout(sessions[s].cgroup_ids)
  /\ UNCHANGED <<now, pending, pending_count>>

Close(s) == Deactivate(s, "Closed")

Degrade(s) == Deactivate(s, "Degraded")

\* expire: deactivates every Active session whose time has come.
Expire ==
  LET due == {s \in DOMAIN sessions : IsActive(s) /\ sessions[s].intent.expires <= now}
  IN /\ due # {}
     /\ sessions' = [s \in DOMAIN sessions |->
                       IF s \in due THEN [sessions[s] EXCEPT !.status = "Expired"]
                                    ELSE sessions[s]]
     /\ cgroup_index' = IndexWithout(UNION {sessions[s].cgroup_ids : s \in due})
     /\ UNCHANGED <<now, pending, pending_count>>

\* associate_cgroup, and discover_cgroup of a registered session.
AssociateCgroup(s, c) ==
  /\ IsActive(s)
  /\ Available(s, c)
  /\ sessions' = [sessions EXCEPT ![s].cgroup_ids = @ \cup {c}]
  /\ cgroup_index' = IndexWith(s, {c})
  /\ UNCHANGED <<now, pending, pending_count>>

\* Mutant: a pair that waits already is counted again.
DiscoverPending_Recounted(s, c) ==
  /\ s \notin DOMAIN sessions
  /\ Available(s, c)
  /\ pending_count < MaxPending
  /\ pending' = pending \cup {<<s, c>>}
  /\ pending_count' = pending_count + 1
  /\ cgroup_index' = IndexWith(s, {c})
  /\ UNCHANGED <<now, sessions>>

\* discover_cgroup of a session nobody registered: the workload waits for
\* its intent.  A pair that already waits changes nothing, not even an
\* index entry it has lost.
DiscoverPending(s, c) ==
  /\ s \notin DOMAIN sessions
  /\ Available(s, c)
  /\ pending_count < MaxPending
  /\ <<s, c>> \notin pending
  /\ pending' = pending \cup {<<s, c>>}
  /\ pending_count' = pending_count + 1
  /\ cgroup_index' = IndexWith(s, {c})
  /\ UNCHANGED <<now, sessions>>

DiscoverCgroup(s, c) == AssociateCgroup(s, c) \/ DiscoverPending(s, c)

\* apply_retention_for_tenant: forgets the tenant's sessions whose window
\* has passed and every index entry for a cgroup they list.
ApplyRetentionForTenant(t, at) ==
  LET purged == Purgeable(t, at)
  IN /\ purged # {}
     /\ sessions' = [s \in DOMAIN sessions \ purged |-> sessions[s]]
     /\ cgroup_index' = IndexWithout(UNION {sessions[s].cgroup_ids : s \in purged})
     /\ UNCHANGED <<now, pending, pending_count>>

\* The wall clock.
Tick ==
  /\ now < MaxTime
  /\ now' = now + 1
  /\ UNCHANGED registryVars

Next ==
  \/ \E s \in Sessions, i \in Intent : Register(s, i)
  \/ \E s \in Sessions, e \in ExpiryTimes : Renew(s, e)
  \/ \E s \in Sessions : Close(s)
  \/ \E s \in Sessions : Degrade(s)
  \/ Expire
  \/ \E s \in Sessions, c \in Cgroups : DiscoverCgroup(s, c)
  \/ \E t \in Tenants, at \in RetentionTimes : ApplyRetentionForTenant(t, at)
  \/ Tick

Spec == Init /\ [][Next]_vars
-----------------------------------------------------------------------------
(***************************************************************************)
(* Properties.                                                             *)
(***************************************************************************)

\* Attribution is always justified: the session a cgroup's events go to is
\* either an Active session that lists the cgroup or an unregistered one the
\* cgroup waits for.  A closed, expired, degraded or purged session never
\* receives events, although deactivate, expire and apply_retention work
\* from the session's own list and not from the index.
AttributionJustified ==
  \A c \in DOMAIN cgroup_index :
    \/ IsActive(cgroup_index[c]) /\ c \in sessions[cgroup_index[c]].cgroup_ids
    \/ <<cgroup_index[c], c>> \in pending

\* The pending counter register subtracts from without a check never goes
\* out of step with the pairs that wait, so it cannot underflow, and it stays
\* within the configured capacity.
PendingCountExact ==
  /\ pending_count = Cardinality(pending)
  /\ pending_count <= MaxPending

\* A session that has an intent has no workload waiting for one.
NoPendingForRegistered ==
  \A p \in pending : p[1] \notin DOMAIN sessions

\* The number of sessions held, whatever their status, respects the
\* configured capacity, although replacement skips the capacity test.
SessionCapacityRespected == Cardinality(DOMAIN sessions) <= MaxSessions

\* No operation moves a cgroup from one session to another: it is released
\* in one step and claimed in a later one (ensure_cgroup_available).
NoOwnershipTransfer ==
  [][\A c \in DOMAIN cgroup_index \cap DOMAIN cgroup_index' :
       cgroup_index'[c] = cgroup_index[c]]_vars

\* Sessions are forgotten in the order their retention ends: when one goes, no
\* finished session of its tenant that was due before it stays behind,
\* whatever time the request names and whatever renewals moved the expiry;
\* and a degraded session, whose evidence is incomplete, is never forgotten.
ForgottenInOrder ==
  [][\A s \in DOMAIN sessions \ DOMAIN sessions' :
       /\ sessions[s].status # "Degraded"
       /\ \A r \in DOMAIN sessions \cap DOMAIN sessions' :
            (/\ sessions[r].intent.tenant = sessions[s].intent.tenant
             /\ sessions[r].status \in {"Closed", "Expired"})
               => RetentionEnd(r) > RetentionEnd(s)]_vars
=============================================================================
