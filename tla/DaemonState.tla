---------------------------- MODULE DaemonState ----------------------------
(***************************************************************************)
(* The daemon's state (apolysis-daemon, state.rs): the session registry,   *)
(* the timelines that make it survive a restart, and the kernel's set of   *)
(* tracked cgroups, kept in step by operations that can fail half-way.     *)
(*                                                                         *)
(* An operation holds the registry's write lock from its first read to the *)
(* publication of the changed clone, so it is one action, in the variants  *)
(* its awaits and errors give it: it completes, its record is not          *)
(* persisted, or the request timeout drops it at an await.  What the       *)
(* observer does later, with no lock held, is in the variable late.        *)
(*                                                                         *)
(* The registry's actions are conjoined with what happens to the rest of   *)
(* the state.                                                              *)
(*                                                                         *)
(* A timeline is represented by the state replay_active_session's loop     *)
(* reaches over its records: a record is appended by applying the loop's   *)
(* body to it.                                                             *)
(***************************************************************************)
EXTENDS SessionRegistry

CONSTANTS
  NoIntent,      \* no intent_registered record yet
  Disturbances   \* what may go wrong in this instance, besides failed writes
                 \* of control records and crashes

\* No registration carries what an empty timeline is read as.
ASSUME NoIntentAssumption == NoIntent \notin Intent

\* A request dropped by its timeout, an event that cannot be written, a
\* directory that cannot be removed.
ASSUME DaemonAssumption == Disturbances \subseteq {"cancel", "degrade", "purge_error"}

VARIABLES
  disk,       \* session -> its timeline, replayed
  scope,      \* the cgroups in APOLYSIS_TRACKED_CGROUPS
  late,       \* scope requests whose sender holds no lock: the untracks that
              \* follow a degrade, the last request of a cancelled close
  paused,     \* paused_sessions
  writable,   \* storage_writable
  up,         \* the process runs
  lost        \* history: sessions whose timeline a failed purge removed

daemonVars == <<now, registryVars, disk, scope, late, paused, writable, up, lost>>

Timeline ==
  [intent : Intent \cup {NoIntent}, cgroup_ids : SUBSET Cgroups, closed : BOOLEAN]

EmptyTimeline == [intent |-> NoIntent, cgroup_ids |-> {}, closed |-> FALSE]

ScopeRequest == {"track", "untrack"} \X Cgroups

DaemonTypeOK ==
  /\ TypeOK
  /\ disk \in [Sessions -> Timeline]
  /\ scope \subseteq Cgroups
  /\ late \subseteq ScopeRequest
  /\ paused \subseteq Sessions
  /\ writable \in BOOLEAN
  /\ up \in BOOLEAN
  /\ lost \subseteq Sessions

DaemonInit ==
  /\ Init
  /\ disk = [s \in Sessions |-> EmptyTimeline]
  /\ scope = {}
  /\ late = {}
  /\ paused = {}
  /\ writable = TRUE
  /\ up = TRUE
  /\ lost = {}
-----------------------------------------------------------------------------
(***************************************************************************)
(* The body of replay_active_session, one operator per record type, and    *)
(* its result.                                                             *)
(***************************************************************************)
\* Mutant: the loop does not reopen a session that registers again.
IntentRegistered_StaysClosed(d, intent) ==
  [intent |-> intent, cgroup_ids |-> IF d.closed THEN {} ELSE d.cgroup_ids, closed |-> d.closed]

IntentRegistered(d, intent) ==
  [intent |-> intent, cgroup_ids |-> IF d.closed THEN {} ELSE d.cgroup_ids, closed |-> FALSE]

IntentRenewed(d, expires) ==
  IF d.intent = NoIntent THEN d ELSE [d EXCEPT !.intent.expires = expires]

CgroupDiscovered(d, c) == [d EXCEPT !.cgroup_ids = @ \cup {c}]

SessionClosed(d) == [d EXCEPT !.closed = TRUE, !.cgroup_ids = {}]

ReplayedActive(d) == d.intent # NoIntent /\ ~d.closed /\ d.intent.expires > now

(***************************************************************************)
(* persist: the record is on file, or it is reported as failed (it may be  *)
(* on file nevertheless) and nothing is written until the next start.      *)
(***************************************************************************)
Persisted(s, d) ==
  /\ writable
  /\ disk' = [disk EXCEPT ![s] = d]
  /\ UNCHANGED writable

PersistFailed(s, d) ==
  /\ writable
  /\ writable' = FALSE
  /\ disk' \in {disk, [disk EXCEPT ![s] = d]}
-----------------------------------------------------------------------------
(***************************************************************************)
(* Operations of the control socket.                                       *)
(***************************************************************************)
RegisterSession(s, intent) ==
  LET d == IntentRegistered(disk[s], intent)
  IN /\ up
     /\ \/ Register(s, intent) /\ Persisted(s, d)
        \/ /\ RegisterAccepted(s, intent)
           /\ PersistFailed(s, d)
           /\ UNCHANGED <<now, registryVars>>
     /\ UNCHANGED <<scope, late, paused, up, lost>>

RenewSession(s, expires) ==
  LET d == IntentRenewed(disk[s], expires)
  IN /\ up
     /\ \/ Renew(s, expires) /\ Persisted(s, d)
        \/ /\ RenewAccepted(s, expires)
           /\ PersistFailed(s, d)
           /\ UNCHANGED <<now, registryVars>>
     /\ UNCHANGED <<scope, late, paused, up, lost>>

\* close removes every cgroup the session lists from the kernel's map first;
\* one that is not in the map makes it roll back and fail.
Closable(s) == s \in DOMAIN sessions /\ sessions[s].cgroup_ids \subseteq scope

CloseSession(s) ==
  /\ up
  /\ Closable(s)
  /\ Close(s)
  /\ Persisted(s, SessionClosed(disk[s]))
  /\ scope' = scope \ sessions[s].cgroup_ids
  /\ UNCHANGED <<late, paused, up, lost>>

CloseNotPersisted(s) ==
  /\ up
  /\ Closable(s)
  /\ PersistFailed(s, SessionClosed(disk[s]))
  /\ UNCHANGED <<now, registryVars, scope, late, paused, up, lost>>

\* The request timeout drops close at an await: some cgroups are out of the
\* map, one request may still be with the observer, nothing is rolled back.
CloseCancelled(s) ==
  /\ "cancel" \in Disturbances
  /\ up
  /\ s \in DOMAIN sessions
  /\ \E removed \in SUBSET (sessions[s].cgroup_ids \cap scope) :
       /\ scope' = scope \ removed
       /\ \/ UNCHANGED late
          \/ \E c \in sessions[s].cgroup_ids \ removed : late' = late \cup {<<"untrack", c>>}
  /\ UNCHANGED <<now, registryVars, disk, paused, writable, up, lost>>

\* The same while close puts cgroups back, after a later one could not be
\* removed or after the record could not be written.
RollbackCancelled(s) ==
  /\ "cancel" \in Disturbances
  /\ up
  /\ s \in DOMAIN sessions
  /\ \/ PersistFailed(s, SessionClosed(disk[s]))
     \/ (~writable \/ ~Closable(s)) /\ UNCHANGED <<disk, writable>>
  /\ \E removed \in SUBSET (sessions[s].cgroup_ids \cap scope) :
       /\ scope' = scope \ removed
       /\ \E c \in removed : late' \in {late, late \cup {<<"track", c>>}}
  /\ UNCHANGED <<now, registryVars, paused, up, lost>>

\* apply_retention: the purged sessions' directories are removed, and the
\* registry is published only if that succeeded for all of them.
ApplyRetention(t, at) ==
  LET purged == Purgeable(t, at)
  IN /\ up
     /\ ApplyRetentionForTenant(t, at)
     /\ disk' = [s \in Sessions |-> IF s \in purged THEN EmptyTimeline ELSE disk[s]]
     /\ paused' = paused \ purged
     /\ lost' = lost \ purged
     /\ UNCHANGED <<scope, late, writable, up>>

RetentionFails(t, at) ==
  /\ "purge_error" \in Disturbances
  /\ up
  /\ \E removed \in SUBSET Purgeable(t, at) :
       /\ removed # Purgeable(t, at)
       /\ disk' = [s \in Sessions |-> IF s \in removed THEN EmptyTimeline ELSE disk[s]]
       /\ lost' = lost \cup removed
  /\ UNCHANGED <<now, registryVars, scope, late, paused, writable, up>>
-----------------------------------------------------------------------------
(***************************************************************************)
(* The runtime adapters: discover_cgroup.                                  *)
(***************************************************************************)
AlreadyOwned(s, c) == c \in DOMAIN cgroup_index /\ cgroup_index[c] = s

\* The registry accepts the association.
Discoverable(s, c) ==
  /\ ~AlreadyOwned(s, c)
  /\ Available(s, c)
  /\ \/ IsActive(s)
     \/ s \notin DOMAIN sessions /\ pending_count < MaxPending

DiscoverAndTrack(s, c) ==
  /\ up
  /\ Discoverable(s, c)
  /\ \/ DiscoverCgroup(s, c)
     \/ <<s, c>> \in pending /\ UNCHANGED <<now, registryVars>>
  /\ scope' = scope \cup {c}
  /\ Persisted(s, CgroupDiscovered(disk[s], c))
  /\ UNCHANGED <<late, paused, up, lost>>

DiscoverNotPersisted(s, c) ==
  /\ up
  /\ Discoverable(s, c)
  /\ \/ PersistFailed(s, CgroupDiscovered(disk[s], c))
     \/ ~writable /\ UNCHANGED <<disk, writable>>
  /\ scope' = scope \ {c}
  /\ UNCHANGED <<now, registryVars, late, paused, up, lost>>
-----------------------------------------------------------------------------
(***************************************************************************)
(* The writer task: an event that cannot be written pauses and degrades    *)
(* its session (mark_session_degraded).  The untracks are sent after the   *)
(* registry's lock is released.                                            *)
(***************************************************************************)
MarkSessionDegraded(s) ==
  /\ "degrade" \in Disturbances
  /\ up
  /\ writable
  /\ s \notin paused
  /\ paused' = paused \cup {s}
  /\ IF s \in DOMAIN sessions
       THEN /\ Degrade(s)
            /\ late' = late \cup {<<"untrack", c>> : c \in sessions[s].cgroup_ids}
       ELSE UNCHANGED <<now, registryVars, late>>
  /\ UNCHANGED <<disk, scope, writable, up, lost>>

\* The observer applies a request; an error has nobody to go to.
ApplyLate ==
  /\ up
  /\ \E request \in late :
       /\ scope' = IF request[1] = "track" THEN scope \cup {request[2]} ELSE scope \ {request[2]}
       /\ late' = late \ {request}
  /\ UNCHANGED <<now, registryVars, disk, paused, writable, up, lost>>
-----------------------------------------------------------------------------
DaemonTick == Tick /\ UNCHANGED <<disk, scope, late, paused, writable, up, lost>>

\* The process ends.  The registry is left in the state as the record of what
\* the daemon last knew.
Crash ==
  /\ up
  /\ up' = FALSE
  /\ scope' = {}
  /\ late' = {}
  /\ UNCHANGED <<now, registryVars, disk, paused, writable, lost>>

Restorable == {s \in Sessions : ReplayedActive(disk[s])}

\* The registrations and associations of new_with_scope all succeed.
ReplayConsistent ==
  /\ Cardinality(Restorable) <= MaxSessions
  /\ \A s, t \in Restorable : s # t => disk[s].cgroup_ids \cap disk[t].cgroup_ids = {}

\* Mutant: every timeline's cgroups are claimed, whether or not its session is
\* restored.
RestoredIndex_All ==
  [c \in UNION {disk[s].cgroup_ids : s \in Sessions} |-> CHOOSE s \in Sessions : c \in disk[s].cgroup_ids]

\* Each restored session registers and associates the cgroups of its timeline.
RestoredIndex ==
  [c \in UNION {disk[s].cgroup_ids : s \in Restorable} |->
     CHOOSE s \in Restorable : c \in disk[s].cgroup_ids]

\* The new registry has no waiting workloads.
FreshPending == pending_count' = 0 /\ pending' = {}

\* new_with_scope, and the scope run_observer_runtime starts from.
Restart ==
  /\ ~up
  /\ ReplayConsistent
  /\ sessions' = [s \in Restorable |->
       [status |-> "Active", intent |-> disk[s].intent, cgroup_ids |-> disk[s].cgroup_ids]]
  /\ cgroup_index' = RestoredIndex
  /\ FreshPending
  /\ scope' = DOMAIN cgroup_index'
  /\ paused' = {}
  /\ writable' = TRUE
  /\ up' = TRUE
  /\ lost' = {}
  /\ UNCHANGED <<now, disk, late>>

DaemonNext ==
  \/ \E s \in Sessions, i \in Intent : RegisterSession(s, i)
  \/ \E s \in Sessions, e \in ExpiryTimes : RenewSession(s, e)
  \/ \E s \in Sessions : CloseSession(s) \/ CloseNotPersisted(s) \/ CloseCancelled(s) \/ RollbackCancelled(s)
  \/ \E t \in Tenants, at \in RetentionTimes : ApplyRetention(t, at) \/ RetentionFails(t, at)
  \/ \E s \in Sessions, c \in Cgroups : DiscoverAndTrack(s, c) \/ DiscoverNotPersisted(s, c)
  \/ \E s \in Sessions : MarkSessionDegraded(s)
  \/ ApplyLate
  \/ DaemonTick
  \/ Crash
  \/ Restart

DaemonSpec == DaemonInit /\ [][DaemonNext]_daemonVars
-----------------------------------------------------------------------------
(***************************************************************************)
(* Properties.                                                             *)
(***************************************************************************)

\* The registry and the timelines agree while the storage accepts writes: a
\* live session would be replayed with the intent in force, a closed session
\* would stay closed, and a session the registry does not know would not come
\* back.  Exempt are a paused session, whose timeline lacks an event, and one
\* whose directory a failed purge removed.
RegistryMatchesDisk ==
  (up /\ writable) =>
    /\ \A s \in DOMAIN sessions \ (paused \cup lost) :
         /\ (IsActive(s) /\ sessions[s].intent.expires > now) =>
              disk[s].intent = sessions[s].intent /\ ~disk[s].closed
         /\ sessions[s].status = "Closed" => ~ReplayedActive(disk[s])
    /\ \A s \in Sessions \ DOMAIN sessions : ~ReplayedActive(disk[s])

\* No event is attributed to a session that is not there to account for it,
\* across failed operations, crashes and replays.
AttributionAcrossRestarts == up => AttributionJustified

\* A daemon that wrote its timelines itself can replay them: they never claim
\* one cgroup for two sessions.
RestartIsPossible == ReplayConsistent
=============================================================================
