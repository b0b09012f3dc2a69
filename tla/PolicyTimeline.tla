--------------------------- MODULE PolicyTimeline ---------------------------
(***************************************************************************)
(* What an observer leaves behind for each event it sees: the raw record,  *)
(* the canonical record, a violation and its enforcement metadata when a   *)
(* rule is broken, in a JSONL timeline that rotates, and the two feedback  *)
(* files the agent reads.  Observers come one after the other on the same  *)
(* output path; each can be killed, or fail, after every effect on disk.   *)
(*                                                                         *)
(* A record counts once its whole line is written; its contents are the    *)
(* kind, the event it is about and the decision it carries.                *)
(***************************************************************************)
EXTENDS Enforcement, Integers, Sequences, SequencesExt

CONSTANTS Policies,     \* the policies an observer may be started with
          Events,       \* raw events: [name, matches, credential]
          MaxFileBytes, MaxArchivedFiles,  \* the rotation policy
          SizeOf,       \* kind of record -> length of its line
          MaxEvents,    \* bound: events seen by one observer
          MaxSessions   \* bound: observers started

Kinds == {"raw", "canonical", "violation", "metadata", "startup", "downgrade"}

ASSUME RotationAssumption == MaxFileBytes \in Nat \ {0} /\ MaxArchivedFiles \in Nat \ {0}
ASSUME PolicyAssumption ==
  Policies \subseteq [requested : Decisions, fallback : Decisions, lists : SUBSET STRING]
ASSUME EventAssumption ==
  Events \subseteq [name : STRING, matches : BOOLEAN, credential : BOOLEAN]
ASSUME SizeAssumption == SizeOf \in [Kinds -> Nat]
ASSUME BoundsAssumption == MaxEvents \in Nat /\ MaxSessions \in Nat

VARIABLES files,     \* 0: the active file, k: its k-th archive; may not exist
          buffer,    \* records in the BufWriter, not yet in the active file
          bytes,     \* current_bytes
          rotation,  \* the step of rotate() that comes next
          session, appended, \* the observer's number; records it appended
          policy, running,   \* its policy; running, ended well, or stopped
          todo,      \* records still to append for the event at hand
          seen,      \* events seen
          telling,   \* the violation being written to the feedback files
          feedback   \* what the text file and the JSON file name

timelineVars == <<files, buffer, bytes, rotation, session, appended, policy, running,
                  todo, seen, telling, feedback>>
store == <<files, buffer, bytes, rotation, appended>>

Archives == 1..MaxArchivedFiles
Absent == [exists |-> FALSE, lines |-> <<>>]
Holding(lines) == [exists |-> TRUE, lines |-> lines]
NoViolation == [session |-> 0, n |-> 0]
NotRotating == [at |-> "no", k |-> 0]

----------------------------------------------------------------------------
\* JsonlStore

\* should_rotate_before: a record too long for any file still goes in alone.
ShouldRotateBefore(size) == bytes > 0 /\ bytes + size > MaxFileBytes

(* append: the next record goes to the buffer, after a rotation when the   *)
(* active file has no room for it.                                         *)
Append1 ==
  /\ running = "yes" /\ todo # <<>> /\ rotation.at = "no"
  /\ LET record == Head(todo)
         size == SizeOf[record.kind]
     IN IF ShouldRotateBefore(size)
        THEN /\ rotation' = [at |-> "oldest", k |-> MaxArchivedFiles]
             /\ UNCHANGED <<buffer, bytes, appended, todo, telling>>
        ELSE /\ appended' = appended + 1
             /\ buffer' = Append(buffer, [session |-> session, n |-> appended + 1, of |-> record])
             /\ bytes' = bytes + size
             /\ todo' = Tail(todo)
             /\ telling' = IF record.kind = "violation"
                           THEN [session |-> session, n |-> appended + 1] ELSE telling
             /\ UNCHANGED rotation
  /\ UNCHANGED <<files, session, policy, running, seen, feedback>>

\* Mutant: the buffer is flushed when the active file has been renamed.
RemoveOldest_Unflushed ==
  /\ rotation.at = "oldest"
  /\ files' = [files EXCEPT ![MaxArchivedFiles] = Absent]
  /\ buffer' = <<>>
  /\ rotation' = [at |-> "shift", k |-> MaxArchivedFiles - 1]
  /\ UNCHANGED <<bytes, appended, session, policy, running, todo, seen, telling, feedback>>

\* rotate: the buffer is flushed and the oldest archive removed.
RemoveOldest ==
  /\ rotation.at = "oldest"
  /\ files' = [files EXCEPT ![0].lines = @ \o buffer, ![MaxArchivedFiles] = Absent]
  /\ buffer' = <<>>
  /\ rotation' = [at |-> "shift", k |-> MaxArchivedFiles - 1]
  /\ UNCHANGED <<bytes, appended, session, policy, running, todo, seen, telling, feedback>>

(* The archives move up by one, from the oldest on, then the active file   *)
(* becomes the first of them; a file that is not there is passed over.     *)
ShiftArchive ==
  /\ rotation.at = "shift"
  /\ files' = IF files[rotation.k].exists
              THEN [files EXCEPT ![rotation.k + 1] = files[rotation.k], ![rotation.k] = Absent]
              ELSE files
  /\ rotation' = IF rotation.k > 0 THEN [at |-> "shift", k |-> rotation.k - 1]
                 ELSE [at |-> "create", k |-> 0]
  /\ UNCHANGED <<buffer, bytes, appended, session, policy, running, todo, seen, telling, feedback>>

CreateActive ==
  /\ rotation.at = "create"
  /\ files' = [files EXCEPT ![0] = Holding(<<>>)]
  /\ bytes' = 0 /\ rotation' = NotRotating
  /\ UNCHANGED <<buffer, appended, session, policy, running, todo, seen, telling, feedback>>

\* A full BufWriter passes what it holds on to the file.
Spill ==
  /\ running = "yes" /\ rotation.at = "no" /\ buffer # <<>>
  /\ files' = [files EXCEPT ![0].lines = Append(@, Head(buffer))]
  /\ buffer' = Tail(buffer)
  /\ UNCHANGED <<bytes, rotation, appended, session, policy, running, todo, seen, telling, feedback>>

----------------------------------------------------------------------------
\* The observer

\* canonicalize: an opened path on the credential list is a credential read.
Canonicalize(e) ==
  CASE e.name = "openat" -> IF e.credential THEN "credential_read" ELSE "file_open"
    [] e.name = "execve" -> "exec"
    [] e.name = "creat" -> "file_create"
    [] e.name = "ftruncate" -> "file_truncate"
    [] e.name = "unlinkat" -> "file_unlink"
    [] e.name = "renameat2" -> "file_rename"
    [] e.name = "connect" -> "network_connect"
    [] e.name = "sched_process_exit" -> "process_exit"
    [] OTHER -> "runtime_metadata"

\* A record: its kind, which event of the observer it is about, the decision.
Line(kind, event, decision) == [kind |-> kind, event |-> event, decision |-> decision]
NoEvent == [i |-> 0]
Plain == Resolved("allow", "allow", "audit_only", "audit_only")

\* PolicyRuntimeCapabilities::detect at startup; no observer adds evidence.
Host == Detect(TRUE, TRUE)

\* Mutant: a decision that was downgraded to allow is not written down.
RecordsOf_DowngradeHidden(i, e) ==
  LET evaluation == EvaluateEvent(policy, Host, Canonicalize(e), e.matches)
      event == [i |-> i, is |-> e]
  IN
  <<Line("raw", event, Plain), Line("canonical", event, Plain)>> \o
    IF evaluation.effective = "allow" \/ evaluation.downgraded THEN <<>>
    ELSE <<Line("violation", event, evaluation), Line("metadata", event, evaluation)>>

(* The raw and the canonical record of an event, then append_policy_       *)
(* evaluation: violation and enforcement metadata unless it is allowed.    *)
RecordsOf(i, e) ==
  LET evaluation == EvaluateEvent(policy, Host, Canonicalize(e), e.matches)
      event == [i |-> i, is |-> e]
  IN
  <<Line("raw", event, Plain), Line("canonical", event, Plain)>> \o
    IF evaluation.effective = "allow" THEN <<>>
    ELSE <<Line("violation", event, evaluation), Line("metadata", event, evaluation)>>

(* write_observer_metadata: one record stands for the several about the    *)
(* observer itself; the startup downgrade is a record of its own.          *)
StartupRecords(p) ==
  <<Line("startup", NoEvent, Plain)>> \o
    IF StartupDowngrade(p, Host) THEN <<Line("downgrade", NoEvent, Plain)>> ELSE <<>>

(* A new observer truncates the active file and leaves the archives and    *)
(* the feedback files of its predecessors alone.                           *)
Start(p) ==
  /\ running # "yes" /\ session < MaxSessions
  /\ session' = session + 1 /\ appended' = 0 /\ seen' = 0
  /\ policy' = p /\ running' = "yes"
  /\ files' = [files EXCEPT ![0] = Holding(<<>>)]
  /\ buffer' = <<>> /\ bytes' = 0 /\ rotation' = NotRotating
  /\ todo' = StartupRecords(p) /\ telling' = NoViolation
  /\ UNCHANGED feedback

Quiet == todo = <<>> /\ telling = NoViolation /\ rotation.at = "no"

Observe(e) ==
  /\ running = "yes" /\ Quiet /\ seen < MaxEvents
  /\ seen' = seen + 1
  /\ todo' = RecordsOf(seen + 1, e)
  /\ UNCHANGED <<store, session, policy, running, telling, feedback>>

\* Mutant: the feedback is written as soon as the violation is appended.
WriteText_BeforeMetadata ==
  /\ running = "yes" /\ telling # NoViolation
  /\ feedback' = [feedback EXCEPT !.text = telling]
  /\ UNCHANGED <<store, session, policy, running, todo, seen, telling>>

(* FeedbackWriter::write_last_violation, after the metadata is appended:   *)
(* the text file, then the JSON file, each replaced by a rename.           *)
WriteText ==
  /\ running = "yes" /\ todo = <<>> /\ telling # NoViolation /\ feedback.text # telling
  /\ feedback' = [feedback EXCEPT !.text = telling]
  /\ UNCHANGED <<store, session, policy, running, todo, seen, telling>>

WriteJson ==
  /\ running = "yes" /\ todo = <<>> /\ telling # NoViolation /\ feedback.text = telling
  /\ feedback' = [feedback EXCEPT !.json = telling]
  /\ telling' = NoViolation
  /\ UNCHANGED <<store, session, policy, running, todo, seen>>

\* The last flush, and the observer reports success.
Finish ==
  /\ running = "yes" /\ Quiet
  /\ files' = [files EXCEPT ![0].lines = @ \o buffer]
  /\ buffer' = <<>> /\ running' = "ended"
  /\ UNCHANGED <<bytes, rotation, appended, session, policy, todo, seen, telling, feedback>>

\* A kill, or an error that `?` passes up: what the buffer still holds is lost.
Stop ==
  /\ running = "yes"
  /\ running' = "stopped" /\ buffer' = <<>>
  /\ UNCHANGED <<files, bytes, rotation, appended, session, policy, todo, seen, telling, feedback>>

TimelineInit ==
  /\ files = [k \in 0..MaxArchivedFiles |-> Absent]
  /\ buffer = <<>> /\ bytes = 0 /\ rotation = NotRotating
  /\ session = 0 /\ appended = 0 /\ running = "no" /\ seen = 0
  /\ policy \in Policies
  /\ todo = <<>> /\ telling = NoViolation
  /\ feedback = [text |-> NoViolation, json |-> NoViolation]

TimelineNext ==
  \/ \E p \in Policies : Start(p)
  \/ \E e \in Events : Observe(e)
  \/ running = "yes" /\ (RemoveOldest \/ ShiftArchive \/ CreateActive)
  \/ Append1 \/ Spill \/ WriteText \/ WriteJson \/ Finish \/ Stop

TimelineSpec == TimelineInit /\ [][TimelineNext]_timelineVars

----------------------------------------------------------------------------
Decision ==
  [requested : Decisions, effective : Decisions,
   backend : {"audit_only", "signal_kill", "tracepoint_notify"},
   timing : {"audit_only", "post_event_containment", "post_event_feedback"},
   prevention : BOOLEAN, downgraded : BOOLEAN]
LineType ==
  [kind : Kinds,
   event : {NoEvent} \cup [i : Nat, is : Events], decision : Decision]
Record == [session : Nat, n : Nat, of : LineType]
FileType == [exists : BOOLEAN, lines : Seq(Record)]
RecordId == [session : Nat, n : Nat]

TimelineTypeOK ==
  /\ files \in [0..MaxArchivedFiles -> FileType]
  /\ buffer \in Seq(Record) /\ bytes \in Nat
  /\ rotation.at \in {"no", "oldest", "shift", "create"}
  /\ rotation.at = "shift" => rotation.k \in 0..MaxArchivedFiles - 1
  /\ session \in Nat /\ appended \in Nat /\ seen \in Nat
  /\ policy \in Policies /\ running \in {"no", "yes", "ended", "stopped"}
  /\ todo \in Seq(LineType)
  /\ telling \in RecordId
  /\ feedback \in [text : RecordId, json : RecordId]

\* Where a record can be: what is buffered (-1), the active file, the archives.
Places == -1..MaxArchivedFiles
Contents == [k \in Places |-> IF k = -1 THEN buffer ELSE files[k].lines]

RecordsIn(contents) == UNION {ToSet(contents[k]) : k \in Places}
Records == RecordsIn(Contents)
OnDisk == UNION {ToSet(files[k].lines) : k \in 0..MaxArchivedFiles}

\* The order in which records were appended, across observers.
Before(a, b) == a.session < b.session \/ (a.session = b.session /\ a.n < b.n)

Ascending(lines) == \A i, j \in DOMAIN lines : i < j => Before(lines[i], lines[j])

InOrder(contents) ==
  /\ \A k \in Places : Ascending(contents[k])
  /\ \A k, l \in Places : k > l =>
       \A a \in ToSet(contents[k]), b \in ToSet(contents[l]) : Before(a, b)

NoneMissing(records) ==
  \A a, b \in records : a.session = b.session =>
    \A n \in a.n..b.n : \E c \in records : c.session = a.session /\ c.n = n

NewestIsThere ==
  running \in {"yes", "ended"} /\ appended > 0 =>
    \E r \in Records : /\ r.session = session /\ r.n = appended
                       /\ \A other \in Records \ {r} : Before(other, r)

(* Read from the oldest archive to the active file, the records come in    *)
(* the order they were appended, across observers that share the path, no  *)
(* record of an observer is missing between two that are there, and the    *)
(* newest is there: rotation only ever takes the oldest ones, also halfway *)
(* through its renames and when an observer stopped in the middle of them. *)
TimelineHasNoGap == InOrder(Contents) /\ NoneMissing(Records) /\ NewestIsThere

(* The feedback files never name a violation whose enforcement metadata is *)
(* not yet appended, and when the observer turns to its next event both of *)
(* them name its latest violation.                                         *)
FeedbackIsLatest ==
  LET told == {feedback.text, feedback.json} IN
  /\ \A f \in told : f.session = session /\ f # NoViolation => f.n < appended
  /\ running \in {"yes", "ended"} /\ Quiet =>
       \A r \in Records : r.session = session /\ r.of.kind = "violation" =>
         \A f \in told : f.session = session /\ f.n >= r.n

MustBeKept(e) ==
  /\ BreaksRule(policy, Canonicalize(e), e.matches)
  /\ policy.requested # "allow"
  /\ ~(policy.requested = "block" /\ policy.fallback = "allow")

Outcome(e) == Resolve(Host, policy.requested, policy.fallback, "local", Canonicalize(e))

(* An observer that ended well left, for every event still in the timeline *)
(* that breaks a rule, the violation and its metadata with the decision    *)
(* that was asked for and what became of it: a block nothing could carry   *)
(* out is a recorded downgrade.  Only a policy that falls back to allow,   *)
(* or asks for it, leaves none.                                            *)
ViolationsAreKept ==
  running = "ended" =>
    \A raw \in OnDisk : raw.session = session /\ raw.of.kind = "raw" /\ MustBeKept(raw.of.event.is) =>
      LET d == Outcome(raw.of.event.is) IN
      /\ \A kind \in {"violation", "metadata"} :
           \E r \in OnDisk : r.session = session /\ Before(raw, r) /\ r.of = Line(kind, raw.of.event, d)
      /\ d.requested = policy.requested
      /\ d.downgraded <=> policy.requested = "block"
      /\ ~d.prevention
============================================================================
