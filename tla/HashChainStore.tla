--------------------------- MODULE HashChainStore ---------------------------
(***************************************************************************)
(* One session's timeline: the hash-chained JSONL file of apolysis-store   *)
(* (hash_chain.rs) and the discipline the daemon appends to it with        *)
(* (persist, persist_record, persist_inner and the startup recovery of     *)
(* apolysis-daemon, state.rs).                                             *)
(*                                                                         *)
(* A record's line is written as two tokens, its first bytes and the rest  *)
(* with the newline, so a write can tear a line; the file is the sequence  *)
(* of tokens the kernel has, of which a prefix survives a power loss, and  *)
(* the BufWriter holds the tokens not yet written.  A hash is the tuple of *)
(* what it is computed from: there are no collisions.  The copy of a tail  *)
(* that recovery cuts off is never synced: it is in the page cache until   *)
(* the kernel writes it back.                                              *)
(***************************************************************************)
EXTENDS Naturals, Sequences, FiniteSets

CONSTANTS
  Payloads,        \* payloads of the records the daemon writes
  LargePayloads,   \* those whose line exceeds the BufWriter's buffer
  Finding,         \* the payload of the integrity finding
  NoPayload,       \* no append is waiting for its flush
  MaxRecords,      \* bound on the records ever appended
  MaxCrashes,      \* bound on the number of crashes
  MaxCorruptions   \* bound on the records altered at rest

ASSUME StoreAssumption ==
  /\ LargePayloads \subseteq Payloads
  /\ Finding \notin Payloads
  /\ NoPayload \notin Payloads \cup {Finding}
  /\ MaxRecords \in Nat
  /\ MaxCrashes \in Nat
  /\ MaxCorruptions \in Nat

VARIABLES
  file,           \* tokens in the file, as the kernel sees it
  synced,         \* how many of them are on stable storage
  buffer,         \* tokens in the BufWriter
  sequence,       \* HashChainStore.sequence
  previous_hash,  \* HashChainStore.previous_hash
  store,          \* "closed", "quarantining", "finding", "open" or "refused"
  unflushed,      \* the payload whose append awaits its flush
  writable,       \* DaemonState.storage_writable
  paused,         \* the session is in paused_sessions
  quarantined,    \* the contents of the quarantine files
  cached,         \* those of them that a power loss may take
  cut,            \* history: the tails set_len removed
  lost,           \* history: those of them whose copy a power loss took afterwards
  appended,       \* history: the records whose lines were handed to write
  acked,          \* history: the records a successful flush covered, up to one altered since
  crashes,
  corruptions

vars == <<file, synced, buffer, sequence, previous_hash, store, unflushed, writable, paused,
          quarantined, cached, cut, lost, appended, acked, crashes, corruptions>>
chain == <<sequence, previous_hash>>
disk == <<file, synced>>
copies == <<quarantined, cached>>
tails == <<copies, cut, lost>>
faults == <<crashes, corruptions>>
flags == <<writable, paused>>

ZeroHash == <<>>

CalculateHash(seq, prev, payload) == <<seq, prev, payload>>

ChainRecord(seq, prev, payload) ==
  [sequence |-> seq, previous_hash |-> prev, payload |-> payload,
   record_hash |-> CalculateHash(seq, prev, payload)]

\* The two writes a line can be torn into.
Line(r) == << <<r, "start">>, <<r, "end">> >>
-----------------------------------------------------------------------------
(***************************************************************************)
(* Reading a file back.                                                    *)
(***************************************************************************)

\* validate_line.
ValidLine(r, seq, prev) ==
  /\ r.sequence = seq
  /\ r.previous_hash = prev
  /\ r.record_hash = CalculateHash(seq, prev, r.payload)

\* The first n lines of the tokens are whole records that follow each other.
IsChain(tokens, n) ==
  /\ 2 * n <= Len(tokens)
  /\ \A i \in 1..n :
       LET r == tokens[2 * i][1]
       IN /\ tokens[2 * i - 1] = <<r, "start">>
          /\ tokens[2 * i] = <<r, "end">>
          /\ ValidLine(r, i, IF i = 1 THEN ZeroHash ELSE tokens[2 * i - 2][1].record_hash)

\* The number of records verify_existing and validate_existing stop after.
ValidRecords(tokens) ==
  CHOOSE n \in 0..(Len(tokens) \div 2) :
    IsChain(tokens, n) /\ \A m \in 0..(Len(tokens) \div 2) : IsChain(tokens, m) => m <= n

RecordsOf(tokens) == [i \in 1..ValidRecords(tokens) |-> tokens[2 * i][1]]

ValidTokens(tokens) == SubSeq(tokens, 1, 2 * ValidRecords(tokens))

\* What follows the valid prefix.
Rest(tokens) == SubSeq(tokens, 2 * ValidRecords(tokens) + 1, Len(tokens))

Newlines(tokens) == {i \in DOMAIN tokens : tokens[i][2] = "end"}

\* Mutant: every invalid line is a tail.
Corrupt_Never(tokens) == FALSE

\* validate_existing's Integrity error: an invalid line with a later complete
\* line or with trailing bytes.
Corrupt(tokens) ==
  LET rest == Rest(tokens)
  IN \/ Cardinality(Newlines(rest)) > 1
     \/ Newlines(rest) # {} /\ Len(rest) \notin Newlines(rest)

LastHash(tokens) ==
  IF ValidRecords(tokens) = 0 THEN ZeroHash ELSE tokens[2 * ValidRecords(tokens)][1].record_hash
-----------------------------------------------------------------------------
Init ==
  /\ file = <<>>
  /\ synced = 0
  /\ buffer = <<>>
  /\ sequence = 0
  /\ previous_hash = ZeroHash
  /\ store = "closed"
  /\ unflushed = NoPayload
  /\ writable = TRUE
  /\ paused = FALSE
  /\ quarantined = {}
  /\ cached = {}
  /\ cut = {}
  /\ lost = {}
  /\ appended = {}
  /\ acked = 0
  /\ crashes = 0
  /\ corruptions = 0

(***************************************************************************)
(* create_or_recover at startup, and the finding that follows a            *)
(* quarantine.                                                             *)
(***************************************************************************)
\* Mutant: the recovered chain starts from the zero hash.
OpenAt_ZeroHash(tokens) ==
  /\ sequence' = ValidRecords(tokens)
  /\ previous_hash' = ZeroHash

OpenAt(tokens) ==
  /\ sequence' = ValidRecords(tokens)
  /\ previous_hash' = LastHash(tokens)

RecoverClean ==
  /\ store = "closed"
  /\ Rest(file) = <<>>
  /\ OpenAt(file)
  /\ store' = "open"
  /\ writable' = TRUE
  /\ paused' = FALSE
  /\ UNCHANGED <<disk, buffer, unflushed, tails, appended, acked, faults>>

\* Startup fails; the file is left as it is.
RecoverRefused ==
  /\ store = "closed"
  /\ Corrupt(file)
  /\ store' = "refused"
  /\ UNCHANGED <<disk, buffer, chain, unflushed, flags, tails, appended, acked, faults>>

\* A part of the tail, or all of it, is in a quarantine file.
Copied(tail) ==
  /\ quarantined' = quarantined \cup {tail}
  /\ cached' = cached \cup ({tail} \ quarantined)

\* Mutant: a copy that failed half-way is not noticed.
QuarantineTail_ErrorIgnored ==
  /\ store = "closed"
  /\ Rest(file) # <<>>
  /\ ~Corrupt(file)
  /\ \E k \in 0..Len(Rest(file)) : Copied(SubSeq(Rest(file), 1, k))
  /\ store' = "quarantining"
  /\ UNCHANGED <<disk, buffer, chain, unflushed, flags, cut, lost, appended, acked, faults>>

\* The tail is copied to a quarantine file; nothing syncs the copy.
QuarantineTail ==
  /\ store = "closed"
  /\ Rest(file) # <<>>
  /\ ~Corrupt(file)
  /\ Copied(Rest(file))
  /\ store' = "quarantining"
  /\ UNCHANGED <<disk, buffer, chain, unflushed, flags, cut, lost, appended, acked, faults>>

\* The write of the copy fails, or is killed, with a part of it done, and so
\* does the startup.
QuarantineFails ==
  /\ store = "closed"
  /\ Rest(file) # <<>>
  /\ ~Corrupt(file)
  /\ \E k \in 0..(Len(Rest(file)) - 1) : Copied(SubSeq(Rest(file), 1, k))
  /\ UNCHANGED <<disk, buffer, chain, store, unflushed, flags, cut, lost, appended, acked, faults>>

\* The tail is cut off.  Whether the cut survives a power loss makes no
\* difference: one that does not leaves the file as Stop before it does.
SetLen ==
  /\ store = "quarantining"
  /\ OpenAt(file)
  /\ file' = ValidTokens(file)
  /\ synced' = IF synced > 2 * ValidRecords(file) THEN 2 * ValidRecords(file) ELSE synced
  /\ cut' = cut \cup {Rest(file)}
  /\ writable' = TRUE
  /\ paused' = FALSE
  /\ store' = "finding"
  /\ UNCHANGED <<buffer, unflushed, copies, lost, appended, acked, faults>>

(***************************************************************************)
(* append_json and flush.                                                  *)
(***************************************************************************)
\* Mutant: a retried write puts the payload into the chain twice.
AppendLine_Twice(payload) ==
  LET r == ChainRecord(sequence + 1, previous_hash, payload)
      again == ChainRecord(sequence + 2, r.record_hash, payload)
  IN /\ Cardinality(appended) + 1 < MaxRecords
     /\ buffer' = buffer \o Line(r) \o Line(again)
     /\ sequence' = sequence + 2
     /\ previous_hash' = again.record_hash
     /\ appended' = appended \cup {r, again}
     /\ unflushed' = payload

\* The line goes into the buffer and the chain moves on.
AppendLine(payload) ==
  LET r == ChainRecord(sequence + 1, previous_hash, payload)
  IN /\ Cardinality(appended) < MaxRecords
     /\ buffer' = buffer \o Line(r)
     /\ sequence' = sequence + 1
     /\ previous_hash' = r.record_hash
     /\ appended' = appended \cup {r}
     /\ unflushed' = payload

\* append_integrity_finding.
AppendFinding ==
  /\ store = "finding"
  /\ unflushed = NoPayload
  /\ AppendLine(Finding)
  /\ UNCHANGED <<disk, store, flags, tails, acked, faults>>

\* persist_inner, from persist (any payload) or from persist_record (a small
\* one, of a session that is not paused).
AppendJson(payload) ==
  /\ store = "open"
  /\ writable
  /\ unflushed = NoPayload
  /\ AppendLine(payload)
  /\ UNCHANGED <<disk, store, flags, tails, acked, faults>>

\* A line larger than the buffer goes past it: the buffer is written out, then
\* the line; an error leaves a part of either.  The chain does not move, and
\* persist, the only caller with such lines, stops all writing.
AppendTorn(payload) ==
  LET r == ChainRecord(sequence + 1, previous_hash, payload)
  IN /\ store = "open"
     /\ writable
     /\ unflushed = NoPayload
     /\ payload \in LargePayloads
     /\ Cardinality(appended) < MaxRecords
     /\ \/ /\ \E k \in 0..1 : file' = file \o buffer \o SubSeq(Line(r), 1, k)
           /\ buffer' = <<>>
        \/ \E k \in 0..Len(buffer) :
             /\ file' = file \o SubSeq(buffer, 1, k)
             /\ buffer' = SubSeq(buffer, k + 1, Len(buffer))
     /\ appended' = appended \cup {r}
     /\ writable' = FALSE
     /\ UNCHANGED <<synced, chain, store, unflushed, paused, tails, acked, faults>>

\* Mutant: flush without sync_data.
FlushOk_Unsynced ==
  /\ unflushed # NoPayload
  /\ file' = file \o buffer
  /\ buffer' = <<>>
  /\ unflushed' = NoPayload
  /\ acked' = sequence
  /\ store' = "open"
  /\ UNCHANGED <<synced, chain, flags, tails, appended, faults>>

FlushOk ==
  /\ unflushed # NoPayload
  /\ file' = file \o buffer
  /\ synced' = Len(file')
  /\ buffer' = <<>>
  /\ unflushed' = NoPayload
  /\ acked' = sequence
  /\ store' = "open"
  /\ UNCHANGED <<chain, flags, tails, appended, faults>>

\* The caller's answer to an error: persist stops all writing, persist_record
\* pauses the session.
GiveUp ==
  \/ writable' = FALSE /\ UNCHANGED paused
  \/ ~paused /\ unflushed \notin LargePayloads /\ paused' = TRUE /\ UNCHANGED writable

\* write fails after k tokens, which the BufWriter drops from its buffer, or
\* sync_data fails after all of them.
FlushFails ==
  /\ store = "open"
  /\ unflushed # NoPayload
  /\ GiveUp
  /\ unflushed' = NoPayload
  /\ \E k \in 0..Len(buffer) :
       /\ file' = file \o SubSeq(buffer, 1, k)
       /\ buffer' = SubSeq(buffer, k + 1, Len(buffer))
  /\ UNCHANGED <<synced, chain, store, tails, appended, acked, faults>>
-----------------------------------------------------------------------------
(***************************************************************************)
(* The end of the process: the store is dropped (the BufWriter writes what *)
(* it holds and ignores errors), killed, or the machine loses power.  A    *)
(* startup whose finding cannot be flushed ends the same way.              *)
(***************************************************************************)
\* Of the quarantine files in the page cache a power loss takes any; the rest
\* are on the disk from then on.
LoseCopies ==
  \E gone \in SUBSET cached :
    /\ quarantined' = quarantined \ gone
    /\ cached' = {}
    /\ lost' = lost \cup (gone \cap cut)

Stop ==
  /\ store \in {"quarantining", "finding", "open"}
  /\ crashes < MaxCrashes
  /\ crashes' = crashes + 1
  /\ store' = "closed"
  /\ unflushed' = NoPayload
  /\ buffer' = <<>>
  /\ \E k \in 0..Len(buffer) :
       LET written == file \o SubSeq(buffer, 1, k)
       IN \/ file' = written /\ UNCHANGED <<synced, copies, lost>>
          \/ /\ \E n \in synced..Len(written) : file' = SubSeq(written, 1, n) /\ synced' = n
             /\ LoseCopies
  /\ UNCHANGED <<chain, flags, cut, appended, acked, corruptions>>

\* The altered copy of a record has a hash its contents do not have.
AlteredToken(token) == <<[token[1] EXCEPT !.record_hash = ZeroHash], token[2]>>

IsAltered(token) == token[1].record_hash = ZeroHash

\* A record of the file is altered while the daemon is down.
CorruptAtRest ==
  /\ store = "closed"
  /\ corruptions < MaxCorruptions
  /\ corruptions' = corruptions + 1
  /\ \E i \in 1..ValidRecords(file) :
       /\ file' = [j \in DOMAIN file |->
                    IF j \in {2 * i - 1, 2 * i} THEN AlteredToken(file[j]) ELSE file[j]]
       /\ acked' = IF acked < i THEN acked ELSE i - 1
  /\ UNCHANGED <<synced, buffer, chain, store, unflushed, flags, tails, appended, crashes>>

Next ==
  \/ RecoverClean \/ RecoverRefused \/ QuarantineTail \/ QuarantineFails \/ SetLen
  \/ AppendFinding
  \/ \E p \in Payloads : AppendJson(p) \/ AppendTorn(p)
  \/ FlushOk \/ FlushFails
  \/ Stop
  \/ CorruptAtRest

Spec == Init /\ [][Next]_vars
-----------------------------------------------------------------------------
(***************************************************************************)
(* Properties.                                                             *)
(***************************************************************************)
TypeOK ==
  /\ \A t \in {file[i] : i \in DOMAIN file} \cup {buffer[i] : i \in DOMAIN buffer} :
       t[2] \in {"start", "end"} /\ t[1].sequence \in 1..MaxRecords
  /\ synced \in 0..Len(file)
  /\ sequence \in 0..MaxRecords
  /\ store \in {"closed", "quarantining", "finding", "open", "refused"}
  /\ unflushed \in Payloads \cup {Finding, NoPayload}
  /\ writable \in BOOLEAN
  /\ paused \in BOOLEAN
  /\ cached \subseteq quarantined
  /\ acked \in 0..MaxRecords
  /\ crashes \in 0..MaxCrashes
  /\ corruptions \in 0..MaxCorruptions

\* The sequence of hashes the store continues from is the one on file: while
\* the daemon writes, the file followed by the buffer is one unbroken chain
\* that ends where the store's sequence and hash say, whatever flush failed
\* before and however often the process was killed.
ChainContinues ==
  (store = "open" /\ writable) =>
    /\ Rest(file \o buffer) = <<>>
    /\ sequence = ValidRecords(file \o buffer)
    /\ previous_hash = LastHash(file \o buffer)

\* A record whose flush succeeded is in the valid prefix of the file for ever,
\* unless it or one before it was altered, and a daemon whose files nobody
\* altered always starts again.
AckedIsRecoverable ==
  /\ ValidRecords(file) >= acked
  /\ corruptions = 0 => ~Corrupt(file)

\* A tail that recovery cut off is on the disk, whole, in a quarantine file, for
\* ever: whatever copy failed or was killed half-way before, wherever the daemon
\* was stopped between copy and cut or after it, and whatever was cut later;
\* unless the power failed after the cut with that copy in the page cache.
CutTailsAreKept == cut \subseteq quarantined \cup lost

\* The same without the exception.  TLC refutes it (README, known deviations).
CutTailsSurvivePowerLoss == cut \subseteq quarantined

\* "A middle corruption fails closed": once a record with bytes after it was
\* altered, no recovery cuts, extends or opens the file; only a further
\* alteration changes it.
MiddleCorruptionFailsClosed ==
  [][(\E i \in DOMAIN file : i < Len(file) /\ file[i][2] = "end" /\ IsAltered(file[i])) =>
       /\ file' = file \/ corruptions' > corruptions
       /\ store' \in {"closed", "refused"}]_vars

\* The timeline is an append-only log.
Log == INSTANCE AppendOnlyLog
         WITH Payloads <- Payloads \cup {Finding},
              log <- [i \in 1..ValidRecords(file \o buffer) |-> (file \o buffer)[2 * i][1].payload],
              durable <- acked,
              damages <- corruptions

\* Appends, failed writes, crashes and recoveries implement the log: nothing a
\* successful flush covered is lost, reordered or replaced, unless the file was
\* altered, and then nothing before the altered record.
ImplementsLog == Log!Spec
=============================================================================
