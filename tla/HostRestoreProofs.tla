------------------------- MODULE HostRestoreProofs -------------------------
(***************************************************************************)
(* For any list of backed up paths and of services, any number of commands *)
(* and any edits: the host is never left with torn contents, a             *)
(* registration can be undone wherever it is cut short, and a restore that *)
(* reports success has put back what the capture found.                    *)
(***************************************************************************)
EXTENDS HostRestore, SequenceTheorems, TLAPS

----------------------------------------------------------------------------
\* Types

\* A file nobody tore, with one way to be missing.
Proper(f) == f \in AllFiles /\ f.bytes # Torn /\ (f.kind = "missing" => f = Missing)

----------------------------------------------------------------------------
\* The inductive invariant

\* What is on the host, in the services, in the captures and about to be
\* written is of its type and whole; only the copies may be torn.
HostWhole == host \in [Paths -> AllFiles] /\ \A p \in Paths : Proper(host[p])

ServiceWhole(s) ==
  /\ services[s] = [active |-> services[s].active, unit |-> services[s].unit,
                    loaded |-> services[s].loaded]
  /\ services[s].active \in Actives /\ services[s].unit \in Units
  /\ services[s].loaded \in [Inputs[s] -> AllBytes]
  /\ \A id \in Inputs[s] : services[s].loaded[id] # Torn

ServicesWhole == DOMAIN services = Names /\ \A s \in Names : ServiceWhole(s)

CapturesWhole ==
  /\ taken \in Seq(Captures)
  /\ \A n \in DOMAIN taken : \A id \in Ids : Proper(taken[n].files[id])

CommandWhole ==
  /\ command \in CommandType
  /\ \A id \in Ids : command.configs[id] # Torn
  /\ command.name # "idle" => outcome = "running" /\ command.pos \in Nat \ {0}

DirectoryTyped ==
  /\ copies \in [Ids -> AllBytes]
  /\ documents \in [DocumentNames -> [whole : BOOLEAN, by : Nat]]

Whole == HostWhole /\ ServicesWhole /\ CapturesWhole /\ CommandWhole /\ DirectoryTyped

\* The capture in progress: its copies are checked before a document names
\* it, and all three documents name it before the registration begins.
WrittenBy(d) == documents[d] = [whole |-> TRUE, by |-> Current]

Undoable ==
  /\ \A id \in Ids : VerifyBackupCopy(taken[Current].files, id)
  /\ \A d \in DocumentNames : WrittenBy(d)

CaptureInv ==
  /\ \A d \in DocumentNames : documents[d].whole => documents[d].by \in DOMAIN taken
  /\ command.name \notin {"idle", "restore"} => Current \in DOMAIN taken
  /\ command.name = "documents" =>
       /\ \A id \in Ids : VerifyBackupCopy(taken[Current].files, id)
       /\ \A i \in DOMAIN Documents : i < command.pos => WrittenBy(Documents[i])
  /\ command.name \in {"render", "register"} \/ outcome \in {"registered", "half registered"} =>
       Current \in DOMAIN taken /\ Undoable

\* The documents and copies a restore works from stay as it checked them.
Checked == Readable /\ VerifyRestoreExecutionInputs
Restoring == command.name = "restore" \/ outcome = "restored"

RestoreChecked == Restoring => Checked

\* The path is as the manifest's capture found it.
Back(id) ==
  /\ host[id].kind = Manifest[id].kind /\ host[id].bytes = Manifest[id].bytes
  /\ documents["plan"] = documents["manifest"] => host[id] = Manifest[id]

\* Between the phases of one path: replaced, not yet given to its owner.
HalfBack(id, to) ==
  /\ command.phase = 1 /\ to.kind = "regular" =>
       host[id] = File("regular", copies[id], to.mode, "root")
  /\ command.phase = 2 /\ to.kind = "symlink" =>
       host[id] = File("symlink", to.bytes, to.mode, "root")

FilesInv ==
  command.name = "restore" =>
    /\ \A i \in DOMAIN Sources : i < command.pos /\ Sources[i] \notin touched => Back(Sources[i])
    /\ command.pos \in DOMAIN Sources /\ Sources[command.pos] \notin touched =>
         HalfBack(Sources[command.pos], Plan.files[Sources[command.pos]])
    /\ command.pos > Len(Sources) + 1 /\ Owned \notin touched => host[Owned] = Missing

\* The service is as it was captured, with the files that were put back.
Runs(s) ==
  /\ Plan.services[s].active = "active" =>
       /\ services[s].active = "active"
       /\ \A id \in Inputs[s] \ touched : services[s].loaded[id] = Manifest[id].bytes
  /\ Plan.services[s].active \in {"inactive", "failed"} => services[s].active = "inactive"

ServicesInv ==
  command.name = "restore" =>
    \A k \in DOMAIN Services :
      Len(Sources) + 1 + k < command.pos /\ Services[k] \notin touched => Runs(Services[k])

RestoreInv ==
  /\ RestoreChecked /\ FilesInv /\ ServicesInv
  /\ RestoredIsCaptured /\ ServicesRunRestored

----------------------------------------------------------------------------
\* The values of the model

\* A capture has three documents, written in this order.
LEMMA DocumentFacts ==
  /\ Len(Documents) = 3 /\ DOMAIN Documents = 1..3
  /\ Documents[1] = "manifest" /\ Documents[2] = "services" /\ Documents[3] = "plan"
  /\ Range(Documents) = DocumentNames
  /\ \A i \in 1..3 : Documents[i] \in DocumentNames
<1>1. /\ Len(Documents) = 3 /\ DOMAIN Documents = 1..3
      /\ Documents[1] = "manifest" /\ Documents[2] = "services" /\ Documents[3] = "plan"
  BY DEF Documents
<1>2. \A i \in 1..3 : i = 1 \/ i = 2 \/ i = 3
  OBVIOUS
<1>3. \A i \in 1..3 : Documents[i] \in DocumentNames
  BY <1>1, <1>2 DEF DocumentNames
<1>4. Range(Documents) = DocumentNames
  BY <1>1, <1>3 DEF Range, DocumentNames
<1> QED
  BY <1>1, <1>3, <1>4

\* The lists the commands walk name every path and every service.
LEMMA ListFacts ==
  /\ Len(Sources) \in Nat /\ DOMAIN Sources = 1..Len(Sources)
  /\ Len(Writes) \in Nat /\ DOMAIN Writes = 1..Len(Writes)
  /\ Len(Services) \in Nat /\ DOMAIN Services = 1..Len(Services)
  /\ \A i \in DOMAIN Sources : Sources[i] \in Ids
  /\ \A i \in DOMAIN Writes : Writes[i] \in Ids
  /\ \A k \in DOMAIN Services : Services[k] \in Names
  /\ \A id \in Ids : \E i \in DOMAIN Sources : Sources[i] = id
  /\ \A s \in Names : \E k \in DOMAIN Services : Services[k] = s
  /\ Ids \subseteq Paths /\ Owned \in Paths /\ Owned \notin Ids
<1>1. /\ Len(Sources) \in Nat /\ DOMAIN Sources = 1..Len(Sources)
      /\ Len(Writes) \in Nat /\ DOMAIN Writes = 1..Len(Writes)
      /\ Len(Services) \in Nat /\ DOMAIN Services = 1..Len(Services)
  BY ConstantsAssumption, LenProperties
<1>2. /\ \A i \in DOMAIN Sources : Sources[i] \in Ids
      /\ \A id \in Ids : \E i \in DOMAIN Sources : Sources[i] = id
      /\ \A k \in DOMAIN Services : Services[k] \in Names
      /\ \A s \in Names : \E k \in DOMAIN Services : Services[k] = s
  BY DEF Ids, Names, Range
<1>3. \A i \in DOMAIN Writes : Writes[i] \in Ids
  BY <1>1, ConstantsAssumption, ElementOfSeq
<1> QED
  BY <1>1, <1>2, <1>3, ConstantsAssumption DEF Paths

\* What a file may contain: a whole file is neither torn nor absent.
LEMMA ByteFacts ==
  /\ Nothing \in AllBytes /\ Torn \in AllBytes /\ Nothing # Torn
  /\ \A b \in AllBytes : Bytes(b.base, TRUE) \in AllBytes
  /\ Bytes("empty", TRUE) \in AllBytes
  /\ \A x : Bytes(x, TRUE) # Torn
  /\ \A x : Bytes(x, TRUE) # Nothing
<1>1. /\ Nothing \in AllBytes /\ Torn \in AllBytes /\ Bytes("empty", TRUE) \in AllBytes
      /\ \A b \in AllBytes : Bytes(b.base, TRUE) \in AllBytes
  BY DEF Nothing, Torn, Bytes, AllBytes
<1>2. Nothing # Torn
  <2>1. Nothing.base = "none" /\ Torn.base = "torn"
    BY DEF Nothing, Torn, Bytes
  <2> QED
    BY <2>1
<1>3. ASSUME NEW x PROVE Bytes(x, TRUE) # Torn /\ Bytes(x, TRUE) # Nothing
  <2>1. Bytes(x, TRUE).registered = TRUE /\ Torn.registered = FALSE /\ Nothing.registered = FALSE
    BY DEF Torn, Nothing, Bytes
  <2> QED
    BY <2>1
<1> QED
  BY <1>1, <1>2, <1>3

\* The files the steps write, and the ones they are given, are proper.
LEMMA FileFacts ==
  /\ Proper(Missing)
  /\ \A b \in AllBytes, m \in Modes, o \in Owners :
       b # Torn => Proper(File("regular", b, m, o)) /\ Proper(File("symlink", b, m, o))
  /\ \A f \in Given : Proper(f)
  /\ "0644" \in Modes /\ "root" \in Owners
<1>1. "0644" \in Modes /\ "root" \in Owners /\ "none" \in Modes /\ "none" \in Owners
  BY DEF Modes, Owners
<1>2. Proper(Missing)
  <2>1. Missing \in AllFiles
    BY <1>1, ByteFacts DEF Missing, File, AllFiles, Kinds
  <2>2. Missing.bytes = Nothing
    BY DEF Missing, File
  <2> QED
    BY <2>1, <2>2, ByteFacts DEF Proper
<1>3. ASSUME NEW b \in AllBytes, NEW m \in Modes, NEW o \in Owners, b # Torn, NEW k \in {"regular", "symlink"}
      PROVE  Proper(File(k, b, m, o))
  <2>1. File(k, b, m, o) \in AllFiles
    BY DEF File, AllFiles, Kinds
  <2>2. File(k, b, m, o).bytes = b /\ File(k, b, m, o).kind = k
    BY DEF File
  <2> QED
    BY <1>3, <2>1, <2>2 DEF Proper
<1>4. ASSUME NEW f \in Given PROVE Proper(f)
  <2>1. WellFormed(f)
    BY ConstantsAssumption
  <2>2. Bytes(f.bytes.base, f.bytes.registered) \in AllBytes
    BY <2>1 DEF WellFormed, AllBytes, Bytes
  <2>3. f.mode \in Modes /\ f.owner \in Owners /\ f.kind \in Kinds
    BY <2>1 DEF WellFormed, Modes, Owners, Kinds
  <2>4. File(f.kind, Bytes(f.bytes.base, f.bytes.registered), f.mode, f.owner) \in AllFiles
    BY <2>2, <2>3 DEF AllFiles, File
  <2> QED
    BY <2>1, <2>4 DEF WellFormed, Proper
<1> QED
  BY <1>1, <1>2, <1>3, <1>4

(* A command goes on: only its place changes.                              *)
LEMMA AtFacts ==
  ASSUME command \in CommandType, NEW n \in CommandNames, NEW p \in Nat, NEW ph \in 0..2
  PROVE  /\ At(n, p, ph) \in CommandType
         /\ At(n, p, ph).name = n /\ At(n, p, ph).pos = p /\ At(n, p, ph).phase = ph
         /\ At(n, p, ph).apply = command.apply /\ At(n, p, ph).configs = command.configs
BY DEF At, CommandType

\* No command runs: the state every command starts from.
LEMMA IdleFacts ==
  /\ Idle \in CommandType /\ Idle.name = "idle" /\ Idle.pos = 1 /\ Idle.phase = 0
  /\ \A id \in Ids : Idle.configs[id] = Nothing
<1>1. [id \in Ids |-> Nothing] \in [Ids -> AllBytes]
  BY ByteFacts
<1>2. Idle \in CommandType /\ Idle.name = "idle" /\ Idle.pos = 1 /\ Idle.phase = 0
      /\ Idle.configs = [id \in Ids |-> Nothing]
  BY <1>1 DEF Idle, CommandType, CommandNames
<1> QED
  BY <1>2

\* The first state of a command.
LEMMA Begins ==
  ASSUME NEW n \in CommandNames, NEW c,
         \/ c = [Idle EXCEPT !.name = n]
         \/ \E a \in BOOLEAN : c = [Idle EXCEPT !.name = n, !.apply = a]
  PROVE  c \in CommandType /\ c.name = n /\ c.pos = 1 /\ c.phase = 0 /\ c.configs = Idle.configs
<1>1. CASE c = [Idle EXCEPT !.name = n]
  BY <1>1, IdleFacts DEF CommandType
<1>2. CASE \E a \in BOOLEAN : c = [Idle EXCEPT !.name = n, !.apply = a]
  BY <1>2, IdleFacts DEF CommandType
<1> QED
  BY <1>1, <1>2

----------------------------------------------------------------------------
\* What a restore works from

\* Captures are numbered from one on.
LEMMA CaptureFacts ==
  ASSUME CapturesWhole
  PROVE  /\ Len(taken) \in Nat /\ DOMAIN taken = 1..Len(taken)
         /\ \A n \in DOMAIN taken : taken[n] \in Captures
BY LenProperties, ElementOfSeq DEF CapturesWhole

(* The plan and the manifest agree on what decides the contents.           *)
LEMMA PlanFacts ==
  ASSUME CapturesWhole, Checked, CaptureInv
  PROVE  /\ Plan \in Captures
         /\ \A id \in Ids :
              /\ Proper(Plan.files[id]) /\ Proper(Manifest[id])
              /\ Plan.files[id].kind = Manifest[id].kind
              /\ Manifest[id].kind = "regular" => copies[id] = Manifest[id].bytes
              /\ Manifest[id].kind = "symlink" => Manifest[id].bytes = Plan.files[id].bytes
              /\ documents["plan"] = documents["manifest"] => Manifest[id] = Plan.files[id]
<1>1. \A d \in DocumentNames : documents[d].by \in DOMAIN taken
  BY DocumentFacts DEF Checked, Readable, CaptureInv
<1>2. documents["plan"].by \in DOMAIN taken /\ documents["manifest"].by \in DOMAIN taken
  BY <1>1 DEF DocumentNames
<1>3. Plan \in Captures
  BY <1>2, CaptureFacts DEF Plan
<1>4. ASSUME NEW id \in Ids
      PROVE  /\ Proper(Plan.files[id]) /\ Proper(Manifest[id])
             /\ Plan.files[id].kind = Manifest[id].kind
             /\ Manifest[id].kind = "regular" => copies[id] = Manifest[id].bytes
             /\ Manifest[id].kind = "symlink" => Manifest[id].bytes = Plan.files[id].bytes
             /\ documents["plan"] = documents["manifest"] => Manifest[id] = Plan.files[id]
  <2>1. Proper(Plan.files[id]) /\ Proper(Manifest[id])
    BY <1>2 DEF CapturesWhole, Plan, Manifest
  <2>2. /\ Plan.files[id].kind = Manifest[id].kind
        /\ Manifest[id].kind = "regular" => copies[id] = Manifest[id].bytes
        /\ Manifest[id].kind = "symlink" => Manifest[id].bytes = Plan.files[id].bytes
    BY DEF Checked, VerifyRestoreExecutionInputs, VerifyBackupCopy
  <2>3. documents["plan"] = documents["manifest"] => Manifest[id] = Plan.files[id]
    BY DEF Manifest, Plan
  <2> QED
    BY <2>1, <2>2, <2>3
<1> QED
  BY <1>3, <1>4

----------------------------------------------------------------------------
\* The host

\* A proper file in the place of another keeps the host whole.
LEMMA PutProper ==
  ASSUME HostWhole, NEW p \in Paths, NEW f, Proper(f), host' = [host EXCEPT ![p] = f]
  PROVE  HostWhole'
BY DEF HostWhole, Proper

\* A restored path holds a proper file after each of its effects.
LEMMA RestorePathProper ==
  ASSUME Whole, CaptureInv, RestoreChecked, RestorePath
  PROVE  HostWhole'
<1>0. HostWhole /\ command.pos \in Nat /\ Checked /\ CapturesWhole
  BY DEF Whole, CommandWhole, RestoreChecked, Restoring, RestorePath
<1>1. ASSUME NEW p \in Paths, RemovePathIfPresent(p) PROVE HostWhole'
  BY <1>0, <1>1, PutProper, FileFacts DEF RemovePathIfPresent, Put
<1>2. ASSUME NEW id \in Ids, RestoreRegularFile(id, Plan.files[id]) PROVE HostWhole'
  <2> DEFINE to == Plan.files[id]
  <2>0. Proper(to) /\ to.kind = Manifest[id].kind /\ to.kind = "regular" /\ copies[id] = Manifest[id].bytes
        /\ Proper(Manifest[id]) /\ id \in Paths /\ Proper(host[id])
    BY <1>0, <1>2, PlanFacts, ListFacts DEF RestoreRegularFile, HostWhole
  <2>1. to.mode \in Modes /\ to.owner \in Owners /\ copies[id] \in AllBytes /\ copies[id] # Torn
    BY <2>0 DEF Proper, AllFiles
  <2>2. CASE Put(id, File("regular", copies[id], to.mode, "root"))
    BY <1>0, <2>0, <2>1, <2>2, PutProper, FileFacts DEF Put
  <2>3. CASE Put(id, host[id])
    BY <1>0, <2>0, <2>3, PutProper DEF Put
  <2>4. CASE /\ Put(id, [host[id] EXCEPT !.mode = to.mode, !.owner = to.owner])
             /\ host[id].kind # "missing"
    <3>1. Proper([host[id] EXCEPT !.mode = to.mode, !.owner = to.owner])
      BY <2>0, <2>1, <2>4 DEF Proper, AllFiles
    <3> QED
      BY <1>0, <2>0, <2>4, <3>1, PutProper DEF Put
  <2> QED
    BY <1>2, <2>2, <2>3, <2>4 DEF RestoreRegularFile
<1>3. ASSUME NEW id \in Ids, RestoreSymlink(id, Plan.files[id]) PROVE HostWhole'
  <2> DEFINE to == Plan.files[id]
  <2>0. Proper(to) /\ id \in Paths /\ Proper(host[id])
    BY <1>0, <1>3, PlanFacts, ListFacts DEF HostWhole
  <2>1. to.mode \in Modes /\ to.owner \in Owners /\ to.bytes \in AllBytes /\ to.bytes # Torn
    BY <2>0 DEF Proper, AllFiles
  <2>2. CASE Put(id, Missing)
    BY <1>0, <2>0, <2>2, PutProper, FileFacts DEF Put
  <2>3. CASE Put(id, File("symlink", to.bytes, to.mode, "root"))
    BY <1>0, <2>0, <2>1, <2>3, PutProper, FileFacts DEF Put
  <2>4. CASE Put(id, [host[id] EXCEPT !.owner = to.owner]) /\ host[id].kind # "missing"
    <3>1. Proper([host[id] EXCEPT !.owner = to.owner])
      BY <2>0, <2>1, <2>4 DEF Proper, AllFiles
    <3> QED
      BY <1>0, <2>0, <2>4, <3>1, PutProper DEF Put
  <2> QED
    BY <1>3, <2>2, <2>3, <2>4 DEF RestoreSymlink
<1>4. CASE command.pos <= Len(Sources)
  <2>1. command.pos \in DOMAIN Sources
    BY <1>0, <1>4, ListFacts DEF RestorePath, Whole, CommandWhole
  <2>2. PICK id \in Ids : id = Sources[command.pos]
    BY <2>1, ListFacts
  <2>3. \/ RestoreRegularFile(id, Plan.files[id])
        \/ RestoreSymlink(id, Plan.files[id])
        \/ RemovePathIfPresent(id)
    BY <1>4, <2>2 DEF RestorePath
  <2> QED
    BY <1>1, <1>2, <1>3, <2>3, ListFacts
<1>5. CASE ~(command.pos <= Len(Sources))
  BY <1>1, <1>5, ListFacts DEF RestorePath
<1> QED
  BY <1>4, <1>5

\* Every step leaves whole files on the host.
LEMMA HostStep ==
  ASSUME Whole, CaptureInv, RestoreChecked, Next
  PROVE  HostWhole'
<1>0. HostWhole
  BY DEF Whole
<1>1. CASE UNCHANGED host
  BY <1>0, <1>1 DEF HostWhole
<1>2. CASE WriteConfigFile
  <2>1. command.pos \in DOMAIN Writes
    BY <1>2, ListFacts DEF WriteConfigFile, Whole, CommandWhole
  <2>2. PICK id \in Ids : id = Writes[command.pos]
    BY <2>1, ListFacts
  <2>3. host' = [host EXCEPT ![id] = File("regular", command.configs[id], "0644", "root")]
    BY <1>2, <2>2 DEF WriteConfigFile
  <2>4. command.configs[id] \in AllBytes /\ command.configs[id] # Torn
    BY DEF Whole, CommandWhole, CommandType
  <2>5. Proper(File("regular", command.configs[id], "0644", "root")) /\ id \in Paths
    BY <2>4, FileFacts, ListFacts
  <2> QED
    BY <1>0, <2>3, <2>5, PutProper
<1>3. CASE RestorePath
  BY <1>3, RestorePathProper
<1>4. ASSUME NEW p \in Paths, NEW file \in Edits, EditFile(p, file) PROVE HostWhole'
  BY <1>0, <1>4, PutProper, FileFacts DEF EditFile, Put, Given
<1> QED
  BY <1>1, <1>2, <1>3, <1>4
     DEF Next, Tool, BeginCapture, CaptureSource, PlanRestore, WriteDocument, PlanRegistration,
         ReportRegistration, BeginRestore, RestoreServiceState, ReportRestore, Abandon, OperateService

----------------------------------------------------------------------------
\* The services, the captures, the output directory and the command

\* The records a service may become.
ServiceSet(s) ==
  [active : Actives, unit : Units,
   loaded : {f \in [Inputs[s] -> AllBytes] : \A id \in Inputs[s] : f[id] # Torn}]

\* A service is whole when it is a member of its set of states.
LEMMA ServiceWholeIsMember ==
  ASSUME NEW s \in Names
  PROVE  ServiceWhole(s) <=> services[s] \in ServiceSet(s)
BY DEF ServiceWhole, ServiceSet

(* A service that is started runs with what is on the host.                *)
LEMMA StartedWhole ==
  ASSUME HostWhole, NEW s \in Names, ServiceWhole(s)
  PROVE  /\ Started(s) \in ServiceSet(s)
         /\ Started(s).active = "active" /\ Started(s).loaded = Configuration(s)
         /\ Configuration(s) \in [Inputs[s] -> AllBytes]
         /\ \A id \in Inputs[s] : Configuration(s)[id] = host[id].bytes /\ Configuration(s)[id] # Torn
<1>1. Inputs[s] \subseteq Paths
  BY ConstantsAssumption, ListFacts
<1>2. /\ Configuration(s) \in [Inputs[s] -> AllBytes]
      /\ \A id \in Inputs[s] : Configuration(s)[id] = host[id].bytes /\ Configuration(s)[id] # Torn
  BY <1>1 DEF HostWhole, Configuration, Proper, AllFiles
<1>3. Started(s) \in ServiceSet(s) /\ Started(s).active = "active" /\ Started(s).loaded = Configuration(s)
  <2>1. services[s] \in ServiceSet(s)
    BY ServiceWholeIsMember
  <2>2. PICK c \in {f \in [Inputs[s] -> AllBytes] : \A id \in Inputs[s] : f[id] # Torn} : c = Configuration(s)
    BY <1>2
  <2>3. Started(s) = [services[s] EXCEPT !.active = "active", !.loaded = c]
    BY <2>2 DEF Started
  <2> QED
    BY ZenonT(60), <2>1, <2>2, <2>3 DEF ServiceSet, Actives
<1> QED
  BY <1>2, <1>3

\* A service in a possible state in the place of another.
LEMMA ServicePut ==
  ASSUME ServicesWhole, NEW s \in Names, NEW new \in ServiceSet(s), services' = [services EXCEPT ![s] = new]
  PROVE  ServicesWhole'
<1>1. DOMAIN services' = Names
  BY DEF ServicesWhole
<1>2. ASSUME NEW u \in Names PROVE ServiceWhole(u)'
  <2>1. services'[u] \in ServiceSet(u)
    BY ServiceWholeIsMember DEF ServicesWhole
  <2> QED
    BY <2>1 DEF ServiceSet, ServiceWhole
<1> QED
  BY <1>1, <1>2 DEF ServicesWhole

\* Every step keeps the services in possible states.
LEMMA ServicesStep ==
  ASSUME Whole, CaptureInv, RestoreChecked, Next
  PROVE  ServicesWhole'
<1>0. ServicesWhole /\ HostWhole /\ CapturesWhole
  BY DEF Whole
<1>1. CASE UNCHANGED services
  BY <1>0, <1>1 DEF ServicesWhole, ServiceWhole
<1>2. ASSUME NEW s \in Names
      PROVE  /\ services[s] \in ServiceSet(s) /\ Started(s) \in ServiceSet(s)
             /\ \A a \in Actives : [services[s] EXCEPT !.active = a] \in ServiceSet(s)
             /\ \A u \in Units : [services[s] EXCEPT !.unit = u] \in ServiceSet(s)
  <2>1. services[s] \in ServiceSet(s) /\ ServiceWhole(s)
    BY <1>0, ServiceWholeIsMember DEF ServicesWhole
  <2>2. Started(s) \in ServiceSet(s)
    BY <1>0, <2>1, StartedWhole
  <2> QED
    BY <2>1, <2>2 DEF ServiceSet
<1>3. "active" \in Actives /\ "inactive" \in Actives /\ "failed" \in Actives
      /\ "disabled" \in Units /\ SupportedUnits \subseteq Units
  BY DEF Actives, Units, SupportedUnits
<1>4. ASSUME NEW s \in Names, OperateService(s) PROVE ServicesWhole'
  <2>1. CASE services' = [services EXCEPT ![s] = Started(s)]
    BY <1>0, <1>2, <2>1, ServicePut
  <2>2. CASE services' = [services EXCEPT ![s].active = "failed"]
    BY <1>0, <1>2, <1>3, <2>2, ServicePut
  <2>3. CASE services' = [services EXCEPT ![s].unit = "disabled"]
    BY <1>0, <1>2, <1>3, <2>3, ServicePut
  <2> QED
    BY <1>4, <2>1, <2>2, <2>3 DEF OperateService
<1>5. CASE RestoreServiceState
  <2>0. PICK s \in Names : \E to :
          \/ /\ to.unit \in SupportedUnits
             /\ services' = [services EXCEPT ![s].unit = IF to.unit = "static" THEN @ ELSE to.unit]
          \/ services' = [services EXCEPT ![s] = RestoreActiveState(s, to.active)]
    <3>1. PICK k \in DOMAIN Services : LET s == Services[k]
                                          to == Plan.services[s]
                                      IN \/ /\ to.unit \in SupportedUnits
                                            /\ services' = [services EXCEPT ![s].unit =
                                                 IF to.unit = "static" THEN @ ELSE to.unit]
                                         \/ services' = [services EXCEPT ![s] = RestoreActiveState(s, to.active)]
      BY <1>5 DEF RestoreServiceState
    <3>2. Services[k] \in Names
      BY ListFacts
    <3> QED
      BY <3>1, <3>2
  <2>1. PICK to :
          \/ /\ to.unit \in SupportedUnits
             /\ services' = [services EXCEPT ![s].unit = IF to.unit = "static" THEN @ ELSE to.unit]
          \/ services' = [services EXCEPT ![s] = RestoreActiveState(s, to.active)]
    BY <2>0
  <2>2. CASE services' = [services EXCEPT ![s] = RestoreActiveState(s, to.active)]
    <3>1. RestoreActiveState(s, to.active) \in ServiceSet(s)
      BY <1>2, <1>3 DEF RestoreActiveState
    <3> QED
      BY <1>0, <2>2, <3>1, ServicePut
  <2>3. CASE /\ to.unit \in SupportedUnits
             /\ services' = [services EXCEPT ![s].unit = IF to.unit = "static" THEN @ ELSE to.unit]
    <3>1. PICK u : u = (IF to.unit = "static" THEN services[s].unit ELSE to.unit)
      OBVIOUS
    <3>2. u \in Units
      BY <1>2, <1>3, <2>3, <3>1 DEF ServiceSet
    <3>3. services' = [services EXCEPT ![s] = [services[s] EXCEPT !.unit = u]]
      BY <2>3, <3>1
    <3> QED
      BY <1>0, <1>2, <3>2, <3>3, ServicePut
  <2> QED
    BY <2>1, <2>2, <2>3
<1> QED
  BY <1>1, <1>4, <1>5
     DEF Next, Tool, BeginCapture, CaptureSource, PlanRestore, WriteDocument, PlanRegistration,
         WriteConfigFile, ReportRegistration, BeginRestore, RestorePath, ReportRestore, Abandon, EditFile

(* A capture begins with a record of its own.                              *)
LEMMA BeginCaptureEffect ==
  ASSUME Whole, NEW apply \in BOOLEAN, BeginCapture(apply)
  PROVE  /\ CapturesWhole' /\ Len(taken') = Len(taken) + 1
         /\ \A n \in DOMAIN taken : n \in DOMAIN taken' /\ taken'[n] = taken[n]
<1> DEFINE new == [files    |-> [id \in Ids |-> Missing],
                   services |-> [s \in Names |-> [active |-> services[s].active,
                                                  unit   |-> services[s].unit]]]
<1>1. CapturesWhole /\ ServicesWhole
  BY DEF Whole
<1>2. new \in Captures
  <2>1. [id \in Ids |-> Missing] \in [Ids -> AllFiles]
    BY FileFacts DEF Proper
  <2>2. \A s \in Names : [active |-> services[s].active, unit |-> services[s].unit] \in States
    BY <1>1 DEF ServicesWhole, ServiceWhole, States
  <2> QED
    BY <2>1, <2>2 DEF Captures
<1>3. taken' = Append(taken, new)
  BY DEF BeginCapture
<1> HIDE DEF new
<1>4. /\ taken' \in Seq(Captures) /\ Len(taken') = Len(taken) + 1
      /\ \A n \in 1..Len(taken) : taken'[n] = taken[n]
      /\ taken'[Len(taken) + 1] = new
  BY <1>1, <1>2, <1>3, AppendProperties DEF CapturesWhole
<1>5. DOMAIN taken = 1..Len(taken) /\ DOMAIN taken' = 1..(Len(taken) + 1) /\ Len(taken) \in Nat
  BY <1>1, <1>4, LenProperties DEF CapturesWhole
<1>6. \A id \in Ids : Proper(new.files[id])
  BY FileFacts DEF new
<1>7. ASSUME NEW n \in DOMAIN taken', NEW id \in Ids PROVE Proper(taken'[n].files[id])
  <2>1. CASE n \in 1..Len(taken)
    BY <1>1, <1>4, <1>5, <2>1 DEF CapturesWhole
  <2>2. CASE n = Len(taken) + 1
    BY <1>4, <1>6, <2>2
  <2> QED
    BY <1>5, <2>1, <2>2
<1>8. \A n \in DOMAIN taken : n \in DOMAIN taken' /\ taken'[n] = taken[n]
  BY <1>4, <1>5
<1> QED
  BY <1>4, <1>7, <1>8 DEF CapturesWhole

(* A path is recorded as it is found on the host.                          *)
LEMMA CaptureSourceEffect ==
  ASSUME Whole, CaptureInv, CaptureSource
  PROVE  /\ CapturesWhole' /\ Len(taken') = Len(taken) /\ DOMAIN taken' = DOMAIN taken
<1>0. CapturesWhole /\ HostWhole /\ Current \in DOMAIN taken /\ command.pos \in DOMAIN Sources
  BY ListFacts DEF Whole, CommandWhole, CaptureInv, CaptureSource
<1>1. PICK id \in Ids : id = Sources[command.pos] /\ Proper(host[id])
  BY <1>0, ListFacts DEF HostWhole
<1>2. taken' = [taken EXCEPT ![Current].files[id] = host[id]]
  BY <1>1 DEF CaptureSource
<1>3. taken[Current] \in Captures
  BY <1>0, CaptureFacts
<1>4. PICK new : new = [taken[Current] EXCEPT !.files = [taken[Current].files EXCEPT ![id] = host[id]]]
  OBVIOUS
<1>5. /\ new \in Captures /\ new.files = [taken[Current].files EXCEPT ![id] = host[id]]
  <2>1. taken[Current].files \in [Ids -> AllFiles] /\ host[id] \in AllFiles
    BY <1>1, <1>3 DEF Captures, Proper
  <2>2. [taken[Current].files EXCEPT ![id] = host[id]] \in [Ids -> AllFiles]
    BY <2>1
  <2> QED
    BY <1>3, <1>4, <2>2 DEF Captures
<1>6. taken' = [taken EXCEPT ![Current] = new]
  BY <1>2, <1>4
<1>7. Current \in 1..Len(taken) /\ Len(taken) \in Nat
  BY <1>0, CaptureFacts
<1>8. /\ taken' \in Seq(Captures) /\ Len(taken') = Len(taken)
      /\ \A j \in 1..Len(taken) : taken'[j] = IF j = Current THEN new ELSE taken[j]
  BY <1>0, <1>5, <1>6, <1>7, ExceptSeq DEF CapturesWhole
<1>9. DOMAIN taken' = DOMAIN taken /\ DOMAIN taken = 1..Len(taken)
  BY <1>0, <1>8, LenProperties DEF CapturesWhole
<1>10. \A u \in Ids : Proper(new.files[u])
  BY <1>0, <1>1, <1>3, <1>5 DEF CapturesWhole, Captures
<1>11. \A n \in DOMAIN taken', u \in Ids : Proper(taken'[n].files[u])
  BY <1>0, <1>8, <1>9, <1>10 DEF CapturesWhole
<1> QED
  BY <1>8, <1>9, <1>11 DEF CapturesWhole

\* Every step keeps the captures whole.
LEMMA CapturesStep ==
  ASSUME Whole, CaptureInv, Next
  PROVE  CapturesWhole'
<1>1. CASE UNCHANGED taken
  BY <1>1 DEF Whole, CapturesWhole
<1> QED
  BY <1>1, BeginCaptureEffect, CaptureSourceEffect
     DEF Next, Tool, PlanRestore, WriteDocument, PlanRegistration, WriteConfigFile,
         ReportRegistration, BeginRestore, RestorePath, RestoreServiceState, ReportRestore, Abandon,
         EditFile, OperateService

\* Every step keeps the capture directory's documents known.
LEMMA DirectoryStep ==
  ASSUME Whole, CaptureInv, Next
  PROVE  DirectoryTyped'
<1>0. DirectoryTyped /\ HostWhole /\ CapturesWhole
  BY DEF Whole
<1>1. CASE UNCHANGED <<copies, documents>>
  BY <1>0, <1>1 DEF DirectoryTyped
<1>2. CASE CaptureSource
  <2>1. PICK id \in Ids : id = Sources[command.pos] /\ host[id] \in AllFiles
    BY <1>0, <1>2, ListFacts DEF CaptureSource, Whole, CommandWhole, HostWhole
  <2>2. /\ UNCHANGED documents
        /\ \/ UNCHANGED copies
           \/ \E b \in AllBytes : copies' = [copies EXCEPT ![id] = b]
    BY <1>2, <2>1, ByteFacts DEF CaptureSource, AllFiles
  <2> QED
    BY <1>0, <2>2 DEF DirectoryTyped
<1>3. CASE WriteDocument
  <2>1. command.pos \in 1..3
    BY <1>3, DocumentFacts DEF WriteDocument, Whole, CommandWhole
  <2>2. PICK d \in DocumentNames : d = Documents[command.pos]
    BY <2>1, DocumentFacts
  <2>3. [whole |-> TRUE, by |-> Current] \in [whole : BOOLEAN, by : Nat]
        /\ Unwritten \in [whole : BOOLEAN, by : Nat]
    BY <1>0, CaptureFacts DEF Current, Unwritten
  <2>4. \E x \in [whole : BOOLEAN, by : Nat] : documents' = [documents EXCEPT ![d] = x]
    BY <1>3, <2>2, <2>3 DEF WriteDocument
  <2>5. UNCHANGED copies
    BY <1>3 DEF WriteDocument
  <2> QED
    BY <1>0, <2>4, <2>5 DEF DirectoryTyped
<1> QED
  BY <1>1, <1>2, <1>3
     DEF Next, Tool, BeginCapture, PlanRestore, PlanRegistration, WriteConfigFile,
         ReportRegistration, BeginRestore, RestorePath, RestoreServiceState, ReportRestore, Abandon,
         EditFile, OperateService

(* A command goes on, or ends.                                             *)
LEMMA GoesOn ==
  ASSUME CommandWhole, command.name # "idle", UNCHANGED outcome,
         NEW n \in CommandNames, NEW p \in Nat \ {0}, NEW ph \in 0..2, command' = At(n, p, ph)
  PROVE  CommandWhole'
BY AtFacts DEF CommandWhole

\* A command that ends leaves the idle state.
LEMMA EndsWhole ==
  ASSUME NEW how, Ends(how)
  PROVE  CommandWhole' /\ command'.name = "idle"
BY IdleFacts, ByteFacts DEF Ends, CommandWhole

\* The places a restore can be in after an effect on a path.
LEMMA RestorePathGoesOn ==
  ASSUME CommandWhole, RestorePath
  PROVE  \/ command' = At("restore", command.pos + 1, 0)
         \/ command' = At("restore", command.pos, 1)
         \/ command' = At("restore", command.pos, 2)
BY DEF RestorePath, RestoreRegularFile, RestoreSymlink, RemovePathIfPresent

\* The rendered configuration is a whole file.
LEMMA RenderedWhole ==
  ASSUME HostWhole
  PROVE  \A id \in Ids : Rendered(id) \in AllBytes /\ Rendered(id) # Torn
BY ByteFacts, ListFacts DEF HostWhole, Rendered, AllFiles

\* Every step keeps the command's own state whole.
LEMMA CommandStep ==
  ASSUME Whole, Next
  PROVE  CommandWhole'
<1>0. CommandWhole /\ HostWhole
  BY DEF Whole
<1>1. command.name # "idle" => command.pos \in Nat \ {0} /\ command.pos + 1 \in Nat \ {0}
  BY <1>0 DEF CommandWhole
<1>2. "capture" \in CommandNames /\ "documents" \in CommandNames /\ "render" \in CommandNames
      /\ "register" \in CommandNames /\ "restore" \in CommandNames
      /\ 0 \in 0..2 /\ 1 \in 0..2 /\ 2 \in 0..2 /\ 1 \in Nat \ {0}
  BY DEF CommandNames
<1>3. CASE UNCHANGED <<command, outcome>>
  BY <1>0, <1>3 DEF CommandWhole
<1>4. ASSUME NEW apply \in BOOLEAN, BeginCapture(apply) PROVE CommandWhole'
  <2>0. command' = [Idle EXCEPT !.name = "capture", !.apply = apply] /\ outcome' = "running"
    BY <1>4 DEF BeginCapture
  <2>1. command' \in CommandType /\ command'.pos = 1 /\ command'.configs = Idle.configs
    <3>1. \E a \in BOOLEAN : command' = [Idle EXCEPT !.name = "capture", !.apply = a]
      BY <2>0
    <3>2. "capture" \in CommandNames
      BY <1>2
    <3> QED
      BY <3>1, <3>2, Begins, ZenonT(30)
  <2> QED
    BY <2>0, <2>1, IdleFacts, ByteFacts DEF CommandWhole
<1>5. CASE CaptureSource
  <2>1. Ends("failed") \/ (command' = At("capture", command.pos + 1, 0) /\ UNCHANGED outcome)
    BY <1>5 DEF CaptureSource
  <2> QED
    BY <1>0, <1>1, <1>2, <1>5, <2>1, GoesOn, EndsWhole DEF CaptureSource
<1>6. CASE PlanRestore
  BY <1>0, <1>2, <1>6, GoesOn DEF PlanRestore
<1>7. CASE WriteDocument
  <2>1. \/ Ends("failed") \/ Ends("captured")
        \/ command' = At("documents", command.pos + 1, 0) /\ UNCHANGED outcome
        \/ command' = At("render", 1, 0) /\ UNCHANGED outcome
    BY <1>7 DEF WriteDocument
  <2> QED
    BY <1>0, <1>1, <1>2, <1>7, <2>1, GoesOn, EndsWhole DEF WriteDocument
<1>8. CASE PlanRegistration
  <2>1. PICK c : c = [id \in Ids |-> IF id \in Range(Writes) THEN Rendered(id) ELSE Nothing]
    OBVIOUS
  <2>2. c \in [Ids -> AllBytes] /\ \A id \in Ids : c[id] # Torn
    BY <1>0, <2>1, RenderedWhole, ByteFacts
  <2>3. command' = [At("register", 1, 0) EXCEPT !.configs = c] /\ UNCHANGED outcome
        /\ command.name # "idle"
    BY <1>8, <2>1 DEF PlanRegistration
  <2>4. At("register", 1, 0) \in CommandType /\ At("register", 1, 0).pos = 1
    BY <1>0, <1>2, AtFacts DEF CommandWhole
  <2>5. command' \in CommandType /\ command'.configs = c /\ command'.pos = 1
    BY <2>2, <2>3, <2>4 DEF CommandType
  <2> QED
    BY <1>0, <2>2, <2>3, <2>5 DEF CommandWhole
<1>9. CASE WriteConfigFile
  BY <1>0, <1>1, <1>2, <1>9, GoesOn DEF WriteConfigFile
<1>10. CASE ReportRegistration \/ ReportRestore \/ Abandon
  BY <1>10, EndsWhole DEF ReportRegistration, ReportRestore, Abandon
<1>11. CASE BeginRestore
  <2>1. CASE command' = [Idle EXCEPT !.name = "restore"] /\ outcome' = "running"
    <3>1. command' \in CommandType /\ command'.pos = 1 /\ command'.configs = Idle.configs
      BY <1>2, <2>1, Begins
    <3> QED
      BY <2>1, <3>1, IdleFacts, ByteFacts DEF CommandWhole
  <2>2. CASE command' = command /\ command.name = "idle"
    BY <1>0, <2>2 DEF CommandWhole
  <2> QED
    BY <1>11, <2>1, <2>2 DEF BeginRestore
<1>12. CASE RestorePath
  BY <1>0, <1>1, <1>2, <1>12, RestorePathGoesOn, GoesOn DEF RestorePath
<1>13. CASE RestoreServiceState
  <2>1. /\ command.name # "idle" /\ UNCHANGED outcome
        /\ \/ command' = At("restore", command.pos, 1)
           \/ command' = At("restore", command.pos + 1, 0)
    BY <1>13 DEF RestoreServiceState
  <2> QED
    BY <1>0, <1>1, <1>2, <2>1, GoesOn
<1> QED
  BY <1>3, <1>4, <1>5, <1>6, <1>7, <1>8, <1>9, <1>10, <1>11, <1>12, <1>13
     DEF Next, Tool, EditFile, OperateService

----------------------------------------------------------------------------
\* The capture

\* Nothing that a restore reads changes.
Kept == UNCHANGED <<copies, documents, taken>>

\* What could be undone still can while the captures stay.
LEMMA UndoableKept ==
  ASSUME Kept, Current \in DOMAIN taken, Undoable
  PROVE  Current' \in DOMAIN taken' /\ Undoable'
BY DEF Kept, Current, Undoable, WrittenBy, VerifyBackupCopy

\* A checked capture stays checked while the captures stay.
LEMMA CheckedKept ==
  ASSUME Kept, Checked
  PROVE  Checked'
BY DEF Kept, Checked, Readable, VerifyRestoreExecutionInputs, VerifyBackupCopy, Manifest, Plan

\* Every step keeps what the captures promise.
LEMMA CaptureInvStep ==
  ASSUME Whole, CaptureInv, Next
  PROVE  CaptureInv'
<1>0. CommandWhole /\ CapturesWhole /\ DirectoryTyped /\ command \in CommandType
      /\ command.name \in CommandNames
  BY DEF Whole, CommandWhole, CommandType
<1>1. "capture" \in CommandNames /\ "documents" \in CommandNames /\ "render" \in CommandNames
      /\ "register" \in CommandNames /\ "restore" \in CommandNames
      /\ 0 \in 0..2 /\ 1 \in 0..2 /\ 2 \in 0..2 /\ 1 \in Nat \ {0}
      /\ (command.name # "idle" => command.pos \in Nat \ {0} /\ command.pos + 1 \in Nat /\ outcome = "running")
  BY <1>0 DEF CommandNames, CommandWhole
<1>2. CASE Kept /\ UNCHANGED <<command, outcome>>
  BY <1>2, UndoableKept DEF Kept, CaptureInv, WrittenBy, Current, VerifyBackupCopy, Undoable
<1>3. ASSUME Kept, command'.name \in {"idle", "restore"}, outcome' \notin {"registered", "half registered"}
      PROVE  CaptureInv'
  BY <1>3 DEF Kept, CaptureInv
<1>4. ASSUME NEW apply \in BOOLEAN, BeginCapture(apply) PROVE CaptureInv'
  <2>1. command'.name = "capture" /\ outcome' = "running" /\ UNCHANGED documents
    BY ZenonT(60), <1>1, <1>4, Begins DEF BeginCapture
  <2>2. Len(taken') = Len(taken) + 1 /\ CapturesWhole'
        /\ \A n \in DOMAIN taken : n \in DOMAIN taken' /\ taken'[n] = taken[n]
    BY <1>4, BeginCaptureEffect
  <2>3. Current' \in DOMAIN taken'
    <3>1. DOMAIN taken' = 1..Len(taken') /\ Len(taken) \in Nat
      BY <1>0, <2>2, LenProperties DEF CapturesWhole
    <3> QED
      BY <2>2, <3>1 DEF Current
  <2> QED
    BY <2>1, <2>2, <2>3 DEF CaptureInv
<1>5. CASE CaptureSource
  <2>1. Len(taken') = Len(taken) /\ DOMAIN taken' = DOMAIN taken /\ UNCHANGED documents
    BY <1>5, CaptureSourceEffect DEF CaptureSource
  <2>2. \/ command'.name = "idle" /\ outcome' = "failed"
        \/ command'.name = "capture" /\ outcome' = "running"
    BY <1>0, <1>1, <1>5, AtFacts, EndsWhole DEF CaptureSource, Ends
  <2>3. Current' = Current /\ Current \in DOMAIN taken
    BY <1>5, <2>1 DEF CaptureInv, CaptureSource, Current
  <2> QED
    BY <2>1, <2>2, <2>3 DEF CaptureInv
<1>6. CASE PlanRestore
  <2>1. Kept /\ command'.name = "documents" /\ command'.pos = 1 /\ outcome' = "running"
    BY <1>0, <1>1, <1>6, AtFacts DEF PlanRestore, Kept
  <2>2. Current \in DOMAIN taken /\ \A id \in Ids : VerifyBackupCopy(taken[Current].files, id)
    BY <1>6 DEF PlanRestore, CaptureInv
  <2>3. \A i \in DOMAIN Documents : ~(i < 1)
    BY DocumentFacts
  <2> QED
    BY <2>1, <2>2, <2>3 DEF CaptureInv, Kept, Current, VerifyBackupCopy
<1>7. CASE WriteDocument
  <2>1. /\ Current \in DOMAIN taken /\ \A id \in Ids : VerifyBackupCopy(taken[Current].files, id)
        /\ \A i \in DOMAIN Documents : i < command.pos => WrittenBy(Documents[i])
        /\ \A e \in DocumentNames : documents[e].whole => documents[e].by \in DOMAIN taken
    BY <1>7 DEF WriteDocument, CaptureInv
  <2>2. command.pos \in 1..3
    BY <1>1, <1>7, DocumentFacts DEF WriteDocument
  <2>3. UNCHANGED <<copies, taken>> /\ Current' = Current
    BY <1>7 DEF WriteDocument, Current
  <2>4. PICK d \in DocumentNames : d = Documents[command.pos]
    BY <2>2, DocumentFacts
  <2>5. CASE documents' = [documents EXCEPT ![d] = Unwritten] /\ Ends("failed")
    <3>1. command'.name = "idle" /\ outcome' = "failed"
      BY <2>5, EndsWhole DEF Ends
    <3>2. \A e \in DocumentNames : documents'[e].whole => documents'[e].by \in DOMAIN taken
      BY <1>0, <2>1, <2>5 DEF DirectoryTyped, Unwritten
    <3> QED
      BY <2>3, <3>1, <3>2 DEF CaptureInv
  <2>6. CASE /\ documents' = [documents EXCEPT ![d] = [whole |-> TRUE, by |-> Current]]
             /\ \/ command.pos < 3 /\ command' = At("documents", command.pos + 1, 0) /\ UNCHANGED outcome
                \/ command.pos = 3 /\ command' = At("render", 1, 0) /\ UNCHANGED outcome
                \/ Ends("captured")
    <3>1. /\ documents'[d] = [whole |-> TRUE, by |-> Current]
          /\ \A e \in DocumentNames : e # d => documents'[e] = documents[e]
      BY <1>0, <2>6 DEF DirectoryTyped
    <3>2. \A e \in DocumentNames : documents'[e].whole => documents'[e].by \in DOMAIN taken
      BY <2>1, <3>1
    <3>3. \A i \in DOMAIN Documents : i <= command.pos => WrittenBy(Documents[i])'
      <4>1. \A i \in DOMAIN Documents : Documents[i] \in DocumentNames
        BY DocumentFacts
      <4>2. \A i \in DOMAIN Documents : i <= command.pos => i < command.pos \/ i = command.pos
        BY <2>2, DocumentFacts
      <4> QED
        BY <2>1, <2>3, <2>4, <3>1, <4>1, <4>2 DEF WrittenBy
    <3>4. CASE Ends("captured")
      <4>1. command'.name = "idle" /\ outcome' = "captured"
        BY <3>4, EndsWhole DEF Ends
      <4> QED
        BY <2>3, <3>2, <4>1 DEF CaptureInv
    <3>5. CASE command.pos < 3 /\ command' = At("documents", command.pos + 1, 0) /\ UNCHANGED outcome
      <4>1. command'.name = "documents" /\ command'.pos = command.pos + 1 /\ outcome' = "running"
        BY <1>0, <1>1, <1>7, <3>5, AtFacts DEF WriteDocument
      <4>2. \A i \in DOMAIN Documents : i < command'.pos => WrittenBy(Documents[i])'
        <5>1. \A i \in DOMAIN Documents : i < command.pos + 1 => i <= command.pos
          BY <2>2, DocumentFacts
        <5> QED
          BY <3>3, <4>1, <5>1
      <4> QED
        BY <2>1, <2>3, <3>2, <4>1, <4>2 DEF CaptureInv, VerifyBackupCopy
    <3>6. CASE command.pos = 3 /\ command' = At("render", 1, 0) /\ UNCHANGED outcome
      <4>1. command'.name = "render" /\ outcome' = "running"
        BY <1>0, <1>1, <1>7, <3>6, AtFacts DEF WriteDocument
      <4>2. \A e \in DocumentNames : WrittenBy(e)'
        BY <3>3, <3>6, DocumentFacts DEF DocumentNames
      <4> QED
        BY <2>1, <2>3, <3>2, <4>1, <4>2 DEF CaptureInv, Undoable, VerifyBackupCopy
    <3> QED
      BY <2>6, <3>4, <3>5, <3>6
  <2>7. command.pos < 3 \/ command.pos = 3
    BY <2>2
  <2> QED
    BY <1>7, <2>4, <2>5, <2>6, <2>7, DocumentFacts DEF WriteDocument
<1>8. CASE PlanRegistration \/ WriteConfigFile
  <2>1. Kept /\ command'.name = "register" /\ outcome' = "running"
    <3>1. At("register", 1, 0).name = "register" /\ At("register", 1, 0) \in CommandType
      BY <1>0, <1>1, AtFacts
    <3>2. CASE PlanRegistration
      BY <1>1, <3>1, <3>2 DEF PlanRegistration, Kept, CommandType
    <3>3. CASE WriteConfigFile
      BY <1>0, <1>1, <3>3, AtFacts DEF WriteConfigFile, Kept
    <3> QED
      BY <1>8, <3>2, <3>3
  <2>2. Current \in DOMAIN taken /\ Undoable
    BY <1>8 DEF PlanRegistration, WriteConfigFile, CaptureInv
  <2>3. Current' \in DOMAIN taken' /\ Undoable'
    BY <2>1, <2>2, UndoableKept
  <2> QED
    BY <2>1, <2>3 DEF CaptureInv, Kept
<1>9. CASE ReportRegistration \/ (Abandon /\ command.name = "register")
  <2>1. Kept /\ command'.name = "idle" /\ command.name = "register"
    BY <1>9, EndsWhole DEF ReportRegistration, Abandon, Kept
  <2>2. Current' \in DOMAIN taken' /\ Undoable'
    BY <2>1, UndoableKept DEF CaptureInv
  <2> QED
    BY <2>1, <2>2 DEF CaptureInv, Kept
<1>10. CASE Abandon /\ command.name # "register"
  <2>1. Kept /\ command'.name = "idle" /\ outcome' = "failed"
    BY <1>10, EndsWhole DEF Abandon, Ends, Kept
  <2> QED
    BY <1>3, <2>1
<1>11. CASE ReportRestore
  <2>1. Kept /\ command'.name = "idle" /\ outcome' = "restored"
    BY <1>11, EndsWhole DEF ReportRestore, Ends, Kept
  <2> QED
    BY <1>3, <2>1
<1>12. CASE BeginRestore
  <2>1. Kept /\ command'.name \in {"idle", "restore"} /\ outcome' \in {"running", "refused"}
    BY <1>1, <1>12, Begins DEF BeginRestore, Kept
  <2> QED
    BY <1>3, <2>1
<1>13. CASE RestorePath \/ RestoreServiceState
  <2>1. Kept /\ outcome' = "running"
    BY <1>1, <1>13 DEF RestorePath, RestoreServiceState, Kept
  <2>2. command'.name = "restore"
    BY <1>0, <1>1, <1>13, RestorePathGoesOn, AtFacts DEF RestoreServiceState, RestorePath
  <2> QED
    BY <1>3, <2>1, <2>2
<1> QED
  BY <1>2, <1>4, <1>5, <1>6, <1>7, <1>8, <1>9, <1>10, <1>11, <1>12, <1>13
     DEF Next, Tool, EditFile, OperateService, Kept

----------------------------------------------------------------------------
\* The restore

\* A path that was put back stays back while nobody writes it.
LEMMA BackKept ==
  ASSUME Kept, NEW id, host'[id] = host[id], Back(id)
  PROVE  Back(id)'
BY DEF Kept, Back, Manifest

\* A service that runs restored files does so while nobody operates it.
LEMMA RunsKept ==
  ASSUME Kept, touched \subseteq touched', NEW s, services'[s].active = services[s].active,
         services'[s].loaded = services[s].loaded, Runs(s)
  PROVE  Runs(s)'
BY DEF Kept, Runs, Plan, Manifest

(* Where no restore is under way nor was the last command, nothing is      *)
(* claimed.                                                                *)
LEMMA NotRestoring ==
  ASSUME ~Restoring'
  PROVE  RestoreInv'
BY DEF Restoring, RestoreInv, RestoreChecked, FilesInv, ServicesInv, RestoredIsCaptured, ServicesRunRestored

\* The steps of other commands find no restore under way.
LEMMA OtherCommands ==
  ASSUME Whole,
         \/ \E apply \in BOOLEAN : BeginCapture(apply)
         \/ CaptureSource \/ PlanRestore \/ WriteDocument \/ PlanRegistration \/ WriteConfigFile
         \/ ReportRegistration \/ Abandon
  PROVE  ~Restoring'
<1>0. command \in CommandType /\ (command.name # "idle" => outcome = "running")
      /\ (command.name # "idle" => command.pos \in Nat /\ command.pos + 1 \in Nat)
  BY DEF Whole, CommandWhole
<1>1. "capture" \in CommandNames /\ "documents" \in CommandNames /\ "render" \in CommandNames
      /\ "register" \in CommandNames /\ 0 \in 0..2 /\ 1 \in Nat
  BY DEF CommandNames
<1>2. CASE \E apply \in BOOLEAN : BeginCapture(apply)
  <2>1. command'.name = "capture" /\ outcome' = "running"
    <3>1. PICK apply \in BOOLEAN : BeginCapture(apply)
      BY <1>2
    <3>2. \E a \in BOOLEAN : command' = [Idle EXCEPT !.name = "capture", !.apply = a]
      BY <3>1 DEF BeginCapture
    <3>3. command'.name = "capture"
      BY <1>1, <3>2, Begins, Zenon
    <3> QED
      BY <3>1, <3>3 DEF BeginCapture
  <2> QED
    BY <2>1 DEF Restoring
<1>3. ASSUME NEW how, Ends(how), how # "restored" PROVE ~Restoring'
  BY <1>3, EndsWhole DEF Ends, Restoring
<1>4. ASSUME NEW n \in CommandNames \ {"restore"}, NEW p \in Nat, command' = At(n, p, 0),
             UNCHANGED outcome, command.name # "idle"
      PROVE  ~Restoring'
  <2>1. command'.name = n
    BY <1>0, <1>1, <1>4, AtFacts
  <2> QED
    BY <1>0, <1>4, <2>1 DEF Restoring
<1>5. CASE CaptureSource
  BY <1>0, <1>1, <1>3, <1>4, <1>5 DEF CaptureSource
<1>6. CASE PlanRestore
  BY <1>1, <1>4, <1>6 DEF PlanRestore
<1>7. CASE WriteDocument
  BY <1>0, <1>1, <1>3, <1>4, <1>7 DEF WriteDocument
<1>8. CASE PlanRegistration
  <2>1. At("register", 1, 0).name = "register" /\ At("register", 1, 0) \in CommandType
    BY <1>0, <1>1, AtFacts
  <2>2. command'.name = "register" /\ outcome' = "running"
    BY <1>0, <1>8, <2>1 DEF PlanRegistration, CommandType
  <2> QED
    BY <2>2 DEF Restoring
<1>9. CASE WriteConfigFile
  BY <1>0, <1>1, <1>4, <1>9 DEF WriteConfigFile
<1>10. CASE ReportRegistration \/ Abandon
  BY <1>3, <1>10 DEF ReportRegistration, Abandon
<1> QED
  BY <1>2, <1>5, <1>6, <1>7, <1>8, <1>9, <1>10

(* A restore begins with everything checked and nothing done.              *)
LEMMA BeginRestoreStep ==
  ASSUME Whole, BeginRestore
  PROVE  RestoreInv'
<1>0. Kept /\ command.name = "idle"
  BY DEF BeginRestore, Kept
<1>1. CASE ~(Readable /\ VerifyRestoreExecutionInputs)
  <2>1. ~Restoring'
    BY <1>0, <1>1 DEF BeginRestore, Restoring
  <2> QED
    BY <2>1, NotRestoring
<1>2. CASE Readable /\ VerifyRestoreExecutionInputs
  <2>1. Checked'
    BY <1>0, <1>2, CheckedKept DEF Checked
  <2>2. command'.name = "restore" /\ command'.pos = 1 /\ command'.phase = 0 /\ outcome' = "running"
    BY <1>2, Begins DEF BeginRestore, CommandNames
  <2>3. FilesInv'
    <3>1. /\ \A i \in DOMAIN Sources : ~(i < 1)
          /\ ~(1 > Len(Sources) + 1)
      BY ListFacts
    <3> QED
      BY <2>2, <3>1 DEF FilesInv, HalfBack
  <2>4. ServicesInv'
    <3>1. \A k \in DOMAIN Services : ~(Len(Sources) + 1 + k < 1)
      BY ListFacts
    <3> QED
      BY <2>2, <3>1 DEF ServicesInv
  <2> QED
    BY <2>1, <2>2, <2>3, <2>4 DEF RestoreInv, RestoreChecked, RestoredIsCaptured, ServicesRunRestored
<1> QED
  BY <1>1, <1>2

(* A file is determined by its fields.                                     *)
FileOf(k, b, m, o) == [kind : {k}, bytes : {b}, mode : {m}, owner : {o}]

\* A file is its four fields.
LEMMA FileByFields ==
  ASSUME NEW k, NEW b, NEW m, NEW o
  PROVE  \A f : f \in FileOf(k, b, m, o) <=> f = File(k, b, m, o)
BY DEF File, FileOf

(* A path is put back in phases, the last of which leaves it as captured.  *)
LEMMA PathBack ==
  ASSUME Whole, CaptureInv, RestoreInv, command.name = "restore", command.pos \in DOMAIN Sources,
         NEW id \in Ids, id = Sources[command.pos], RestorePath, id \notin touched
  PROVE  \/ command' = At("restore", command.pos + 1, 0) /\ Back(id)'
         \/ /\ command' = At("restore", command.pos, 1)
            /\ Plan.files[id].kind = "regular" => host'[id] = File("regular", copies[id], Plan.files[id].mode, "root")
         \/ /\ command' = At("restore", command.pos, 2)
            /\ host'[id] = File("symlink", Plan.files[id].bytes, Plan.files[id].mode, "root")
<1> DEFINE to == Plan.files[id]
<1>0. /\ Kept /\ host \in [Paths -> AllFiles] /\ id \in Paths
      /\ command.pos <= Len(Sources)
  BY ListFacts DEF RestorePath, Kept, Whole, HostWhole
<1>1. /\ Proper(to) /\ Proper(Manifest[id]) /\ to.kind = Manifest[id].kind
      /\ Manifest[id].kind = "regular" => copies[id] = Manifest[id].bytes
      /\ Manifest[id].kind = "symlink" => Manifest[id].bytes = to.bytes
      /\ documents["plan"] = documents["manifest"] => Manifest[id] = to
  BY PlanFacts DEF RestoreInv, RestoreChecked, Restoring, Whole
<1>2. to \in AllFiles /\ to = File(to.kind, to.bytes, to.mode, to.owner)
  BY <1>1 DEF Proper, AllFiles, File
<1>3. HalfBack(id, to)
  BY DEF RestoreInv, FilesInv
<1>4. ASSUME NEW f, Put(id, f), f.kind = Manifest[id].kind, f.bytes = Manifest[id].bytes,
             documents["plan"] = documents["manifest"] => f = Manifest[id]
      PROVE  Back(id)'
  <2>1. host'[id] = f
    BY <1>0, <1>4 DEF Put
  <2> QED
    BY <1>0, <1>4, <2>1 DEF Back, Kept, Manifest
<1>5. CASE RestoreRegularFile(id, to)
  <2>1. CASE /\ command.phase = 0 /\ Put(id, File("regular", copies[id], to.mode, "root"))
             /\ command' = At("restore", command.pos, 1)
    BY <1>0, <2>1 DEF Put
  <2>2. CASE /\ command.phase = 1 /\ host[id].kind # "missing"
             /\ Put(id, IF host[id].kind = "symlink" THEN host[id]
                        ELSE [host[id] EXCEPT !.mode = to.mode, !.owner = to.owner])
             /\ command' = At("restore", command.pos + 1, 0)
    <3>1. to.kind = "regular" /\ host[id] = File("regular", copies[id], to.mode, "root")
      BY <1>3, <1>5, <2>2 DEF HalfBack, RestoreRegularFile
    <3>2. host[id].kind = "regular"
      BY <3>1 DEF File
    <3>3. [host[id] EXCEPT !.mode = to.mode, !.owner = to.owner]
            = File("regular", copies[id], to.mode, to.owner)
      <4>1. host[id] \in FileOf("regular", copies[id], to.mode, "root")
        BY <3>1, FileByFields
      <4>2. [host[id] EXCEPT !.mode = to.mode, !.owner = to.owner]
              \in FileOf("regular", copies[id], to.mode, to.owner)
        BY <4>1 DEF FileOf
      <4> QED
        BY <4>2, FileByFields
    <3>4. Put(id, File("regular", copies[id], to.mode, to.owner))
      BY <2>2, <3>2, <3>3
    <3>5. copies[id] = Manifest[id].bytes /\ Manifest[id].kind = "regular"
      BY <1>1, <3>1
    <3>6. documents["plan"] = documents["manifest"] => File("regular", copies[id], to.mode, to.owner) = Manifest[id]
      BY <1>1, <1>2, <3>1, <3>5
    <3>7. File("regular", copies[id], to.mode, to.owner).kind = "regular"
          /\ File("regular", copies[id], to.mode, to.owner).bytes = copies[id]
      BY DEF File
    <3> QED
      BY <1>4, <2>2, <3>4, <3>5, <3>6, <3>7
  <2> QED
    BY <1>5, <2>1, <2>2 DEF RestoreRegularFile
<1>6. CASE RestoreSymlink(id, to)
  <2>0. to.kind = "symlink"
    BY <1>6 DEF RestoreSymlink
  <2>1. CASE command' = At("restore", command.pos, 1)
    BY <2>0, <2>1
  <2>2. CASE /\ Put(id, File("symlink", to.bytes, to.mode, "root"))
             /\ command' = At("restore", command.pos, 2)
    BY <1>0, <2>2 DEF Put
  <2>3. CASE /\ command.phase = 2 /\ Put(id, [host[id] EXCEPT !.owner = to.owner])
             /\ command' = At("restore", command.pos + 1, 0)
    <3>1. host[id] = File("symlink", to.bytes, to.mode, "root")
      BY <1>3, <2>0, <2>3 DEF HalfBack
    <3>2. [host[id] EXCEPT !.owner = to.owner] = File("symlink", to.bytes, to.mode, to.owner)
      <4>1. host[id] \in FileOf("symlink", to.bytes, to.mode, "root")
        BY <3>1, FileByFields
      <4>2. [host[id] EXCEPT !.owner = to.owner] \in FileOf("symlink", to.bytes, to.mode, to.owner)
        BY <4>1 DEF FileOf
      <4> QED
        BY <4>2, FileByFields
    <3>3. Put(id, to)
      BY SMTT(40), <1>2, <2>0, <2>3, <3>2
    <3> QED
      BY <1>1, <1>4, <2>0, <2>3, <3>3
  <2> QED
    BY <1>6, <2>1, <2>2, <2>3 DEF RestoreSymlink
<1>7. CASE to.kind = "missing" /\ RemovePathIfPresent(id)
  <2>1. Put(id, Missing) /\ command' = At("restore", command.pos + 1, 0)
    BY <1>7 DEF RemovePathIfPresent
  <2>2. Manifest[id] = Missing
    BY <1>1, <1>7 DEF Proper
  <2> QED
    BY <1>4, <2>1, <2>2
<1> QED
  BY <1>0, <1>5, <1>6, <1>7 DEF RestorePath

\* Each effect on a path keeps what the restore promises.
LEMMA RestorePathStep ==
  ASSUME Whole, CaptureInv, RestoreInv, RestorePath
  PROVE  RestoreInv'
<1>0. /\ command \in CommandType /\ command.name = "restore" /\ outcome = "running"
      /\ command.pos \in Nat \ {0} /\ command.pos + 1 \in Nat /\ Kept
      /\ UNCHANGED <<services, outcome, touched>> /\ Checked
      /\ command.pos <= Len(Sources) + 1
      /\ "restore" \in CommandNames /\ 0 \in 0..2 /\ 1 \in 0..2 /\ 2 \in 0..2
  BY DEF Whole, CommandWhole, RestorePath, Kept, RestoreInv, RestoreChecked, Restoring, CommandNames
<1>1. /\ \A i \in DOMAIN Sources : i < command.pos /\ Sources[i] \notin touched => Back(Sources[i])
  BY <1>0 DEF RestoreInv, FilesInv
<1>2. /\ command'.name = "restore"
      /\ \/ command' = At("restore", command.pos + 1, 0)
         \/ command' = At("restore", command.pos, 1)
         \/ command' = At("restore", command.pos, 2)
  BY <1>0, RestorePathGoesOn, AtFacts DEF Whole
<1>3. \/ command'.pos = command.pos /\ command'.phase \in {1, 2}
      \/ command'.pos = command.pos + 1 /\ command'.phase = 0
  BY <1>0, <1>2, AtFacts
<1>4. RestoreChecked' /\ RestoredIsCaptured' /\ ServicesRunRestored'
  BY <1>0, CheckedKept DEF RestoreChecked, RestoredIsCaptured, ServicesRunRestored
<1>5. ServicesInv'
  <2>1. \A k \in DOMAIN Services : ~(Len(Sources) + 1 + k < command'.pos)
    BY <1>0, <1>3, ListFacts
  <2> QED
    BY <2>1 DEF ServicesInv
<1>6. CASE command.pos \in DOMAIN Sources
  <2>1. PICK id \in Ids : id = Sources[command.pos]
    BY <1>6, ListFacts
  <2>2. host' = [host EXCEPT ![id] = host'[id]] /\ host \in [Paths -> AllFiles] /\ id \in Paths
    <3>1. command.pos <= Len(Sources)
      BY <1>6, ListFacts
    <3>2. \E f : host' = [host EXCEPT ![id] = f]
      BY <2>1, <3>1 DEF RestorePath, RestoreRegularFile, RestoreSymlink, RemovePathIfPresent, Put
    <3> QED
      BY <3>2, ListFacts DEF Whole, HostWhole
  <2>3. \A i \in DOMAIN Sources : i < command.pos => Sources[i] # id /\ Sources[i] \in Paths
    BY <1>0, <1>6, <2>1, ListFacts, ConstantsAssumption
  <2>4. \A i \in DOMAIN Sources : i < command.pos => host'[Sources[i]] = host[Sources[i]]
    BY <2>2, <2>3
  <2>5. \A i \in DOMAIN Sources : i < command.pos /\ Sources[i] \notin touched => Back(Sources[i])'
    BY <1>0, <1>1, <2>4, BackKept
  <2>6. ~(command'.pos > Len(Sources) + 1)
    BY <1>0, <1>3, <1>6, ListFacts
  <2>7. CASE id \in touched
    <3>1. \A i \in DOMAIN Sources : i < command.pos + 1 => i < command.pos \/ Sources[i] = id
      BY <1>0, <2>1, ListFacts
    <3>2. \A i \in DOMAIN Sources : i < command'.pos /\ Sources[i] \notin touched' => Back(Sources[i])'
      BY <1>0, <1>3, <2>5, <2>7, <3>1
    <3>3. command'.pos \in DOMAIN Sources /\ Sources[command'.pos] \notin touched' => command'.phase = 0
      BY <1>0, <1>3, <2>1, <2>7
    <3> QED
      BY <1>4, <1>5, <2>6, <3>2, <3>3 DEF RestoreInv, FilesInv, HalfBack
  <2>8. CASE id \notin touched
    <3>1. CASE command' = At("restore", command.pos + 1, 0) /\ Back(id)'
      <4>1. command'.pos = command.pos + 1 /\ command'.phase = 0
        BY <1>0, <3>1, AtFacts
      <4>2. \A i \in DOMAIN Sources : i < command.pos + 1 => i < command.pos \/ Sources[i] = id
        BY <1>0, <2>1, ListFacts
      <4>3. \A i \in DOMAIN Sources : i < command'.pos /\ Sources[i] \notin touched' => Back(Sources[i])'
        BY <1>0, <2>5, <3>1, <4>1, <4>2
      <4> QED
        BY <1>4, <1>5, <2>6, <4>1, <4>3 DEF RestoreInv, FilesInv, HalfBack
    <3>2. CASE /\ command' = At("restore", command.pos, 1)
               /\ Plan.files[id].kind = "regular" =>
                    host'[id] = File("regular", copies[id], Plan.files[id].mode, "root")
      <4>1. command'.pos = command.pos /\ command'.phase = 1
        BY <1>0, <3>2, AtFacts
      <4>2. HalfBack(id, Plan.files[id])'
        BY <1>0, <3>2, <4>1 DEF HalfBack, Kept, Plan
      <4> QED
        BY <1>0, <1>4, <1>5, <2>1, <2>5, <2>6, <4>1, <4>2 DEF RestoreInv, FilesInv
    <3>3. CASE /\ command' = At("restore", command.pos, 2)
               /\ host'[id] = File("symlink", Plan.files[id].bytes, Plan.files[id].mode, "root")
      <4>1. command'.pos = command.pos /\ command'.phase = 2
        BY <1>0, <3>3, AtFacts
      <4>2. HalfBack(id, Plan.files[id])'
        BY <1>0, <3>3, <4>1 DEF HalfBack, Kept, Plan
      <4> QED
        BY <1>0, <1>4, <1>5, <2>1, <2>5, <2>6, <4>1, <4>2 DEF RestoreInv, FilesInv
    <3> QED
      BY <1>0, <1>6, <2>1, <2>8, <3>1, <3>2, <3>3, PathBack
  <2> QED
    BY <2>7, <2>8
<1>7. CASE command.pos \notin DOMAIN Sources
  <2>1. command.pos = Len(Sources) + 1 /\ \A i \in DOMAIN Sources : i < command.pos
    BY <1>0, <1>7, ListFacts
  <2>2. RemovePathIfPresent(Owned)
    BY <2>1, ListFacts DEF RestorePath
  <2>3. host' = [host EXCEPT ![Owned] = Missing] /\ command'.pos = command.pos + 1 /\ command'.phase = 0
    BY <1>0, <2>2, AtFacts DEF RemovePathIfPresent, Put
  <2>4. host \in [Paths -> AllFiles] /\ Owned \in Paths
    BY ListFacts DEF Whole, HostWhole
  <2>5. host'[Owned] = Missing /\ \A i \in DOMAIN Sources : host'[Sources[i]] = host[Sources[i]]
    BY <2>3, <2>4, ListFacts
  <2>6. \A i \in DOMAIN Sources : Sources[i] \notin touched => Back(Sources[i])'
    BY <1>0, <1>1, <2>1, <2>5, BackKept
  <2> QED
    BY <1>0, <1>4, <1>5, <2>3, <2>5, <2>6 DEF RestoreInv, FilesInv, HalfBack
<1> QED
  BY <1>6, <1>7

(* The service that is set runs with the files that are back.              *)
LEMMA ServiceRuns ==
  ASSUME Whole, Kept, NEW s \in Names, UNCHANGED touched,
         \A id \in Ids \ touched : Back(id),
         services' = [services EXCEPT ![s] = RestoreActiveState(s, Plan.services[s].active)]
  PROVE  Runs(s)'
<1>1. HostWhole /\ ServiceWhole(s) /\ DOMAIN services = Names /\ Inputs[s] \subseteq Ids
  BY ConstantsAssumption DEF Whole, ServicesWhole
<1>2. services'[s] = RestoreActiveState(s, Plan.services[s].active)
  BY <1>1
<1>3. Plan' = Plan /\ Manifest' = Manifest
  BY DEF Kept, Plan, Manifest
<1>4. CASE Plan.services[s].active = "active"
  <2>1. services'[s] = Started(s)
    BY <1>2, <1>4 DEF RestoreActiveState
  <2>2. services'[s].active = "active" /\ services'[s].loaded = Configuration(s)
    BY <1>1, <2>1, StartedWhole
  <2>3. \A id \in Inputs[s] : Configuration(s)[id] = host[id].bytes
    BY <1>1, StartedWhole
  <2>4. \A id \in Inputs[s] \ touched : services'[s].loaded[id] = Manifest[id].bytes
    BY <1>1, <2>2, <2>3 DEF Back
  <2> QED
    BY <1>3, <1>4, <2>2, <2>4 DEF Runs
<1>5. CASE Plan.services[s].active \in {"inactive", "failed"}
  <2>1. services'[s] = [services[s] EXCEPT !.active = "inactive"]
    BY <1>2, <1>5 DEF RestoreActiveState
  <2>2. services[s] \in ServiceSet(s)
    BY <1>1, ServiceWholeIsMember
  <2>3. services'[s].active = "inactive"
    BY <2>1, <2>2 DEF ServiceSet
  <2> QED
    BY <1>3, <1>5, <2>3 DEF Runs
<1>6. CASE Plan.services[s].active \notin {"active", "inactive", "failed"}
  BY <1>3, <1>6 DEF Runs
<1> QED
  BY <1>4, <1>5, <1>6

\* So does each effect on a service.
LEMMA RestoreServiceStep ==
  ASSUME Whole, CaptureInv, RestoreInv, RestoreServiceState
  PROVE  RestoreInv'
<1>0. /\ command \in CommandType /\ command.name = "restore" /\ outcome = "running"
      /\ command.pos \in Nat \ {0} /\ command.pos + 1 \in Nat /\ Kept
      /\ UNCHANGED <<host, outcome, touched>> /\ Checked
      /\ "restore" \in CommandNames /\ 0 \in 0..2 /\ 1 \in 0..2
  BY DEF Whole, CommandWhole, RestoreServiceState, Kept, RestoreInv, RestoreChecked, Restoring, CommandNames
<1>1. PICK k \in DOMAIN Services :
        /\ k = command.pos - Len(Sources) - 1
        /\ \/ /\ services' = [services EXCEPT ![Services[k]].unit =
                   IF Plan.services[Services[k]].unit = "static" THEN @ ELSE Plan.services[Services[k]].unit]
              /\ command' = At("restore", command.pos, 1)
           \/ /\ services' = [services EXCEPT ![Services[k]] =
                   RestoreActiveState(Services[k], Plan.services[Services[k]].active)]
              /\ command' = At("restore", command.pos + 1, 0)
  BY DEF RestoreServiceState
<1>2. PICK s \in Names : s = Services[k]
  BY ListFacts
<1>3. /\ command.pos = Len(Sources) + 1 + k /\ command.pos > Len(Sources) + 1
      /\ command.pos \notin DOMAIN Sources /\ command.pos + 1 \notin DOMAIN Sources
      /\ \A i \in DOMAIN Sources : i < command.pos
  <2>1. command.pos \in Nat /\ k \in Nat \ {0} /\ Len(Sources) \in Nat /\ DOMAIN Sources = 1..Len(Sources)
        /\ k = command.pos - Len(Sources) - 1
    BY <1>0, <1>1, ListFacts
  <2> QED
    BY SMTT(40), <2>1
<1>4. /\ command'.name = "restore"
      /\ command'.pos = command.pos \/ command'.pos = command.pos + 1
  BY <1>0, <1>1, AtFacts
<1>5. /\ \A i \in DOMAIN Sources : Sources[i] \notin touched => Back(Sources[i])
      /\ Owned \notin touched => host[Owned] = Missing
      /\ \A j \in DOMAIN Services :
           Len(Sources) + 1 + j < command.pos /\ Services[j] \notin touched => Runs(Services[j])
  BY <1>0, <1>3 DEF RestoreInv, FilesInv, ServicesInv
<1>6. FilesInv'
  <2>1. \A i \in DOMAIN Sources : Sources[i] \notin touched => Back(Sources[i])'
    BY <1>0, <1>5, BackKept
  <2>2. command'.pos \notin DOMAIN Sources
    BY <1>3, <1>4
  <2> QED
    BY <1>0, <1>5, <2>1, <2>2 DEF FilesInv
<1>7. RestoreChecked' /\ RestoredIsCaptured' /\ ServicesRunRestored'
  BY <1>0, CheckedKept DEF RestoreChecked, RestoredIsCaptured, ServicesRunRestored
<1>8. ServicesWhole /\ services[s] \in ServiceSet(s)
  BY ServiceWholeIsMember DEF Whole, ServicesWhole
<1>9. CASE /\ services' = [services EXCEPT ![s].unit =
                IF Plan.services[s].unit = "static" THEN @ ELSE Plan.services[s].unit]
           /\ command' = At("restore", command.pos, 1)
  <2>1. PICK u : services' = [services EXCEPT ![s] = [services[s] EXCEPT !.unit = u]]
    BY <1>9
  <2>2. \A t \in Names : services'[t].active = services[t].active /\ services'[t].loaded = services[t].loaded
    BY <1>8, <2>1 DEF ServicesWhole, ServiceSet
  <2>3. command'.pos = command.pos
    BY <1>0, <1>9, AtFacts
  <2>4. ServicesInv'
    BY <1>0, <1>5, <2>2, <2>3, RunsKept, ListFacts DEF ServicesInv
  <2> QED
    BY <1>6, <1>7, <2>4 DEF RestoreInv
<1>10. CASE /\ services' = [services EXCEPT ![s] = RestoreActiveState(s, Plan.services[s].active)]
            /\ command' = At("restore", command.pos + 1, 0)
  <2>1. \A id \in Ids \ touched : Back(id)
    BY <1>5, ListFacts
  <2>2. Runs(s)'
    BY <1>0, <1>10, <2>1, ServiceRuns
  <2>3. \A t \in Names \ {s} : services'[t] = services[t]
    BY <1>8, <1>10 DEF ServicesWhole
  <2>4. command'.pos = command.pos + 1
    BY <1>0, <1>10, AtFacts
  <2>5. ASSUME NEW j \in DOMAIN Services, Len(Sources) + 1 + j < command.pos + 1, Services[j] \notin touched
        PROVE  Runs(Services[j])'
    <3>1. PICK t \in Names : t = Services[j]
      BY ListFacts
    <3>2. CASE t = s
      BY <2>2, <3>1, <3>2
    <3>3. CASE t # s
      <4>1. j # k /\ Len(Sources) + 1 + j < command.pos
        BY <1>0, <1>2, <1>3, <2>5, <3>1, <3>3, ListFacts
      <4>2. Runs(t)
        BY <1>5, <2>5, <3>1, <4>1
      <4> QED
        BY <1>0, <2>3, <3>1, <3>3, <4>2, RunsKept
    <3> QED
      BY <3>2, <3>3
  <2>6. ServicesInv'
    BY <1>0, <2>4, <2>5 DEF ServicesInv
  <2> QED
    BY <1>6, <1>7, <2>6 DEF RestoreInv
<1> QED
  BY <1>1, <1>2, <1>9, <1>10

(* The last step of a restore: everything is back.                         *)
LEMMA ReportRestoreStep ==
  ASSUME Whole, CaptureInv, RestoreInv, ReportRestore
  PROVE  RestoreInv'
<1>0. /\ command.name = "restore" /\ command.pos = Len(Sources) + Len(Services) + 2
      /\ Kept /\ UNCHANGED <<host, services, touched>> /\ Checked
      /\ command'.name = "idle"
  BY EndsWhole DEF ReportRestore, Kept, RestoreInv, RestoreChecked, Restoring
<1>1. /\ \A i \in DOMAIN Sources : i < command.pos
      /\ command.pos > Len(Sources) + 1
      /\ \A k \in DOMAIN Services : Len(Sources) + 1 + k < command.pos
  BY <1>0, ListFacts
<1>2. /\ \A id \in Ids \ touched : Back(id)
      /\ Owned \notin touched => host[Owned] = Missing
      /\ \A s \in Names \ touched : Runs(s)
  BY <1>0, <1>1, ListFacts DEF RestoreInv, FilesInv, ServicesInv
<1>3. /\ \A id \in Ids \ touched : Back(id)'
      /\ \A s \in Names \ touched : Runs(s)'
  BY <1>0, <1>2, BackKept, RunsKept
<1>4. RestoredIsCaptured' /\ ServicesRunRestored'
  BY <1>0, <1>2, <1>3 DEF RestoredIsCaptured, ServicesRunRestored, Back, Runs
<1>5. RestoreChecked'
  BY <1>0, CheckedKept DEF RestoreChecked
<1> QED
  BY <1>0, <1>4, <1>5 DEF RestoreInv, FilesInv, ServicesInv

----------------------------------------------------------------------------
\* The administrator, and all steps together

\* So do the administrator's edits between two effects.
LEMMA AdministratorStep ==
  ASSUME Whole, CaptureInv, RestoreInv,
         \/ \E p \in Paths, file \in Edits : EditFile(p, file)
         \/ \E s \in Names : OperateService(s)
  PROVE  RestoreInv'
<1>0. Kept /\ UNCHANGED <<command, outcome>> /\ touched \subseteq touched'
      /\ host \in [Paths -> AllFiles] /\ DOMAIN services = Names
  BY DEF EditFile, OperateService, Kept, Whole, HostWhole, ServicesWhole
<1>1. \A p \in Paths : p \notin touched' => host'[p] = host[p]
  BY <1>0 DEF EditFile, OperateService, Put
<1>2. \A s \in Names : s \notin touched' => services'[s] = services[s]
  BY <1>0 DEF EditFile, OperateService
<1>3. \A id \in Ids : id \notin touched' /\ Back(id) => Back(id)'
  BY <1>0, <1>1, BackKept, ListFacts
<1>4. \A s \in Names : s \notin touched' /\ Runs(s) => Runs(s)'
  BY <1>0, <1>2, RunsKept
<1>5. RestoreChecked'
  BY <1>0, CheckedKept DEF RestoreInv, RestoreChecked, Restoring
<1>6. FilesInv'
  <2>1. SUFFICES ASSUME command.name = "restore" PROVE FilesInv'
    BY <1>0 DEF FilesInv
  <2>2. \A i \in DOMAIN Sources : i < command.pos /\ Sources[i] \notin touched' => Back(Sources[i])'
    BY <1>0, <1>3, <2>1, ListFacts DEF RestoreInv, FilesInv
  <2>3. ASSUME command.pos \in DOMAIN Sources, Sources[command.pos] \notin touched'
        PROVE  HalfBack(Sources[command.pos], Plan.files[Sources[command.pos]])'
    <3>1. HalfBack(Sources[command.pos], Plan.files[Sources[command.pos]])
      BY <1>0, <2>1, <2>3 DEF RestoreInv, FilesInv
    <3>2. host'[Sources[command.pos]] = host[Sources[command.pos]]
      BY <1>1, <2>3, ListFacts
    <3> QED
      BY <1>0, <3>1, <3>2 DEF HalfBack, Kept, Plan
  <2>4. command.pos > Len(Sources) + 1 /\ Owned \notin touched' => host'[Owned] = Missing
    BY <1>0, <1>1, <2>1, ListFacts DEF RestoreInv, FilesInv
  <2> QED
    BY <1>0, <2>2, <2>3, <2>4 DEF FilesInv
<1>7. ServicesInv'
  BY <1>0, <1>4, ListFacts DEF RestoreInv, ServicesInv
<1>8. RestoredIsCaptured' /\ ServicesRunRestored'
  <2>1. outcome = "restored" => /\ \A id \in Ids \ touched : Back(id)
                                /\ Owned \notin touched => host[Owned] = Missing
                                /\ \A s \in Names \ touched : Runs(s)
    BY DEF RestoreInv, RestoredIsCaptured, ServicesRunRestored, Back, Runs
  <2>2. outcome' = "restored" => /\ \A id \in Ids \ touched' : Back(id)'
                                 /\ Owned \notin touched' => host'[Owned] = Missing
                                 /\ \A s \in Names \ touched' : Runs(s)'
    BY <1>0, <1>1, <1>3, <1>4, <2>1, ListFacts
  <2> QED
    BY <2>2 DEF RestoredIsCaptured, ServicesRunRestored, Back, Runs
<1> QED
  BY <1>5, <1>6, <1>7, <1>8 DEF RestoreInv

HostInv == Whole /\ CaptureInv /\ RestoreInv

\* A host nobody touched yet satisfies the invariant.
LEMMA HostInitially == Init => HostInv
<1> SUFFICES ASSUME Init PROVE HostInv
  OBVIOUS
<1>1. HostWhole
  <2>1. host \in [Paths -> UNION {FirstFiles[p] : p \in Paths}] /\ \A p \in Paths : host[p] \in Given
    BY DEF Init, Given
  <2>2. \A p \in Paths : Proper(host[p])
    BY <2>1, FileFacts
  <2> QED
    BY <2>1, <2>2 DEF HostWhole, Proper
<1>2. ServicesWhole
  <2>1. PICK f \in [Names -> FirstServices] :
          services = [s \in Names |-> [active |-> f[s].active, unit |-> f[s].unit, loaded |-> Configuration(s)]]
    BY DEF Init
  <2>2. ASSUME NEW s \in Names PROVE ServiceWhole(s)
    <3>1. /\ Configuration(s) \in [Inputs[s] -> AllBytes]
          /\ \A id \in Inputs[s] : Configuration(s)[id] # Torn
      <4>1. Inputs[s] \subseteq Paths
        BY ConstantsAssumption, ListFacts
      <4> QED
        BY <1>1, <4>1 DEF HostWhole, Configuration, Proper, AllFiles
    <3>2. f[s].active \in Actives /\ f[s].unit \in Units
      BY DEF Actives, Units
    <3>3. services[s] \in ServiceSet(s)
      BY <2>1, <3>1, <3>2 DEF ServiceSet
    <3> QED
      BY <3>3, ServiceWholeIsMember
  <2> QED
    BY <2>1, <2>2 DEF ServicesWhole
<1>3. CapturesWhole /\ taken = <<>> /\ DOMAIN taken = {}
  BY EmptySeq DEF Init, CapturesWhole
<1>4. CommandWhole /\ command.name = "idle" /\ outcome = "none"
  BY IdleFacts, ByteFacts DEF Init, CommandWhole
<1>5. DirectoryTyped /\ \A d \in DocumentNames : ~documents[d].whole
  <2>1. documents = [d \in DocumentNames |-> Unwritten]
    BY DocumentFacts DEF Init
  <2>2. Unwritten \in [whole : BOOLEAN, by : Nat] /\ ~Unwritten.whole
    BY DEF Unwritten
  <2>3. copies \in [Ids -> AllBytes]
    BY ByteFacts DEF Init
  <2> QED
    BY <2>1, <2>2, <2>3 DEF DirectoryTyped
<1>6. CaptureInv
  BY <1>4, <1>5 DEF CaptureInv
<1>7. RestoreInv
  BY <1>4 DEF RestoreInv, RestoreChecked, Restoring, FilesInv, ServicesInv, RestoredIsCaptured,
              ServicesRunRestored
<1> QED
  BY <1>1, <1>2, <1>3, <1>4, <1>5, <1>6, <1>7 DEF HostInv, Whole

\* Every step keeps the invariant.
LEMMA HostKept == HostInv /\ [Next]_vars => HostInv'
<1>1. ASSUME HostInv, Next PROVE HostInv'
  <2>0. Whole /\ CaptureInv /\ RestoreInv /\ RestoreChecked
    BY <1>1 DEF HostInv, RestoreInv
  <2>1. Whole' /\ CaptureInv'
    BY <1>1, <2>0, HostStep, ServicesStep, CapturesStep, CommandStep, DirectoryStep, CaptureInvStep
       DEF Whole
  <2>2. RestoreInv'
    BY <1>1, <2>0, OtherCommands, NotRestoring, BeginRestoreStep, RestorePathStep, RestoreServiceStep,
       ReportRestoreStep, AdministratorStep DEF Next, Tool
  <2> QED
    BY <2>1, <2>2 DEF HostInv
<1>2. ASSUME HostInv, UNCHANGED vars PROVE HostInv'
  <2>1. Whole'
    BY <1>2 DEF vars, HostInv, Whole, HostWhole, ServicesWhole, ServiceWhole, CapturesWhole,
                CommandWhole, DirectoryTyped
  <2>2. Kept /\ UNCHANGED <<host, services, command, outcome, touched>>
    BY <1>2 DEF vars, Kept
  <2>3. CaptureInv'
    BY <1>2, <2>2 DEF HostInv, CaptureInv, Kept, Current, Undoable, WrittenBy, VerifyBackupCopy
  <2>4. RestoreInv'
    <3>1. Manifest' = Manifest /\ Plan' = Plan /\ copies' = copies /\ documents' = documents /\ taken' = taken
      BY <2>2 DEF Kept, Manifest, Plan
    <3>2. RestoreInv
      BY <1>2 DEF HostInv
    <3>3. RestoreChecked'
      BY <2>2, <3>2, CheckedKept DEF RestoreInv, RestoreChecked, Restoring
    <3>4. FilesInv'
      BY <2>2, <3>1, <3>2 DEF RestoreInv, FilesInv, Back, HalfBack
    <3>5. ServicesInv'
      BY <2>2, <3>1, <3>2 DEF RestoreInv, ServicesInv, Runs
    <3>6. RestoredIsCaptured'
      BY <2>2, <3>1, <3>2 DEF RestoreInv, RestoredIsCaptured
    <3>7. ServicesRunRestored'
      BY <2>2, <3>1, <3>2 DEF RestoreInv, ServicesRunRestored
    <3> QED
      BY <3>3, <3>4, <3>5, <3>6, <3>7 DEF RestoreInv
  <2> QED
    BY <2>1, <2>3, <2>4 DEF HostInv
<1> QED
  BY <1>1, <1>2

\* The inductive invariant holds in every reachable state.
LEMMA HostInvariant == Spec => []HostInv
BY HostInitially, HostKept, PTL DEF Spec

----------------------------------------------------------------------------
\* Types and bounds

Outcomes == {"none", "running", "failed", "refused", "captured", "registered",
             "half registered", "restored"}

Counted ==
  /\ Len(taken) <= MaxCommands
  /\ \A d \in DocumentNames : documents[d].by <= Len(taken)
  /\ outcome \in Outcomes
  /\ touched \subseteq Paths \cup Names
  /\ edits \in 0..MaxEdits

\* At first there is no capture for a document to name.
LEMMA CountedInitially == Init => Counted
<1> SUFFICES ASSUME Init PROVE Counted
  OBVIOUS
<1>1. Len(taken) = 0
  BY EmptySeq DEF Init
<1>2. \A d \in DocumentNames : documents[d].by = 0
  BY DocumentFacts DEF Init, Unwritten
<1> QED
  BY <1>1, <1>2, ConstantsAssumption DEF Init, Counted, Outcomes

\* Only a new capture adds to the list.
LEMMA LengthStep ==
  ASSUME HostInv, Counted, Next
  PROVE  /\ Len(taken) \in Nat /\ Len(taken') \in Nat
         /\ Len(taken) <= Len(taken') /\ Len(taken') <= MaxCommands
<1>0. Whole /\ CaptureInv /\ Len(taken) \in Nat /\ MaxCommands \in Nat
  BY CaptureFacts, ConstantsAssumption DEF HostInv, Whole
<1>1. CASE UNCHANGED taken
  BY <1>0, <1>1 DEF Counted
<1>2. CASE \E apply \in BOOLEAN : BeginCapture(apply)
  <2>1. Len(taken') = Len(taken) + 1
    BY <1>0, <1>2, BeginCaptureEffect
  <2>2. Len(taken) < MaxCommands
    BY <1>2 DEF BeginCapture
  <2> QED
    BY <1>0, <2>1, <2>2
<1>3. CASE CaptureSource
  <2>1. Len(taken') = Len(taken)
    BY <1>0, <1>3, CaptureSourceEffect
  <2> QED
    BY <1>0, <2>1 DEF Counted
<1> QED
  BY <1>1, <1>2, <1>3
     DEF Next, Tool, PlanRestore, WriteDocument, PlanRegistration, WriteConfigFile,
         ReportRegistration, BeginRestore, RestorePath, RestoreServiceState, ReportRestore, Abandon,
         EditFile, OperateService

\* A document that is written names the capture in progress.
LEMMA NamesStep ==
  ASSUME HostInv, Counted, Next
  PROVE  \A d \in DocumentNames : documents'[d].by <= Len(taken')
<1>0. /\ Len(taken) \in Nat /\ Len(taken') \in Nat /\ Len(taken) <= Len(taken')
      /\ documents \in [DocumentNames -> [whole : BOOLEAN, by : Nat]]
  BY LengthStep DEF HostInv, Whole, DirectoryTyped
<1>1. CASE UNCHANGED documents
  <2> SUFFICES ASSUME NEW d \in DocumentNames PROVE documents'[d].by <= Len(taken')
    OBVIOUS
  <2>1. documents[d].by \in Nat /\ documents[d].by <= Len(taken)
    BY <1>0 DEF Counted
  <2> QED
    BY <1>0, <1>1, <2>1
<1>2. CASE WriteDocument
  <2> SUFFICES ASSUME NEW d \in DocumentNames PROVE documents'[d].by <= Len(taken')
    OBVIOUS
  <2>1. documents'[d].by \in {documents[d].by, Len(taken), 0}
    <3>1. PICK w : w \in {[whole |-> TRUE, by |-> Len(taken)], Unwritten}
                   /\ documents' = [documents EXCEPT ![Documents[command.pos]] = w]
      BY <1>2 DEF WriteDocument, Current
    <3>2. w.by \in {Len(taken), 0}
      BY <3>1 DEF Unwritten
    <3>3. documents'[d] \in {documents[d], w}
      BY <1>0, <3>1
    <3> QED
      BY <3>2, <3>3
  <2>2. documents[d].by \in Nat /\ documents[d].by <= Len(taken)
    BY <1>0 DEF Counted
  <2> QED
    BY <1>0, <2>1, <2>2
<1> QED
  BY <1>1, <1>2
     DEF Next, Tool, BeginCapture, CaptureSource, PlanRestore, PlanRegistration, WriteConfigFile,
         ReportRegistration, BeginRestore, RestorePath, RestoreServiceState, ReportRestore, Abandon,
         EditFile, OperateService

\* A command ends in one of these ways.
LEMMA OutcomeStep ==
  ASSUME Counted, Next
  PROVE  outcome' \in Outcomes
<1>1. CASE UNCHANGED outcome
  BY <1>1 DEF Counted
<1>2. CASE outcome' \in Outcomes
  BY <1>2
<1> QED
  BY <1>1, <1>2
     DEF Next, Tool, BeginCapture, CaptureSource, PlanRestore, WriteDocument, PlanRegistration,
         WriteConfigFile, ReportRegistration, BeginRestore, RestorePath, RestoreServiceState,
         ReportRestore, Abandon, EditFile, OperateService, Ends, Outcomes

\* The administrator's changes are counted.
LEMMA TouchedStep ==
  ASSUME Counted, Next
  PROVE  touched' \subseteq Paths \cup Names /\ edits' \in 0..MaxEdits
<1>1. CASE touched' \in {touched, {}} /\ edits' = edits
  BY <1>1 DEF Counted
<1>2. CASE \E p \in Paths, file \in Edits : EditFile(p, file)
  BY <1>2, ConstantsAssumption DEF EditFile, Counted
<1>3. CASE \E s \in Names : OperateService(s)
  BY <1>3, ConstantsAssumption DEF OperateService, Counted
<1> QED
  BY <1>1, <1>2, <1>3
     DEF Next, Tool, BeginCapture, CaptureSource, PlanRestore, WriteDocument, PlanRegistration,
         WriteConfigFile, ReportRegistration, BeginRestore, RestorePath, RestoreServiceState,
         ReportRestore, Abandon

\* Every step keeps the bounds.
LEMMA CountedKept == ASSUME HostInv, Counted, [Next]_vars PROVE Counted'
<1>1. CASE Next
  BY <1>1, LengthStep, NamesStep, OutcomeStep, TouchedStep DEF Counted
<1>2. CASE UNCHANGED vars
  BY <1>2 DEF vars, Counted
<1> QED
  BY <1>1, <1>2

\* The types are part of the invariant.
LEMMA TypesByInv == ASSUME HostInv, Counted PROVE TypeOK
<1>1. Whole /\ Len(taken) \in Nat
  BY CaptureFacts DEF HostInv, Whole
<1>2. documents \in [DocumentNames -> [whole : BOOLEAN, by : 0..Len(taken)]]
  BY <1>1 DEF Whole, DirectoryTyped, Counted
<1> QED
  BY <1>1, <1>2 DEF Whole, HostWhole, ServicesWhole, ServiceWhole, CapturesWhole, CommandWhole,
                    DirectoryTyped, Counted, Outcomes, TypeOK

(* The host, the directory and the running command keep their types, and a *)
(* document never names a capture that is yet to come.                     *)
THEOREM HostTypeCorrect == Spec => []TypeOK
<1> QED
  BY HostInitially, CountedInitially, HostKept, CountedKept, TypesByInv, PTL DEF Spec

----------------------------------------------------------------------------
\* The theorems

(* No crash of a capture, a registration or a restore leaves a             *)
(* configuration file or a service with torn contents, although copies in  *)
(* the output directory may be torn: a restore checks every copy before    *)
(* its first effect, and nothing changes the copies while it runs.         *)
THEOREM HostWholeAlways == Spec => []HostNeverTorn
<1>1. HostInv => HostNeverTorn
  BY DEF HostInv, Whole, HostWhole, ServicesWhole, ServiceWhole, Proper, HostNeverTorn
<1> QED
  BY <1>1, HostInvariant, PTL

(* From the first rewritten file on the output directory holds one whole   *)
(* capture that verify_restore_execution_inputs accepts, however the       *)
(* registration ends.                                                      *)
THEOREM RegistrationUndoable == Spec => []RegistrationIsUndoable
<1>1. ASSUME HostInv PROVE RegistrationIsUndoable
  <2>1. SUFFICES ASSUME command.name = "register" \/ outcome \in {"registered", "half registered"}
                 PROVE  /\ Readable /\ \A d \in Range(Documents) : documents[d].by = Current
                        /\ VerifyRestoreExecutionInputs
    BY DEF RegistrationIsUndoable
  <2>2. Undoable
    BY <1>1, <2>1 DEF HostInv, CaptureInv
  <2>3. \A d \in DocumentNames : documents[d].whole /\ documents[d].by = Current
    BY <2>2 DEF Undoable, WrittenBy
  <2>4. Manifest = taken[Current].files /\ Plan = taken[Current]
        /\ documents["services"].by = Current
    BY <2>3 DEF Manifest, Plan, DocumentNames
  <2>5. VerifyRestoreExecutionInputs
    BY <2>2, <2>4 DEF Undoable, VerifyRestoreExecutionInputs, VerifyBackupCopy
  <2> QED
    BY <2>3, <2>5, DocumentFacts DEF Readable
<1> QED
  BY <1>1, HostInvariant, PTL

(* A restore that reports success has put back, at every path nobody       *)
(* touched meanwhile, what the manifest's capture found there.             *)
THEOREM RestoreSound == Spec => []RestoredIsCaptured
<1>1. HostInv => RestoredIsCaptured
  BY DEF HostInv, RestoreInv
<1> QED
  BY <1>1, HostInvariant, PTL

(* After a restore that reports success the services run, or do not run,   *)
(* as captured, with the files that were put back.                         *)
THEOREM ServicesSound == Spec => []ServicesRunRestored
<1>1. HostInv => ServicesRunRestored
  BY DEF HostInv, RestoreInv
<1> QED
  BY <1>1, HostInvariant, PTL
============================================================================
