---------------------------- MODULE HostRestore ----------------------------
(***************************************************************************)
(* apolysis-validate-host: it backs a host's runtime configuration up into *)
(* an output directory, registers the sandbox runtimes in that             *)
(* configuration, and puts the host back from the directory.  The tool is  *)
(* one process that runs one command at a time; it can be killed, or fail, *)
(* after every effect on the disk, and files written in place can be left  *)
(* torn.  The administrator works on the same host.                        *)
(*                                                                         *)
(* Left out: the temporary file beside a rewritten configuration file      *)
(* (nothing reads it), kubernetes-context.json and                         *)
(* runtime-registration-plan.json (written and never read back), and the   *)
(* parent directories that are created on the way.                         *)
(***************************************************************************)
EXTENDS Naturals, Sequences, Functions

CONSTANTS Sources,       \* the backed up paths, in the order they are captured
          Writes,        \* the paths the registration rewrites, in order
          Rewritten,     \* those whose old contents are parsed and kept
          Owned,         \* the validation's own directory, removed by a restore
          Services,      \* the managed services, sorted by name
          Inputs,        \* service -> the paths it reads its configuration from
          FirstFiles,    \* path -> the files it may hold at the start
          FirstServices, \* what a service may be at the start
          Edits,         \* the files an administrator may put in place
          Unparsable,    \* contents no renderer accepts
          MaxCommands,   \* bound: commands that capture
          MaxEdits       \* bound: changes made by the administrator

VARIABLES host,      \* path -> the file there
          services,  \* service -> its state and the configuration it runs with
          copies,    \* files/<id> in the output directory
          documents, \* the three documents a restore reads: who wrote them
          taken,     \* what the n-th capture recorded: contents of its documents
          command,   \* the running command and how far it is
          outcome,   \* how the last command ended
          touched,   \* what the administrator changed since it began
          edits      \* number of changes by the administrator

vars == <<host, services, copies, documents, taken, command, outcome, touched, edits>>

Ids == Range(Sources)
Paths == Ids \cup {Owned}
Names == Range(Services)

\* Contents are told apart by where they come from and by whether the
\* sandbox runtimes are registered in them; a digest tells them apart too.
Bytes(base, registered) == [base |-> base, registered |-> registered]
Nothing == Bytes("none", FALSE)
Torn == Bytes("torn", FALSE)

\* A directory entry; the bytes of a symbolic link are its target.
File(kind, bytes, mode, owner) ==
  [kind |-> kind, bytes |-> bytes, mode |-> mode, owner |-> owner]
Missing == File("missing", Nothing, "none", "none")
Directory == File("directory", Nothing, "none", "none")

\* What others put on the host: contents are torn only by a crash of the tool.
Given == Edits \cup UNION {FirstFiles[p] : p \in Paths}
WellFormed(f) ==
  /\ f.kind \in {"missing", "directory", "regular", "symlink"}
  /\ f.bytes.registered \in BOOLEAN
  /\ f = File(f.kind, Bytes(f.bytes.base, f.bytes.registered), f.mode, f.owner)
  /\ f.bytes # Torn
  /\ f.kind = "missing" => f = Missing

ASSUME ConstantsAssumption ==
  /\ Sources \in Seq(Ids) /\ Writes \in Seq(Ids) /\ Services \in Seq(Names)
  /\ \A i, j \in DOMAIN Sources : Sources[i] = Sources[j] => i = j
  /\ \A i, j \in DOMAIN Writes : Writes[i] = Writes[j] => i = j
  /\ Owned \notin Ids /\ Rewritten \subseteq Range(Writes)
  /\ Inputs \in [Names -> SUBSET Ids]
  /\ \A f \in Given : WellFormed(f)
  /\ MaxCommands \in Nat /\ MaxEdits \in Nat

Unwritten == [whole |-> FALSE, by |-> 0]
Idle == [name |-> "idle", apply |-> FALSE, pos |-> 1, phase |-> 0,
         configs |-> [id \in Ids |-> Nothing]]

----------------------------------------------------------------------------
\* How a command goes on and how it ends

At(name, pos, phase) == [command EXCEPT !.name = name, !.pos = pos, !.phase = phase]

Ends(how) == /\ command' = Idle
             /\ outcome' = how

(* The process is killed, or a system call or a systemctl call fails: the  *)
(* command ends where it is, and nothing it did is taken back.             *)
Abandon ==
  /\ command.name # "idle"
  /\ Ends(IF command.name = "register" THEN "half registered" ELSE "failed")
  /\ UNCHANGED <<host, services, copies, documents, taken, touched, edits>>

\* The capture in progress, and the captures behind the three documents.
Current == Len(taken)
Manifest == taken[documents["manifest"].by].files
Plan == taken[documents["plan"].by]

----------------------------------------------------------------------------
\* Capture: collect_host_validation_report and build_validation_report

(* Both commands that capture begin by asking systemctl for the services,  *)
(* before any file is read.  The directory may hold an earlier capture: it *)
(* is neither refused nor cleared.                                         *)
BeginCapture(apply) ==
  /\ command.name = "idle" /\ Len(taken) < MaxCommands
  /\ taken' = Append(taken,
        [files    |-> [id \in Ids |-> Missing],
         services |-> [s \in Names |-> [active |-> services[s].active,
                                        unit   |-> services[s].unit]]])
  /\ command' = [Idle EXCEPT !.name = "capture", !.apply = apply]
  /\ outcome' = "running" /\ touched' = {}
  /\ UNCHANGED <<host, services, copies, documents, edits>>

(* capture_source, the next path in order: a regular file is copied into   *)
(* the directory over whatever copy is there; a copy left by an earlier    *)
(* capture stays when the path is now missing or a link.                   *)
CaptureSource ==
  /\ command.name = "capture" /\ command.pos <= Len(Sources)
  /\ LET id == Sources[command.pos] IN
       /\ host[id].kind # "directory"
       /\ taken' = [taken EXCEPT ![Current].files[id] = host[id]]
       /\ IF host[id].kind = "regular"
          THEN \/ /\ copies' = [copies EXCEPT ![id] = host[id].bytes]
                  /\ command' = At("capture", command.pos + 1, 0)
                  /\ UNCHANGED outcome
               \/ /\ copies' = [copies EXCEPT ![id] = Torn]
                  /\ Ends("failed")
          ELSE /\ command' = At("capture", command.pos + 1, 0)
               /\ UNCHANGED <<copies, outcome>>
  /\ UNCHANGED <<host, services, documents, touched, edits>>

\* Mutant: the copies are trusted.
VerifyBackupCopy_Trusted(files, id) == files[id].kind = "regular" => copies[id] # Nothing

\* verify_backup_copy: the copy has the digest the manifest recorded.
VerifyBackupCopy(files, id) == files[id].kind = "regular" => copies[id] = files[id].bytes

(* plan_restore checks the fresh copies before any document is written.    *)
PlanRestore ==
  /\ command.name = "capture" /\ command.pos > Len(Sources)
  /\ \A id \in Ids : VerifyBackupCopy(taken[Current].files, id)
  /\ command' = At("documents", 1, 0)
  /\ UNCHANGED <<host, services, copies, documents, taken, outcome, touched, edits>>

Documents == <<"manifest", "services", "plan">>

\* Mutant: the registration starts once the manifest is safe.
WriteDocument_ManifestOnly ==
  /\ command.name = "documents" /\ command.pos <= Len(Documents)
  /\ documents' = [documents EXCEPT ![Documents[command.pos]] = [whole |-> TRUE, by |-> Current]]
  /\ IF command.apply
     THEN command' = At("render", 1, 0) /\ UNCHANGED outcome
     ELSE IF command.pos < Len(Documents)
     THEN command' = At("documents", command.pos + 1, 0) /\ UNCHANGED outcome
     ELSE Ends("captured")
  /\ UNCHANGED <<host, services, copies, taken, touched, edits>>

(* write_json of the next document, in place: a crash leaves it torn.      *)
WriteDocument ==
  /\ command.name = "documents" /\ command.pos <= Len(Documents)
  /\ LET d == Documents[command.pos] IN
       \/ /\ documents' = [documents EXCEPT ![d] = [whole |-> TRUE, by |-> Current]]
          /\ IF command.pos < Len(Documents)
             THEN command' = At("documents", command.pos + 1, 0) /\ UNCHANGED outcome
             ELSE IF command.apply
             THEN command' = At("render", 1, 0) /\ UNCHANGED outcome
             ELSE Ends("captured")
       \/ /\ documents' = [documents EXCEPT ![d] = Unwritten]
          /\ Ends("failed")
  /\ UNCHANGED <<host, services, copies, taken, touched, edits>>

----------------------------------------------------------------------------
\* Registration: plan_runtime_registration and apply_runtime_registration_plan

(* The new contents keep what the old ones said, read through a link and   *)
(* taken as empty when there is no file; the drop-in is written afresh.    *)
Rendered(id) ==
  Bytes(IF id \in Rewritten /\ host[id].kind # "missing"
        THEN host[id].bytes.base ELSE "empty", TRUE)

(* All contents are rendered from the host as it is now, later than the    *)
(* capture; one that does not parse ends the command before any write.     *)
PlanRegistration ==
  /\ command.name = "render"
  /\ \A id \in Rewritten : host[id].kind # "directory" /\ host[id].bytes.base \notin Unparsable
  /\ command' = [At("register", 1, 0) EXCEPT
       !.configs = [id \in Ids |-> IF id \in Range(Writes) THEN Rendered(id) ELSE Nothing]]
  /\ UNCHANGED <<host, services, copies, documents, taken, outcome, touched, edits>>

(* write_config_file: the file is replaced by a rename, links included;    *)
(* a directory in its place is refused.                                    *)
WriteConfigFile ==
  /\ command.name = "register" /\ command.pos <= Len(Writes)
  /\ LET id == Writes[command.pos] IN
       /\ host[id].kind # "directory"
       /\ host' = [host EXCEPT ![id] = File("regular", command.configs[id], "0644", "root")]
  /\ command' = At("register", command.pos + 1, 0)
  /\ UNCHANGED <<services, copies, documents, taken, outcome, touched, edits>>

ReportRegistration ==
  /\ command.name = "register" /\ command.pos > Len(Writes)
  /\ Ends("registered")
  /\ UNCHANGED <<host, services, copies, documents, taken, touched, edits>>

----------------------------------------------------------------------------
\* Restore: restore_validation_from_output and execute_restore_plan

\* Mutant: the kind in the plan is not held against the manifest.
VerifyRestoreExecutionInputs_AnyKind ==
  /\ \A id \in Ids : VerifyBackupCopy(Manifest, id)
  /\ \A s \in Names : taken[documents["services"].by].services[s] = Plan.services[s]

(* verify_restore_execution_inputs: every action of the plan agrees with   *)
(* the manifest on the kind of the entry and the target of a link, with    *)
(* the captured services on their states, and every copy has its digest.   *)
(* Mode and owner are taken from the plan and compared with nothing.       *)
VerifyRestoreExecutionInputs ==
  /\ \A id \in Ids :
       /\ Manifest[id].kind = Plan.files[id].kind
       /\ VerifyBackupCopy(Manifest, id)
       /\ Manifest[id].kind = "symlink" => Manifest[id].bytes = Plan.files[id].bytes
  /\ \A s \in Names : taken[documents["services"].by].services[s] = Plan.services[s]

Readable == \A d \in Range(Documents) : documents[d].whole

(* The documents are read and every input verified before the first        *)
(* effect; anything amiss ends the command there.                          *)
BeginRestore ==
  /\ command.name = "idle"
  /\ touched' = {}
  /\ IF Readable /\ VerifyRestoreExecutionInputs
     THEN command' = [Idle EXCEPT !.name = "restore"] /\ outcome' = "running"
     ELSE command' = command /\ outcome' = "refused"
  /\ UNCHANGED <<host, services, copies, documents, taken, edits>>

Put(id, file) == host' = [host EXCEPT ![id] = file]

(* restore_regular_file: the copy replaces what is there by a rename, with *)
(* the mode of the plan, a directory excepted; mode and owner are then set *)
(* on whatever the path holds, through a link.                             *)
RestoreRegularFile(id, to) ==
  /\ to.kind = "regular"
  /\ \/ /\ command.phase = 0 /\ host[id].kind # "directory"
        /\ Put(id, File("regular", copies[id], to.mode, "root"))
        /\ command' = At("restore", command.pos, 1)
     \/ /\ command.phase = 1 /\ host[id].kind # "missing"
        /\ Put(id, IF host[id].kind = "symlink" THEN host[id]
                   ELSE [host[id] EXCEPT !.mode = to.mode, !.owner = to.owner])
        /\ command' = At("restore", command.pos + 1, 0)

(* restore_symlink: what is there is removed, then the link is made, then  *)
(* its owner is set.  A path the administrator fills in between fails it.  *)
RestoreSymlink(id, to) ==
  /\ to.kind = "symlink"
  /\ \/ /\ command.phase = 0
        /\ Put(id, Missing)
        /\ command' = At("restore", command.pos, 1)
     \/ /\ command.phase = 1 /\ host[id].kind = "missing"
        /\ Put(id, File("symlink", to.bytes, to.mode, "root"))
        /\ command' = At("restore", command.pos, 2)
     \/ /\ command.phase = 2 /\ host[id].kind # "missing"
        /\ Put(id, [host[id] EXCEPT !.owner = to.owner])
        /\ command' = At("restore", command.pos + 1, 0)

\* remove_path_if_present, for a path that was missing and for Owned.
RemovePathIfPresent(id) ==
  /\ Put(id, Missing)
  /\ command' = At("restore", command.pos + 1, 0)

\* The files come first, in the manifest's order, then the owned directory.
RestorePath ==
  /\ command.name = "restore" /\ command.pos <= Len(Sources) + 1
  /\ IF command.pos <= Len(Sources)
     THEN LET id == Sources[command.pos]
              to == Plan.files[id]
          IN \/ RestoreRegularFile(id, to)
             \/ RestoreSymlink(id, to)
             \/ to.kind = "missing" /\ RemovePathIfPresent(id)
     ELSE RemovePathIfPresent(Owned)
  /\ UNCHANGED <<services, copies, documents, taken, outcome, touched, edits>>

\* systemctl restart and start: a start leaves a running service as it is.
Configuration(s) == [id \in Inputs[s] |-> host[id].bytes]
Started(s) == [services[s] EXCEPT !.active = "active", !.loaded = Configuration(s)]

\* Mutant: an active service is started, not restarted.
RestoreActiveState_Start(s, active) ==
  IF active \in {"active", "activating"}
  THEN IF services[s].active = "active" THEN services[s] ELSE Started(s)
  ELSE [services[s] EXCEPT !.active = "inactive"]

(* SystemctlServiceController::restore_active_state; a service captured    *)
(* reloading counts as active, one captured deactivating as inactive.      *)
RestoreActiveState(s, active) ==
  CASE active = "active" -> Started(s)
    [] active = "activating" /\ services[s].active = "active" -> services[s]
    [] active = "activating" -> Started(s)
    [] OTHER -> [services[s] EXCEPT !.active = "inactive"]

\* The states the controller can bring back; a capture records any state.
SupportedUnits == {"enabled", "disabled", "masked", "static"}
SupportedActive == {"active", "activating", "inactive", "failed"}

\* External: systemctl enables and disables no masked unit.
Settable(s, unit) == services[s].unit = "masked" => unit \in {"masked", "static"}

(* The services come last, sorted: first the unit file state, then the     *)
(* active state.                                                           *)
RestoreServiceState ==
  /\ command.name = "restore"
  /\ LET k == command.pos - Len(Sources) - 1 IN
       /\ k \in DOMAIN Services
       /\ LET s == Services[k]
              to == Plan.services[s]
          IN \/ /\ command.phase = 0
                /\ to.unit \in SupportedUnits /\ Settable(s, to.unit)
                /\ services' = [services EXCEPT ![s].unit =
                     IF to.unit = "static" THEN @ ELSE to.unit]
                /\ command' = At("restore", command.pos, 1)
             \/ /\ command.phase = 1
                /\ to.active \in SupportedActive
                /\ services' = [services EXCEPT ![s] = RestoreActiveState(s, to.active)]
                /\ command' = At("restore", command.pos + 1, 0)
  /\ UNCHANGED <<host, copies, documents, taken, outcome, touched, edits>>

ReportRestore ==
  /\ command.name = "restore" /\ command.pos = Len(Sources) + Len(Services) + 2
  /\ Ends("restored")
  /\ UNCHANGED <<host, services, copies, documents, taken, touched, edits>>

----------------------------------------------------------------------------
\* The administrator

\* External: a configuration file is edited, moved or replaced.
EditFile(id, file) ==
  /\ edits < MaxEdits /\ host[id] # file
  /\ Put(id, file)
  /\ touched' = touched \cup {id} /\ edits' = edits + 1
  /\ UNCHANGED <<services, copies, documents, taken, command, outcome>>

\* External: a service is restarted, as the registration test does, fails,
\* or has its unit disabled.
OperateService(s) ==
  /\ edits < MaxEdits
  /\ \/ services' = [services EXCEPT ![s] = Started(s)]
     \/ services' = [services EXCEPT ![s].active = "failed"]
     \/ services[s].unit = "enabled" /\ services' = [services EXCEPT ![s].unit = "disabled"]
  /\ touched' = touched \cup {s} /\ edits' = edits + 1
  /\ UNCHANGED <<host, copies, documents, taken, command, outcome>>

----------------------------------------------------------------------------
Init ==
  /\ host \in {h \in [Paths -> UNION {FirstFiles[p] : p \in Paths}] :
                 \A p \in Paths : h[p] \in FirstFiles[p]}
  /\ \E f \in [Names -> FirstServices] :
       services = [s \in Names |-> [active |-> f[s].active, unit |-> f[s].unit,
                                    loaded |-> Configuration(s)]]
  /\ copies = [id \in Ids |-> Nothing]
  /\ documents = [d \in Range(Documents) |-> Unwritten]
  /\ taken = <<>> /\ command = Idle /\ outcome = "none"
  /\ touched = {} /\ edits = 0

Tool ==
  \/ \E apply \in BOOLEAN : BeginCapture(apply)
  \/ CaptureSource \/ PlanRestore \/ WriteDocument
  \/ PlanRegistration \/ WriteConfigFile \/ ReportRegistration
  \/ BeginRestore \/ RestorePath \/ RestoreServiceState \/ ReportRestore
  \/ Abandon

Next == \/ Tool
        \/ \E p \in Paths, file \in Edits : EditFile(p, file)
        \/ \E s \in Names : OperateService(s)

Spec == Init /\ [][Next]_vars

----------------------------------------------------------------------------
\* Properties

\* The values the given files and states, and the tool's own, leave room for.
Kinds == {"missing", "directory", "regular", "symlink"}
AllBytes == [base : {f.bytes.base : f \in Given} \cup {"none", "empty", "torn"}, registered : BOOLEAN]
Modes == {f.mode : f \in Given} \cup {"none", "0644"}
Owners == {f.owner : f \in Given} \cup {"none", "root"}
AllFiles == [kind : Kinds, bytes : AllBytes, mode : Modes, owner : Owners]

Actives == {f.active : f \in FirstServices} \cup {"active", "inactive", "failed"}
Units == {f.unit : f \in FirstServices} \cup SupportedUnits
States == [active : Actives, unit : Units]
Captures == [files : [Ids -> AllFiles], services : [Names -> States]]

DocumentNames == {"manifest", "services", "plan"}
CommandNames == {"idle", "capture", "documents", "render", "register", "restore"}

CommandType ==
  [name : CommandNames, apply : BOOLEAN, pos : Nat, phase : 0..2, configs : [Ids -> AllBytes]]

(* Types, and the bounds: a document names no capture yet to come.         *)
TypeOK ==
  /\ host \in [Paths -> AllFiles]
  /\ DOMAIN services = Names
  /\ \A s \in Names :
       /\ services[s].active \in Actives /\ services[s].unit \in Units
       /\ services[s].loaded \in [Inputs[s] -> AllBytes]
  /\ copies \in [Ids -> AllBytes]
  /\ taken \in Seq(Captures) /\ Len(taken) <= MaxCommands
  /\ documents \in [DocumentNames -> [whole : BOOLEAN, by : 0..Len(taken)]]
  /\ command \in CommandType
  /\ outcome \in {"none", "running", "failed", "refused", "captured", "registered",
                  "half registered", "restored"}
  /\ touched \subseteq Paths \cup Names
  /\ edits \in 0..MaxEdits

(* A restore that reports success has put back, at every path nobody       *)
(* touched meanwhile, the kind of file and the contents the manifest's     *)
(* capture found there, whatever other captures, crashes and half finished *)
(* restores went before it; and when the plan stems from the same capture, *)
(* mode and owner too.  Documents of two captures can be mixed by a crash  *)
(* between their writes.                                                   *)
RestoredIsCaptured ==
  outcome = "restored" =>
    /\ \A id \in Ids \ touched :
         /\ host[id].kind = Manifest[id].kind /\ host[id].bytes = Manifest[id].bytes
         /\ documents["plan"] = documents["manifest"] => host[id] = Manifest[id]
    /\ Owned \notin touched => host[Owned] = Missing

(* No crash of any command leaves a configuration file, or a running       *)
(* service, with torn contents, although the copies in the output          *)
(* directory are written in place and a later restore reads them.          *)
HostNeverTorn ==
  /\ \A p \in Paths : host[p].bytes # Torn
  /\ \A s \in Names : \A id \in Inputs[s] : services[s].loaded[id] # Torn

(* From before the first configuration file is rewritten, and however the  *)
(* registration is cut short, the output directory holds one whole capture *)
(* that a restore accepts, although an earlier capture may have left its   *)
(* copies and documents there.                                             *)
RegistrationIsUndoable ==
  command.name = "register" \/ outcome \in {"registered", "half registered"} =>
    /\ Readable /\ \A d \in Range(Documents) : documents[d].by = Current
    /\ VerifyRestoreExecutionInputs

(* After a restore that reports success, a service that was captured       *)
(* active runs with the files that were put back, and one captured         *)
(* inactive or failed does not run: the files are restored before the      *)
(* services, and an active service is restarted.                           *)
ServicesRunRestored ==
  outcome = "restored" =>
    \A s \in Names \ touched :
      /\ Plan.services[s].active = "active" =>
           /\ services[s].active = "active"
           /\ \A id \in Inputs[s] \ touched : services[s].loaded[id] = Manifest[id].bytes
      /\ Plan.services[s].active \in {"inactive", "failed"} => services[s].active = "inactive"
============================================================================
