-------------------------- MODULE EnforcementProofs -------------------------
(***************************************************************************)
(* What the two users of the policy engine guarantee, for every value of   *)
(* the constants.  The block gates, for all reports, requests, bundles and *)
(* hosts: nothing is executed, resolved as a block, or called validated,   *)
(* without evidence that proves it.  The observers' timeline, for all      *)
(* policies, events and rotation limits: no gap in the files, feedback     *)
(* that is recorded and the latest, and no violation left out.             *)
(***************************************************************************)
EXTENDS BlockGates, PolicyTimeline, SequenceTheorems, TLAPS

----------------------------------------------------------------------------
\* The block gates

(* What the documents on disk stand for: a gate that passed lists reports  *)
(* that are known and validated, and a policy that passed approves         *)
(* requests backed by such reports.                                        *)
Backed(q) ==
  /\ q.approved /\ ~q.default_enabled /\ q.rollback = "complete"
  /\ \E r \in Known : /\ ReportValidated(r) /\ r.id = q.id
                      /\ r.backend = q.backend /\ r.runtime = q.runtime /\ r.action = q.action

GateSound ==
  gate.passed => \A i \in DOMAIN gate.reports :
                   gate.reports[i] \in Known /\ ReportValidated(gate.reports[i])

PolicySound ==
  enablement.passed => \A i \in DOMAIN enablement.approved : Backed(enablement.approved[i])

ChainInv == GateSound /\ PolicySound /\ ExecutedIsProven

(* A validated report under the execution's kind of request proves the     *)
(* block (evaluate_policy_guardrails_block_validation_gate).               *)
LEMMA ValidatedProves ==
  ASSUME NEW r, ReportValidated(r), r.backend = "seccomp", r.runtime = "local",
         r.action = "file_read"
  PROVE  Proves(r, "seccomp") /\ r.seccomp
BY DEF ReportValidated, Proves

(* Evidence is only ever added, so what a document was backed by stays.    *)
LEMMA BackedStays ==
  ASSUME evidence \subseteq evidence', NEW q, Backed(q)
  PROVE  Backed(q)'
<1>1. Known \subseteq Known'
  BY DEF Known
<1>2. PICK r \in Known : /\ ReportValidated(r) /\ r.id = q.id
                         /\ r.backend = q.backend /\ r.runtime = q.runtime /\ r.action = q.action
  BY DEF Backed
<1>3. r \in Known'
  BY <1>1, <1>2
<1> QED
  BY <1>2, <1>3 DEF Backed

\* No tool takes a report back.
LEMMA EvidenceGrows == ASSUME [Next]_vars PROVE evidence \subseteq evidence'
BY DEF Next, vars, SeccompPrototype, BpfLsmPrototype, Reboot, DetectCapabilities, Validate, Enable,
       Audit, Execute, Adopt, MatrixTool, LiveEvidenceBundle

(* Validate: a gate that passes was made from known, validated reports.    *)
LEMMA ValidateSound ==
  ASSUME NEW reports \in Lists(Known, MaxReports), Validate(reports)
  PROVE  GateSound'
<1>1. ASSUME ValidationGate(reports).passed, NEW i \in DOMAIN reports
      PROVE  reports[i] \in Known /\ ReportValidated(reports[i])
  <2>1. reports[i] \in Known
    BY DEF Lists
  <2> QED
    BY <1>1, <2>1 DEF ValidationGate
<1>2. ValidationGate(reports).passed => ValidationGate(reports).reports = reports
  BY DEF ValidationGate
<1>3. Known' = Known
  BY DEF Validate, Known
<1> QED
  BY <1>1, <1>2, <1>3 DEF GateSound, Validate

(* Enable: what a policy approves is backed by the gate's reports.         *)
LEMMA EnableSound ==
  ASSUME GateSound, NEW requests, Enable(requests)
  PROVE  PolicySound'
<1>1. enablement'.passed => /\ gate.passed /\ enablement'.approved = requests
                        /\ \A i \in DOMAIN requests : Enabled(gate, requests[i])
  BY DEF Enable, EnablementPolicy
<1> SUFFICES ASSUME enablement'.passed, NEW i \in DOMAIN requests
             PROVE  Backed(requests[i])'
  BY <1>1 DEF PolicySound
<1> DEFINE q == requests[i]
<1>2. gate.passed /\ Enabled(gate, q)
  BY <1>1
<1>3. PICK r \in ReportFor(gate.reports, q.id) :
         r.backend = q.backend /\ r.runtime = q.runtime /\ r.action = q.action
  BY <1>2 DEF Enabled
<1>4. PICK j \in DOMAIN gate.reports : r = gate.reports[j] /\ gate.reports[j].id = q.id
  BY <1>3 DEF ReportFor
<1>5. Known' = Known
  BY DEF Enable, Known
<1> QED
  BY <1>2, <1>3, <1>4, <1>5 DEF Backed, Enabled, GateSound

(* Execute: the enablement it uses is approved, hence backed.              *)
LEMMA ExecuteSound ==
  ASSUME PolicySound, NEW id, Execute(id)
  PROVE  ExecutedIsProven'
<1>1. PICK q \in MatchingEnablement(enablement, id) : executed' = [using |-> q, on |-> host]
  BY DEF Execute
<1>2. PICK i \in DOMAIN enablement.approved : q = enablement.approved[i]
  BY <1>1 DEF MatchingEnablement
<1>3. q.backend = "seccomp" /\ q.runtime = "local" /\ q.action = "file_read"
  BY <1>1 DEF MatchingEnablement
<1>4. Backed(q)
  BY <1>2 DEF PolicySound, Execute
<1>5. PICK r \in Known : /\ ReportValidated(r) /\ r.id = q.id
                         /\ r.backend = q.backend /\ r.runtime = q.runtime /\ r.action = q.action
  BY <1>4 DEF Backed
<1>6. Proves(r, "seccomp") /\ r.seccomp
  BY <1>3, <1>5, ValidatedProves
<1>7. Known' = Known
  BY DEF Execute, Known
<1>8. executed'.using = q /\ executed'.on = host /\ host.seccomp
  BY <1>1 DEF Execute
<1> QED
  BY <1>4, <1>5, <1>6, <1>7, <1>8 DEF ExecutedIsProven, Backed

(* Every other action leaves the chain's documents as they are.            *)
LEMMA ChainKept ==
  ASSUME ChainInv, evidence \subseteq evidence'
  PROVE  /\ gate' = gate => GateSound'
         /\ enablement' = enablement => PolicySound'
         /\ executed' = executed => ExecutedIsProven'
<1>1. Known \subseteq Known'
  BY DEF Known
<1>2. gate' = gate => GateSound'
  BY <1>1 DEF ChainInv, GateSound
<1>3. ASSUME enablement' = enablement PROVE PolicySound'
  BY <1>3, BackedStays DEF ChainInv, PolicySound
<1>4. executed' = executed => ExecutedIsProven'
  BY <1>1 DEF ChainInv, ExecutedIsProven
<1> QED
  BY <1>2, <1>3, <1>4

\* No document exists at first.
LEMMA ChainInitial == ASSUME Init PROVE ChainInv
BY DEF Init, ChainInv, GateSound, PolicySound, ExecutedIsProven, NoDocument

\* Every tool keeps what the documents stand for.
LEMMA ChainStep == ASSUME ChainInv, [Next]_vars PROVE ChainInv'
<1>1. evidence \subseteq evidence'
  BY EvidenceGrows
<1>2. ASSUME NEW reports \in Lists(Known, MaxReports), Validate(reports) PROVE ChainInv'
  <2>1. enablement' = enablement /\ executed' = executed
    BY <1>2 DEF Validate
  <2> QED
    BY <1>1, <1>2, <2>1, ValidateSound, ChainKept DEF ChainInv
<1>3. ASSUME NEW requests, Enable(requests) PROVE ChainInv'
  <2>1. gate' = gate /\ executed' = executed
    BY <1>3 DEF Enable
  <2> QED
    BY <1>1, <1>3, <2>1, EnableSound, ChainKept DEF ChainInv
<1>4. ASSUME NEW id, Execute(id) PROVE ChainInv'
  <2>1. gate' = gate /\ enablement' = enablement
    BY <1>4 DEF Execute
  <2> QED
    BY <1>1, <1>4, <2>1, ExecuteSound, ChainKept DEF ChainInv
<1>5. ASSUME gate' = gate, enablement' = enablement, executed' = executed PROVE ChainInv'
  BY <1>1, <1>5, ChainKept DEF ChainInv
<1>6. CASE \/ SeccompPrototype \/ BpfLsmPrototype \/ Reboot \/ DetectCapabilities
           \/ UNCHANGED vars
           \/ \E operation, operator : Audit(operation, operator)
           \/ \E r : Adopt(r)
           \/ \E b : MatrixTool(b) \/ LiveEvidenceBundle(b)
  BY <1>5, <1>6 DEF vars, SeccompPrototype, BpfLsmPrototype, Reboot, DetectCapabilities,
                    Audit, Adopt, MatrixTool, LiveEvidenceBundle
<1> QED
  BY <1>2, <1>3, <1>4, <1>6 DEF Next

(* Whenever the execution tool installed its filter, approval, opt-in,     *)
(* rollback plan, live proof and a host with seccomp were there: what      *)
(* apolysis-policy-guardrails-local-seccomp-execution relies on, whatever  *)
(* documents the tools before it were given.                               *)
THEOREM ExecutionProven == Spec => []ExecutedIsProven
<1>1. ChainInv => ExecutedIsProven
  BY DEF ChainInv
<1> QED
  BY <1>1, ChainInitial, ChainStep, PTL DEF Spec

----------------------------------------------------------------------------
\* The policy engine

(* An accepted piece of evidence (with_validated_block_prototype).         *)
Sound(e) == e.source = "live_host" /\ e.runtime = caps.runtime /\ e.prevention /\ e.window = 0

(* The capabilities are a record whose backend and actions all stem from   *)
(* adopted evidence.                                                       *)
EngineInv ==
  /\ \E lsm, seccomp, backend, actions :
       caps = [lsm |-> lsm, seccomp |-> seccomp, runtime |-> "local",
               backend |-> backend, actions |-> actions]
  /\ caps.backend # "none" => \E e \in adopted : e.backend = caps.backend
  /\ \A a \in caps.actions : \E e \in adopted : ActionOf(e.type) = a
  /\ \A e \in adopted : Sound(e)

\* At first no engine exists.
LEMMA EngineInitial == ASSUME Init PROVE EngineInv
BY DEF Init, EngineInv, Detect, Capabilities

(* with_validated_block_prototype: an adopted report is evidence for its   *)
(* own action.                                                             *)
LEMMA AdoptSound == ASSUME EngineInv, NEW r, Adopt(r) PROVE EngineInv'
<1> DEFINE e == EvidenceOf(r)
<1>1. /\ EvidenceAccepted(caps, e) /\ adopted' = adopted \cup {e}
      /\ caps' = [caps EXCEPT !.backend = e.backend, !.actions = @ \cup {ActionOf(e.type)}]
  BY DEF Adopt, WithValidatedBlockPrototype
<1> HIDE DEF e
<1>2. PICK lsm, seccomp, backend, actions :
         caps = [lsm |-> lsm, seccomp |-> seccomp, runtime |-> "local",
                 backend |-> backend, actions |-> actions]
  BY DEF EngineInv
<1>3. caps' = [lsm |-> lsm, seccomp |-> seccomp, runtime |-> "local",
               backend |-> e.backend, actions |-> actions \cup {ActionOf(e.type)}]
  BY <1>1, <1>2
<1>4. caps'.runtime = caps.runtime /\ caps'.backend = e.backend
      /\ caps'.actions = caps.actions \cup {ActionOf(e.type)}
  BY <1>2, <1>3
<1>5. Sound(e)
  BY <1>1 DEF EvidenceAccepted, Sound
<1>6. \A f \in adopted' : Sound(f)'
  BY <1>1, <1>4, <1>5 DEF EngineInv, Sound
<1>7. \A a \in caps'.actions : \E f \in adopted' : ActionOf(f.type) = a
  BY <1>1, <1>4 DEF EngineInv
<1>8. \E f \in adopted' : f.backend = caps'.backend
  BY <1>1, <1>4
<1> QED
  BY <1>3, <1>6, <1>7, <1>8 DEF EngineInv

\* Every tool keeps an engine's capabilities backed.
LEMMA EngineStep == ASSUME EngineInv, [Next]_vars PROVE EngineInv'
<1>1. ASSUME NEW r, Adopt(r) PROVE EngineInv'
  BY <1>1, AdoptSound
<1>2. CASE DetectCapabilities
  BY <1>2 DEF DetectCapabilities, EngineInv, Detect, Capabilities
<1>3. ASSUME caps' = caps, adopted' = adopted PROVE EngineInv'
  BY <1>3 DEF EngineInv, Sound
<1>4. CASE \/ SeccompPrototype \/ BpfLsmPrototype \/ Reboot \/ UNCHANGED vars
           \/ \E reports : Validate(reports)
           \/ \E requests : Enable(requests)
           \/ \E id : Execute(id)
           \/ \E operation, operator : Audit(operation, operator)
           \/ \E b : MatrixTool(b) \/ LiveEvidenceBundle(b)
  BY <1>3, <1>4 DEF vars, SeccompPrototype, BpfLsmPrototype, Reboot, Validate, Enable, Execute,
                    Audit, MatrixTool, LiveEvidenceBundle
<1> QED
  BY <1>1, <1>2, <1>4 DEF Next

(* EnforcementCapabilityMatrix::resolve on a requested block: it blocks    *)
(* exactly where prevention is available, and with the backend at hand.    *)
LEMMA BlockResolved ==
  ASSUME NEW c, NEW fallback, NEW runtime, NEW type
  PROVE  LET d == Resolve(c, "block", fallback, runtime, type) IN
         /\ d.prevention <=> d.effective = "block"
         /\ d.effective = "block" => d.backend = c.backend /\ CanPreoperationBlock(c, runtime, type)
<1> DEFINE f == SafeNonBlockFallback(fallback)
<1>1. f # "block"
  BY DEF SafeNonBlockFallback
<1>2. TimingFor(f) # "pre_operation"
  BY DEF TimingFor
<1> HIDE DEF f
<1> QED
  BY <1>1, <1>2 DEF Resolve, Resolved, f

(* A policy engine prevents an operation only with live evidence, without  *)
(* a side-effect window, for that action on its runtime, and with a        *)
(* backend it has evidence for: PolicyRuntimeCapabilities under any        *)
(* sequence of detect and with_validated_block_prototype.                  *)
THEOREM BlockProven == Spec => []BlockAsProven
<1>1. ASSUME EngineInv PROVE BlockAsProven
  <2>1. SUFFICES ASSUME NEW type, NEW fallback,
                        Resolve(caps, "block", fallback, caps.runtime, type).effective = "block"
                 PROVE
           /\ \E e \in adopted : /\ ActionOf(e.type) = ActionOf(type) /\ e.runtime = caps.runtime
                                 /\ e.source = "live_host" /\ e.prevention /\ e.window = 0
           /\ \E e \in adopted : e.backend = caps.backend
    BY BlockResolved DEF BlockAsProven
  <2>2. CanPreoperationBlock(caps, caps.runtime, type)
    BY <2>1, BlockResolved
  <2>3. ActionOf(type) \in caps.actions /\ caps.backend # "none"
    BY <2>2 DEF CanPreoperationBlock, BackendAvailableForRuntime
  <2> QED
    BY <1>1, <2>3 DEF EngineInv, Sound
<1> QED
  BY <1>1, EngineInitial, EngineStep, PTL DEF Spec

----------------------------------------------------------------------------
\* The guardrail matrix

(* What evidence a gate may lend to the entry of a runtime.                *)
Lendable(r) == r.source = "live_host" /\ (r.guest => r.runtime \notin Strong)

GatesSound(gates) ==
  /\ \A r \in gates.adapter.validated : Lendable(r)
  /\ \A k \in {"gvisor", "kubernetes", "kata"} :
       \A r \in gates[k].validated : Lendable(r) /\ r.runtime = k

(* The four evidence gates, on any bundle.                                 *)
LEMMA BundleGatesSound == ASSUME NEW b \in Bundles PROVE GatesSound(Gates(b))
<1>1. \A r \in Gates(b).adapter.validated : Lendable(r)
  BY DEF Gates, EvidenceGate, AdapterEvidence, Lendable, ToSet
<1>2. \A r \in Gates(b).gvisor.validated : Lendable(r) /\ r.runtime = "gvisor"
  <2>1. \A i \in DOMAIN b.gvisor : b.gvisor[i].runtime = "gvisor"
    BY BundleAssumption
  <2>2. /\ Gates(b).gvisor.validated \subseteq {b.gvisor[i] : i \in DOMAIN b.gvisor}
        /\ Gates(b).gvisor.validated # {} =>
             \A i \in DOMAIN b.gvisor : GvisorEvidence(b.gvisor[i])
    BY DEF Gates, OptionalGate, EvidenceGate, ToSet
  <2> QED
    BY <2>1, <2>2 DEF GvisorEvidence, Lendable
<1>3. \A r \in Gates(b).kubernetes.validated : Lendable(r) /\ r.runtime = "kubernetes"
  <2>1. \A i \in DOMAIN b.kubernetes : b.kubernetes[i].runtime = "kubernetes"
    BY BundleAssumption
  <2>2. /\ Gates(b).kubernetes.validated \subseteq {b.kubernetes[i] : i \in DOMAIN b.kubernetes}
        /\ Gates(b).kubernetes.validated # {} =>
             \A i \in DOMAIN b.kubernetes : KubernetesEvidence(b.kubernetes[i])
    BY DEF Gates, OptionalGate, EvidenceGate, ToSet
  <2> QED
    BY <2>1, <2>2 DEF KubernetesEvidence, Lendable
<1>4. \A r \in Gates(b).kata.validated : Lendable(r) /\ r.runtime = "kata"
  <2>1. \A i \in DOMAIN b.kata : b.kata[i].runtime = "kata"
    BY BundleAssumption
  <2>2. /\ Gates(b).kata.validated \subseteq {b.kata[i] : i \in DOMAIN b.kata}
        /\ Gates(b).kata.validated # {} =>
             \A i \in DOMAIN b.kata : KataEvidence(b.kata[i])
    BY DEF Gates, OptionalGate, EvidenceGate, ToSet
  <2> QED
    BY <2>1, <2>2 DEF KataEvidence, Lendable
<1> QED
  BY <1>1, <1>2, <1>3, <1>4 DEF GatesSound

(* A report the matrix counts proves its backend, and passes the           *)
(* validation gate when it has an evidence id: the second list of tests    *)
(* (runtime_guardrails_validated_local_block_evidence) implies the first.  *)
LEMMA CountedIsValidated ==
  ASSUME NEW reports, NEW backend \in {"seccomp", "bpf_lsm"},
         NEW r \in LocalBlockEvidence(reports, backend)
  PROVE  /\ r \in ToSet(reports) /\ Proves(r, backend)
         /\ r.id # "" => ValidationGate(<<r>>).passed
<1>1. r \in ToSet(reports) /\ Proves(r, backend) /\ r.backend = backend
      /\ (backend = "seccomp" => r.seccomp) /\ (backend = "bpf_lsm" => r.lsm)
  BY DEF LocalBlockEvidence, Proves
<1>2. EvidenceOf(r) = [source |-> "live_host", backend |-> backend, runtime |-> "local",
                       type |-> "file_open", prevention |-> r.prevention,
                       measured |-> r.measured, window |-> 0]
  BY <1>1 DEF EvidenceOf, EventTypeOf, Proves
<1> DEFINE c == Capabilities(r.lsm, r.seccomp, r.runtime)
           e == EvidenceOf(r)
<1>3. ActionOf(e.type) = "file_read" /\ e.backend = backend
  <2>1. e.type = "file_open" /\ e.backend = backend
    BY <1>2
  <2> HIDE DEF e
  <2> QED
    BY <2>1 DEF ActionOf, WriteTypes
<1>4. BackendAvailableForRuntime(c, backend, "local") /\ c.runtime = "local"
  BY <1>1 DEF BackendAvailableForRuntime, Supports, Capabilities, Proves
<1>5. EvidenceAccepted(c, e)
  BY <1>1, <1>2, <1>3, <1>4 DEF EvidenceAccepted, Proves
<1>6. CanPreoperationBlock(WithValidatedBlockPrototype(c, e), r.runtime, e.type)
  <2>1. c = [lsm |-> r.lsm, seccomp |-> r.seccomp, runtime |-> r.runtime,
             backend |-> "none", actions |-> {}]
    BY DEF Capabilities
  <2> DEFINE w == WithValidatedBlockPrototype(c, e)
  <2> HIDE DEF c, e
  <2>2. w.lsm = r.lsm /\ w.seccomp = r.seccomp /\ w.backend = backend /\ "file_read" \in w.actions
    BY <1>3, <2>1 DEF WithValidatedBlockPrototype
  <2>3. r.runtime = "local"
    BY <1>1 DEF Proves
  <2> HIDE DEF w
  <2>4. CanPreoperationBlock(w, r.runtime, e.type)
    BY <1>1, <1>3, <2>2, <2>3 DEF CanPreoperationBlock, BackendAvailableForRuntime, Supports
  <2> QED
    BY <2>4 DEF w
<1>7. r.id # "" => ReportValidated(r)
  BY <1>1, <1>5, <1>6 DEF ReportValidated, Proves
<1>8. ReportValidated(r) => ValidationGate(<<r>>).passed
  BY DEF ValidationGate
<1> QED
  BY <1>1, <1>7, <1>8

(* A matrix made from sound gates is backed.                               *)
Backs(m) ==
  /\ \A runtime \in DOMAIN m.runtimes : \A r \in m.runtimes[runtime].cites :
       /\ r.source = "live_host" /\ r.runtime = runtime
       /\ r.guest => runtime \notin Strong
  /\ \A b \in {"seccomp", "bpf_lsm"}, runtime \in DOMAIN m.runtimes :
       m.runtimes[runtime].block[b] = "prototype_validated" =>
         /\ runtime = "local"
         /\ \E r \in ToSet(m.of) :
              Proves(r, b) /\ (r.id # "" => ValidationGate(<<r>>).passed)

\* A new matrix lists nothing its bundles do not carry.
LEMMA MatrixMade ==
  ASSUME NEW reports, NEW gates, GatesSound(gates)
  PROVE  Backs(GuardrailMatrix(reports, gates))
<1> DEFINE m == GuardrailMatrix(reports, gates)
           All == {"local", "docker", "containerd", "kubernetes"} \cup Strong
<1>1. /\ DOMAIN m.runtimes = All /\ m.of = reports
      /\ \A runtime \in All :
           /\ m.runtimes[runtime].cites \subseteq Cited(gates, runtime)
           /\ \A b \in {"seccomp", "bpf_lsm"} :
                m.runtimes[runtime].block[b] = BlockStatus(runtime, reports, b)
  BY DEF GuardrailMatrix
<1> HIDE DEF m, All
<1>2. ASSUME NEW runtime, NEW r \in Cited(gates, runtime)
      PROVE  Lendable(r) /\ r.runtime = runtime
  BY <1>2 DEF Cited, GatesSound
<1>3. ASSUME NEW runtime, NEW b \in {"seccomp", "bpf_lsm"},
             BlockStatus(runtime, reports, b) = "prototype_validated"
      PROVE  runtime = "local" /\ LocalBlockEvidence(reports, b) # {}
  BY <1>3 DEF BlockStatus
<1>4. ASSUME NEW runtime \in DOMAIN m.runtimes, NEW r \in m.runtimes[runtime].cites
      PROVE  r.source = "live_host" /\ r.runtime = runtime /\ (r.guest => runtime \notin Strong)
  <2>1. r \in Cited(gates, runtime)
    BY <1>1, <1>4
  <2> QED
    BY <1>2, <2>1 DEF Lendable
<1>5. ASSUME NEW b \in {"seccomp", "bpf_lsm"}, NEW runtime \in DOMAIN m.runtimes,
             m.runtimes[runtime].block[b] = "prototype_validated"
      PROVE  /\ runtime = "local"
             /\ \E r \in ToSet(m.of) : Proves(r, b) /\ (r.id # "" => ValidationGate(<<r>>).passed)
  <2>1. runtime = "local" /\ LocalBlockEvidence(reports, b) # {}
    BY <1>1, <1>3, <1>5
  <2>2. PICK r \in LocalBlockEvidence(reports, b) : TRUE
    BY <2>1
  <2> QED
    BY <1>1, <2>1, <2>2, CountedIsValidated
<1>6. Backs(m)
  BY <1>4, <1>5 DEF Backs
<1> QED
  BY <1>6 DEF m

\* Only the matrix tool writes the matrix.
LEMMA MatrixStep == ASSUME MatrixIsBacked, [Next]_vars PROVE MatrixIsBacked'
<1>1. \A b \in Bundles : Backs(GuardrailMatrix(b.block, Gates(b)))
  BY BundleGatesSound, MatrixMade
<1>2. \A b \in Bundles : Backs(GuardrailMatrix(b.block, NoRuntimeEvidence))
  BY MatrixMade DEF NoRuntimeEvidence, GatesSound
<1>3. MatrixIsBacked <=> (matrix # NoDocument => Backs(matrix))
  BY DEF MatrixIsBacked, Backs
<1>4. MatrixIsBacked' <=> (matrix' # NoDocument => Backs(matrix'))
  BY DEF MatrixIsBacked, Backs
<1>5. ASSUME NEW b \in Bundles, MatrixTool(b) \/ LiveEvidenceBundle(b)
      PROVE  MatrixIsBacked'
  BY <1>1, <1>2, <1>3, <1>4, <1>5 DEF MatrixTool, LiveEvidenceBundle
<1>6. CASE matrix' = matrix
  BY <1>3, <1>4, <1>6
<1>7. CASE \/ SeccompPrototype \/ BpfLsmPrototype \/ Reboot \/ UNCHANGED vars \/ DetectCapabilities
           \/ \E reports : Validate(reports)
           \/ \E requests : Enable(requests)
           \/ \E id : Execute(id)
           \/ \E r : Adopt(r)
           \/ \E operation, operator : Audit(operation, operator)
  BY <1>6, <1>7 DEF vars, SeccompPrototype, BpfLsmPrototype, Reboot, Validate, Enable, Execute,
                    Audit, Adopt, DetectCapabilities
<1> QED
  BY <1>5, <1>7 DEF Next

(* The guardrail matrix cites only live evidence that claims nothing about *)
(* the inside of a guest, and calls validated only what the validation     *)
(* gate would pass, for every bundle and list of reports.                  *)
THEOREM MatrixBacked == Spec => []MatrixIsBacked
<1>1. Init => MatrixIsBacked
  BY DEF Init, MatrixIsBacked
<1> QED
  BY <1>1, MatrixStep, PTL DEF Spec

----------------------------------------------------------------------------
\* Where the documents come from

\* A report stays known.
LEMMA KnownStays ==
  ASSUME evidence \subseteq evidence'
  PROVE  /\ Known \subseteq Known'
         /\ Lists(Known, MaxReports) \subseteq Lists(Known', MaxReports)
<1>1. Known \subseteq Known'
  BY DEF Known
<1>2. ASSUME NEW S, NEW T, S \subseteq T PROVE Lists(S, MaxReports) \subseteq Lists(T, MaxReports)
  BY <1>2 DEF Lists
<1> QED
  BY <1>1, <1>2

\* The prototypes leave their own reports, a boot offers what a host may.
HostTypes ==
  /\ host \in Hosts
  /\ evidence \subseteq {LiveReport("live-seccomp", "seccomp"), LiveReport("live-bpf-lsm", "bpf_lsm")}

\* The documents of the chain.
ChainTypes ==
  /\ gate # NoDocument => \E reports \in Lists(Known, MaxReports) : gate = ValidationGate(reports)
  /\ enablement # NoDocument =>
       /\ enablement.passed \in BOOLEAN
       /\ \A i \in DOMAIN enablement.approved : enablement.approved[i] \in Requests
  /\ audit # NoDocument => audit.operation \in {"approve", "rollback"} /\ audit.operator = "operator"
  /\ executed # NoDocument => executed.using \in Requests /\ executed.on \in Hosts

\* The policy engine.
EngineTypes ==
  /\ caps.runtime = "local" /\ caps.backend \in {"none", "seccomp", "bpf_lsm"}
  /\ caps.actions \subseteq {"exec", "file_read", "credential_read", "file_write", "network_connect"}
  /\ adopted \subseteq {EvidenceOf(r) : r \in Known}

\* The matrix.
MatrixTypes ==
  matrix # NoDocument =>
    \E b \in Bundles : \E gates \in {NoRuntimeEvidence, Gates(b)} :
      matrix = GuardrailMatrix(b.block, gates)

GateTypes == HostTypes /\ ChainTypes /\ EngineTypes /\ MatrixTypes

\* Steps that print no document of the chain, and touch no engine.
LEMMA TypesUnchanged ==
  ASSUME GateTypes, evidence \subseteq evidence'
  PROVE  /\ UNCHANGED <<gate, enablement, audit, executed>> => ChainTypes'
         /\ UNCHANGED <<caps, adopted>> => EngineTypes'
         /\ UNCHANGED matrix => MatrixTypes'
         /\ UNCHANGED <<host, evidence>> => HostTypes'
<1>1. Known \subseteq Known' /\ Lists(Known, MaxReports) \subseteq Lists(Known', MaxReports)
  BY KnownStays
<1>2. ASSUME UNCHANGED <<gate, enablement, audit, executed>> PROVE ChainTypes'
  <2>1. gate' # NoDocument => \E reports \in Lists(Known', MaxReports) : gate' = ValidationGate(reports)
    BY <1>1, <1>2 DEF GateTypes, ChainTypes
  <2> QED
    BY <1>2, <2>1 DEF GateTypes, ChainTypes
<1>3. UNCHANGED <<caps, adopted>> => EngineTypes'
  BY <1>1 DEF GateTypes, EngineTypes
<1>4. UNCHANGED matrix => MatrixTypes'
  BY DEF GateTypes, MatrixTypes
<1>5. UNCHANGED <<host, evidence>> => HostTypes'
  BY DEF GateTypes, HostTypes
<1> QED
  BY <1>2, <1>3, <1>4, <1>5

\* No document exists at first, and the host's engine has no evidence.
LEMMA GateTypesInitially == Init => GateTypes
BY DEF Init, GateTypes, HostTypes, ChainTypes, EngineTypes, MatrixTypes, Detect, Capabilities

\* The tools of the chain.
LEMMA ChainToolTypes ==
  ASSUME GateTypes,
         \/ \E reports \in Lists(Known, MaxReports) : Validate(reports)
         \/ \E requests \in Lists(Requests, MaxRequests) : Enable(requests)
         \/ \E operation \in {"approve", "rollback"}, operator \in {"", "operator"} :
              Audit(operation, operator)
         \/ \E id : Execute(id)
  PROVE  GateTypes'
<1>1. UNCHANGED <<host, evidence, caps, adopted, matrix>>
  BY DEF Validate, Enable, Audit, Execute
<1>2. HostTypes' /\ EngineTypes' /\ MatrixTypes' /\ Known' = Known
  BY <1>1, TypesUnchanged DEF Known
<1>3. ASSUME NEW reports \in Lists(Known, MaxReports), Validate(reports) PROVE ChainTypes'
  <2>1. gate' = ValidationGate(reports) /\ UNCHANGED <<enablement, audit, executed, host>>
    BY <1>3 DEF Validate
  <2> QED
    BY <1>2, <2>1 DEF GateTypes, ChainTypes
<1>4. ASSUME NEW requests \in Lists(Requests, MaxRequests), Enable(requests) PROVE ChainTypes'
  <2>1. enablement' = EnablementPolicy(gate, requests) /\ UNCHANGED <<gate, audit, executed, host>>
    BY <1>4 DEF Enable
  <2>2. \A i \in DOMAIN requests : requests[i] \in Requests
    BY DEF Lists
  <2>3. /\ enablement'.passed \in BOOLEAN
        /\ \A i \in DOMAIN enablement'.approved : enablement'.approved[i] \in Requests
    <3> DEFINE ok == gate.passed /\ requests # <<>> /\ \A i \in DOMAIN requests : Enabled(gate, requests[i])
    <3>1. enablement' = [passed |-> ok, approved |-> IF ok THEN requests ELSE <<>>] /\ ok \in BOOLEAN
      BY <2>1 DEF EnablementPolicy
    <3> HIDE DEF ok
    <3>2. CASE ok
      <4>1. enablement'.approved = requests /\ enablement'.passed = ok
        BY <3>1, <3>2
      <4> QED
        BY <2>2, <3>1, <4>1
    <3>3. CASE ~ok
      <4>1. PICK t : t = <<>>
        OBVIOUS
      <4>2. enablement'.approved = t /\ enablement'.passed = ok
        BY <3>1, <3>3, <4>1
      <4>3. t \in Seq(Requests)
        BY <4>1, EmptySeq
      <4>4. t \in [1..Len(t) -> Requests]
        BY <4>3, LenProperties
      <4>5. \A i \in DOMAIN t : t[i] \in Requests
        BY <4>4
      <4> QED
        BY <3>1, <4>2, <4>5
    <3> QED
      BY <3>2, <3>3
  <2> QED
    BY <1>2, <2>1, <2>3 DEF GateTypes, ChainTypes
<1>5. ASSUME NEW operation \in {"approve", "rollback"}, NEW operator \in {"", "operator"},
             Audit(operation, operator)
      PROVE  ChainTypes'
  <2>1. /\ audit'.operation = operation /\ audit'.operator = operator /\ operator # ""
        /\ UNCHANGED <<gate, enablement, executed, host>>
    BY <1>5 DEF Audit
  <2> QED
    BY <1>2, <2>1 DEF GateTypes, ChainTypes
<1>6. ASSUME NEW id, Execute(id) PROVE ChainTypes'
  <2>1. PICK q \in MatchingEnablement(enablement, id) : executed' = [using |-> q, on |-> host]
    BY <1>6 DEF Execute
  <2>2. enablement # NoDocument /\ UNCHANGED <<gate, enablement, audit, host>>
    BY <1>6 DEF Execute
  <2>3. q \in Requests
    BY <2>1, <2>2 DEF MatchingEnablement, GateTypes, ChainTypes
  <2>4. executed'.using = q /\ executed'.on = host /\ host \in Hosts
    BY <2>1 DEF GateTypes, HostTypes
  <2> QED
    BY <1>2, <2>2, <2>3, <2>4 DEF GateTypes, ChainTypes
<1> QED
  BY <1>2, <1>3, <1>4, <1>5, <1>6 DEF GateTypes

\* detect and with_validated_block_prototype.
LEMMA EngineToolTypes ==
  ASSUME GateTypes, EngineInv, DetectCapabilities \/ \E r \in Known : Adopt(r)
  PROVE  GateTypes'
<1>1. UNCHANGED <<host, evidence, gate, enablement, audit, executed, matrix>>
  BY DEF DetectCapabilities, Adopt
<1>2. HostTypes' /\ ChainTypes' /\ MatrixTypes' /\ Known' = Known
  BY <1>1, TypesUnchanged DEF Known
<1>3. CASE DetectCapabilities
  BY <1>2, <1>3 DEF DetectCapabilities, Detect, Capabilities, GateTypes, EngineTypes
<1>4. ASSUME NEW r \in Known, Adopt(r) PROVE EngineTypes'
  <2>1. PICK e : e = EvidenceOf(r)
    OBVIOUS
  <2>2. /\ EvidenceAccepted(caps, e) /\ adopted' = adopted \cup {e}
        /\ caps' = [caps EXCEPT !.backend = e.backend, !.actions = @ \cup {ActionOf(e.type)}]
    BY <1>4, <2>1 DEF Adopt, WithValidatedBlockPrototype
  <2>3. PICK lsm, seccomp, backend, actions :
          caps = [lsm |-> lsm, seccomp |-> seccomp, runtime |-> "local",
                  backend |-> backend, actions |-> actions]
    BY DEF EngineInv
  <2>4. caps' = [lsm |-> lsm, seccomp |-> seccomp, runtime |-> "local",
                 backend |-> e.backend, actions |-> actions \cup {ActionOf(e.type)}]
    BY <2>2, <2>3
  <2>5. caps'.runtime = "local" /\ caps'.backend = e.backend
        /\ caps'.actions = caps.actions \cup {ActionOf(e.type)}
    BY <2>3, <2>4
  <2>6. e.backend \in {"seccomp", "bpf_lsm"} /\ ActionOf(e.type) # "other"
    BY <2>2 DEF EvidenceAccepted, BackendAvailableForRuntime
  <2>7. ActionOf(e.type) \in {"exec", "file_read", "credential_read", "file_write", "network_connect"}
    <3>1. \A type : ActionOf(type) \in {"exec", "file_read", "credential_read", "file_write",
                                        "network_connect", "other"}
      BY DEF ActionOf
    <3> QED
      BY <2>6, <3>1
  <2>8. adopted' \subseteq {EvidenceOf(k) : k \in Known'}
    BY <1>2, <2>1, <2>2 DEF GateTypes, EngineTypes
  <2> QED
    BY <2>5, <2>6, <2>7, <2>8 DEF GateTypes, EngineTypes
<1> QED
  BY <1>2, <1>3, <1>4 DEF GateTypes

\* The other steps: the prototypes, a boot and the matrix tools.
LEMMA OtherToolTypes ==
  ASSUME GateTypes,
         \/ SeccompPrototype \/ BpfLsmPrototype \/ Reboot \/ UNCHANGED vars
         \/ \E b \in Bundles : MatrixTool(b) \/ LiveEvidenceBundle(b)
  PROVE  GateTypes'
<1>1. UNCHANGED <<gate, enablement, audit, executed, caps, adopted>> /\ evidence \subseteq evidence'
  BY DEF SeccompPrototype, BpfLsmPrototype, Reboot, MatrixTool, LiveEvidenceBundle, vars
<1>2. ChainTypes' /\ EngineTypes'
  BY <1>1, TypesUnchanged
<1>3. CASE SeccompPrototype \/ BpfLsmPrototype \/ Reboot \/ UNCHANGED vars
  <2>1. UNCHANGED matrix
    BY <1>3 DEF SeccompPrototype, BpfLsmPrototype, Reboot, vars
  <2>2. HostTypes'
    BY <1>3 DEF GateTypes, HostTypes, SeccompPrototype, BpfLsmPrototype, Reboot, vars
  <2> QED
    BY <1>1, <1>2, <2>1, <2>2, TypesUnchanged DEF GateTypes
<1>4. ASSUME NEW b \in Bundles, MatrixTool(b) \/ LiveEvidenceBundle(b) PROVE GateTypes'
  <2>1. UNCHANGED <<host, evidence>>
    BY <1>4 DEF MatrixTool, LiveEvidenceBundle
  <2>2. \/ matrix' \in {matrix, NoDocument}
        \/ matrix' = GuardrailMatrix(b.block, NoRuntimeEvidence)
        \/ matrix' = GuardrailMatrix(b.block, Gates(b))
    BY <1>4 DEF MatrixTool, LiveEvidenceBundle
  <2>3. MatrixTypes'
    BY <2>2 DEF GateTypes, MatrixTypes
  <2> QED
    BY <1>1, <1>2, <2>1, <2>3, TypesUnchanged DEF GateTypes
<1> QED
  BY <1>3, <1>4

\* Every step keeps the documents what a tool prints.
LEMMA GateTypesKept == ASSUME GateTypes, EngineInv, [Next]_vars PROVE GateTypes'
BY ChainToolTypes, EngineToolTypes, OtherToolTypes DEF Next

(* Every document is one its tool printed: a gate from a list of known     *)
(* reports, a policy and an execution from requests operators wrote, the   *)
(* matrix from one bundle; and an engine's backend and actions are those   *)
(* of the reports with_validated_block_prototype takes.                    *)
THEOREM GatesTypeCorrect == Spec => []TypeOK
<1>1. GateTypes => TypeOK
  BY DEF GateTypes, HostTypes, ChainTypes, EngineTypes, MatrixTypes, TypeOK
<1> QED
  BY <1>1, GateTypesInitially, GateTypesKept, EngineInitial, EngineStep, PTL DEF Spec

----------------------------------------------------------------------------
\* Sequences of records

\* The records of two sequences, one behind the other.
LEMMA ToSetOfConcat ==
  ASSUME NEW S, NEW s \in Seq(S), NEW t \in Seq(S)
  PROVE  ToSet(s \o t) = ToSet(s) \cup ToSet(t)
<1>1. \A i \in DOMAIN s : i \in DOMAIN (s \o t) /\ (s \o t)[i] = s[i]
  OBVIOUS
<1>2. \A i \in DOMAIN t : Len(s) + i \in DOMAIN (s \o t) /\ (s \o t)[Len(s) + i] = t[i]
  OBVIOUS
<1>3. \A i \in DOMAIN (s \o t) : \/ i \in DOMAIN s /\ (s \o t)[i] = s[i]
                                 \/ i - Len(s) \in DOMAIN t /\ (s \o t)[i] = t[i - Len(s)]
  OBVIOUS
<1>4. ToSet(s) \subseteq ToSet(s \o t)
  BY <1>1 DEF ToSet
<1>5. ToSet(t) \subseteq ToSet(s \o t)
  BY <1>2 DEF ToSet
<1>6. ToSet(s \o t) \subseteq ToSet(s) \cup ToSet(t)
  BY <1>3 DEF ToSet
<1> QED
  BY <1>4, <1>5, <1>6

\* The records of a sequence with one more at its end.
LEMMA ToSetOfAppend ==
  ASSUME NEW S, NEW s \in Seq(S), NEW e \in S
  PROVE  ToSet(Append(s, e)) = ToSet(s) \cup {e}
<1>1. \A i \in DOMAIN Append(s, e) : \/ i \in DOMAIN s /\ Append(s, e)[i] = s[i]
                                     \/ Append(s, e)[i] = e
  OBVIOUS
<1>2. \A i \in DOMAIN s : i \in DOMAIN Append(s, e) /\ Append(s, e)[i] = s[i]
  OBVIOUS
<1>3. Len(s) + 1 \in DOMAIN Append(s, e) /\ Append(s, e)[Len(s) + 1] = e
  OBVIOUS
<1> QED
  BY <1>1, <1>2, <1>3 DEF ToSet

\* The records of a sequence are its first and those of its tail.
LEMMA ToSetOfTail ==
  ASSUME NEW S, NEW s \in Seq(S), s # <<>>
  PROVE  ToSet(s) = {Head(s)} \cup ToSet(Tail(s))
<1>1. \A i \in DOMAIN Tail(s) : i + 1 \in DOMAIN s /\ Tail(s)[i] = s[i + 1]
  OBVIOUS
<1>2. \A i \in DOMAIN s : i = 1 \/ (i - 1 \in DOMAIN Tail(s) /\ Tail(s)[i - 1] = s[i])
  OBVIOUS
<1>3. 1 \in DOMAIN s /\ Head(s) = s[1]
  OBVIOUS
<1>4. ToSet(Tail(s)) \subseteq ToSet(s)
  BY <1>1 DEF ToSet
<1>5. ToSet(s) \subseteq {Head(s)} \cup ToSet(Tail(s))
  BY <1>2, <1>3 DEF ToSet
<1>6. Head(s) \in ToSet(s)
  BY <1>3 DEF ToSet
<1> QED
  BY <1>4, <1>5, <1>6

\* A sequence's records come from its set.
LEMMA ToSetIsSubset == ASSUME NEW S, NEW s \in Seq(S) PROVE ToSet(s) \subseteq S
BY DEF ToSet

\* An empty file has no records.
LEMMA ToSetOfEmpty == ToSet(<<>>) = {}
BY DEF ToSet

\* One line, or none, is a sequence.
LEMMA OneLine == ASSUME NEW S, NEW a \in S PROVE <<a>> \in Seq(S) /\ <<>> \in Seq(S)
OBVIOUS

\* Two lines are a sequence.
LEMMA TwoLines == ASSUME NEW S, NEW a \in S, NEW b \in S PROVE <<a, b>> \in Seq(S)
OBVIOUS

\* Four lines are a sequence.
LEMMA FourLines ==
  ASSUME NEW S, NEW a \in S, NEW b \in S, NEW c \in S, NEW d \in S
  PROVE  <<a, b, c, d>> \in Seq(S)
OBVIOUS

\* The two records of every event, and the two of a violation behind them.
LEMMA TwoAndTwo ==
  ASSUME NEW S, NEW a \in S, NEW b \in S, NEW c \in S, NEW d \in S
  PROVE  <<a, b>> \o <<c, d>> = <<a, b, c, d>>
<1>1. PICK s \in Seq(S) : s = <<a, b>> /\ Len(s) = 2 /\ s[1] = a /\ s[2] = b
  <2>1. <<a, b>> \in Seq(S) /\ Len(<<a, b>>) = 2 /\ <<a, b>>[1] = a /\ <<a, b>>[2] = b
    BY TwoLines
  <2> QED
    BY <2>1
<1>2. PICK t \in Seq(S) : t = <<c, d>> /\ Len(t) = 2 /\ t[1] = c /\ t[2] = d
  <2>1. <<c, d>> \in Seq(S) /\ Len(<<c, d>>) = 2 /\ <<c, d>>[1] = c /\ <<c, d>>[2] = d
    BY TwoLines
  <2> QED
    BY <2>1
<1>3. PICK u \in Seq(S) : /\ u = <<a, b, c, d>> /\ Len(u) = 4
                          /\ u[1] = a /\ u[2] = b /\ u[3] = c /\ u[4] = d
  <2> DEFINE v == <<a, b, c, d>>
  <2>1. v \in Seq(S) /\ Len(v) = 4 /\ v[1] = a /\ v[2] = b /\ v[3] = c /\ v[4] = d
    BY FourLines
  <2> QED
    BY <2>1
<1>4. s \o t \in Seq(S) /\ Len(s \o t) = 4
  BY <1>1, <1>2
<1>5. \A i \in 1..4 : (s \o t)[i] = IF i <= 2 THEN s[i] ELSE t[i - 2]
  BY <1>1, <1>2
<1>6. \A i \in 1..4 : (s \o t)[i] = u[i]
  BY <1>1, <1>2, <1>3, <1>5
<1>7. s \o t = u
  BY <1>3, <1>4, <1>6, SeqEqual
<1> QED
  BY <1>1, <1>2, <1>3, <1>7

\* Two ascending files, the second later throughout, ascend together.
LEMMA AscendingConcat ==
  ASSUME NEW s \in Seq(Record), NEW t \in Seq(Record), Ascending(s), Ascending(t),
         \A a \in ToSet(s), b \in ToSet(t) : Before(a, b)
  PROVE  Ascending(s \o t)
<1> SUFFICES ASSUME NEW i \in DOMAIN (s \o t), NEW j \in DOMAIN (s \o t), i < j
             PROVE  Before((s \o t)[i], (s \o t)[j])
  BY DEF Ascending
<1>1. CASE j \in DOMAIN s
  <2>1. i \in DOMAIN s /\ (s \o t)[i] = s[i] /\ (s \o t)[j] = s[j]
    BY <1>1
  <2> QED
    BY <1>1, <2>1 DEF Ascending
<1>2. CASE i \in DOMAIN s /\ j \notin DOMAIN s
  <2>1. (s \o t)[i] = s[i] /\ j - Len(s) \in DOMAIN t /\ (s \o t)[j] = t[j - Len(s)]
    BY <1>2
  <2>2. s[i] \in ToSet(s) /\ t[j - Len(s)] \in ToSet(t)
    BY <1>2, <2>1 DEF ToSet
  <2> QED
    BY <2>1, <2>2
<1>3. CASE i \notin DOMAIN s
  <2>1. /\ i - Len(s) \in DOMAIN t /\ (s \o t)[i] = t[i - Len(s)]
        /\ j - Len(s) \in DOMAIN t /\ (s \o t)[j] = t[j - Len(s)]
        /\ i - Len(s) < j - Len(s)
    BY <1>3
  <2> QED
    BY <2>1 DEF Ascending
<1>4. i \in DOMAIN s \/ j \notin DOMAIN s
  OBVIOUS
<1> QED
  BY <1>1, <1>2, <1>3, <1>4

\* A file that ascends still does with a later record at its end.
LEMMA AscendingAppend ==
  ASSUME NEW s \in Seq(Record), NEW r \in Record, Ascending(s), \A a \in ToSet(s) : Before(a, r)
  PROVE  Ascending(Append(s, r))
<1>1. <<r>> \in Seq(Record) /\ ToSet(<<r>>) = {r} /\ Ascending(<<r>>)
  BY DEF ToSet, Ascending
<1>2. Append(s, r) = s \o <<r>>
  OBVIOUS
<1> QED
  BY <1>1, <1>2, AscendingConcat

\* In an ascending file the first record is before the others.
LEMMA AscendingTail ==
  ASSUME NEW s \in Seq(Record), s # <<>>, Ascending(s)
  PROVE  /\ Ascending(Tail(s))
         /\ \A b \in ToSet(Tail(s)) : Before(Head(s), b)
<1>1. \A i \in DOMAIN Tail(s) : i + 1 \in DOMAIN s /\ Tail(s)[i] = s[i + 1] /\ i \in Nat /\ i >= 1
  OBVIOUS
<1>2. 1 \in DOMAIN s /\ Head(s) = s[1]
  OBVIOUS
<1>3. Ascending(Tail(s))
  BY <1>1 DEF Ascending
<1>4. ASSUME NEW i \in DOMAIN Tail(s) PROVE Before(Head(s), Tail(s)[i])
  <2>1. i + 1 \in DOMAIN s /\ 1 < i + 1 /\ Tail(s)[i] = s[i + 1]
    BY <1>1
  <2> QED
    BY <1>2, <2>1 DEF Ascending
<1> QED
  BY <1>3, <1>4 DEF ToSet

----------------------------------------------------------------------------
\* What the store's steps do to the places, for any contents

Layout == [Places -> Seq(Record)]

\* The buffer, the active file and the archives.
LEMMA PlacesOfTheStore ==
  /\ -1 \in Places /\ 0 \in Places /\ MaxArchivedFiles \in Places /\ Places \subseteq Int
  /\ \A k \in Places : k # -1 => k \in 0..MaxArchivedFiles
  /\ \A k \in 0..MaxArchivedFiles : k \in Places /\ k # -1
BY RotationAssumption DEF Places

\* A record is in the store when it is in one of its places.
LEMMA RecordsMember ==
  ASSUME NEW F, NEW r
  PROVE  r \in RecordsIn(F) <=> \E k \in Places : r \in ToSet(F[k])
BY DEF RecordsIn

\* The store holds nothing but records.
LEMMA RecordsTyped == ASSUME NEW F \in Layout PROVE RecordsIn(F) \subseteq Record
<1> SUFFICES ASSUME NEW k \in Places PROVE ToSet(F[k]) \subseteq Record
  BY RecordsMember
<1>1. F[k] \in Seq(Record)
  BY DEF Layout
<1> QED
  BY <1>1, ToSetIsSubset

\* Before is a strict order.
LEMMA BeforeIsOrder ==
  /\ \A a \in Record : ~Before(a, a)
  /\ \A a, b \in Record : ~(Before(a, b) /\ Before(b, a))
  /\ \A a, b, c \in Record : Before(a, b) /\ Before(b, c) => Before(a, c)
BY DEF Before, Record

\* Of two records one comes before the other.
LEMMA OrderIsTotal ==
  ASSUME NEW F \in Layout, InOrder(F), NEW a \in RecordsIn(F), NEW b \in RecordsIn(F), a # b
  PROVE  Before(a, b) \/ Before(b, a)
<1>1. PICK k \in Places : a \in ToSet(F[k])
  BY RecordsMember
<1>2. PICK l \in Places : b \in ToSet(F[l])
  BY RecordsMember
<1>3. k \in Int /\ l \in Int
  BY PlacesOfTheStore
<1>4. CASE k = l
  <2>1. Ascending(F[k]) /\ F[k] \in Seq(Record)
    BY DEF InOrder, Layout
  <2>2. PICK i \in DOMAIN F[k] : a = F[k][i]
    BY <1>1 DEF ToSet
  <2>3. PICK j \in DOMAIN F[k] : b = F[k][j]
    BY <1>2, <1>4 DEF ToSet
  <2>4. i < j \/ j < i
    BY <2>1, <2>2, <2>3
  <2> QED
    BY <2>1, <2>2, <2>3, <2>4 DEF Ascending
<1>5. CASE k > l
  BY <1>1, <1>2, <1>5 DEF InOrder
<1>6. CASE l > k
  BY <1>1, <1>2, <1>6 DEF InOrder
<1> QED
  BY <1>3, <1>4, <1>5, <1>6

(* JsonlStore::flush: what is buffered goes behind the active file's lines. *)
LEMMA FlushKeeps ==
  ASSUME NEW F \in Layout, InOrder(F), NEW G,
         G = [k \in Places |-> IF k = -1 THEN <<>> ELSE IF k = 0 THEN F[0] \o F[-1] ELSE F[k]]
  PROVE  G \in Layout /\ InOrder(G) /\ RecordsIn(G) = RecordsIn(F)
<1>1. F[0] \in Seq(Record) /\ F[-1] \in Seq(Record)
  BY PlacesOfTheStore DEF Layout
<1> DEFINE joined == F[0] \o F[-1]
<1>2. G[-1] = <<>> /\ G[0] = joined /\ \A k \in Places : k \notin {0, -1} => G[k] = F[k]
  <2>1. -1 \in Places /\ 0 \in Places
    BY PlacesOfTheStore
  <2> HIDE DEF joined
  <2>2. G = [k \in Places |-> IF k = -1 THEN <<>> ELSE IF k = 0 THEN joined ELSE F[k]]
    BY DEF joined
  <2> QED
    BY <2>1, <2>2
<1>3. G \in Layout
  <2>1. joined \in Seq(Record) /\ <<>> \in Seq(Record)
    BY <1>1
  <2> QED
    BY <2>1 DEF Layout
<1>4. ToSet(G[-1]) = {} /\ ToSet(G[0]) = ToSet(F[0]) \cup ToSet(F[-1])
  <2>1. ToSet(joined) = ToSet(F[0]) \cup ToSet(F[-1])
    BY <1>1, ToSetOfConcat
  <2> QED
    BY <1>2, <2>1, ToSetOfEmpty
<1>5. RecordsIn(G) = RecordsIn(F)
  BY <1>2, <1>4, PlacesOfTheStore DEF RecordsIn
<1>6. ASSUME NEW k \in Places PROVE Ascending(G[k])
  <2>1. CASE k = -1
    BY <1>2, <2>1 DEF Ascending
  <2>2. CASE k = 0
    <3>1. \A a \in ToSet(F[0]), b \in ToSet(F[-1]) : Before(a, b)
      BY PlacesOfTheStore DEF InOrder
    <3>2. Ascending(F[0]) /\ Ascending(F[-1])
      BY PlacesOfTheStore DEF InOrder
    <3> QED
      BY <1>1, <1>2, <2>2, <3>1, <3>2, AscendingConcat
  <2>3. CASE k \notin {0, -1}
    BY <1>2, <2>3 DEF InOrder
  <2> QED
    BY <2>1, <2>2, <2>3
<1>7. ASSUME NEW k \in Places, NEW l \in Places, k > l, NEW a \in ToSet(G[k]), NEW b \in ToSet(G[l])
      PROVE  Before(a, b)
  <2>1. k # -1
    BY <1>4, <1>7
  <2>2. k > 0 /\ a \in ToSet(F[k])
    <3>1. l # -1
      BY <1>4, <1>7
    <3> QED
      BY <1>2, <1>7, <2>1, <3>1 DEF Places
  <2>3. CASE b \in ToSet(F[l])
    BY <1>7, <2>2, <2>3 DEF InOrder
  <2>4. CASE l = 0 /\ b \in ToSet(F[-1])
    <3>1. k > -1
      BY <2>2, PlacesOfTheStore
    <3> QED
      BY <2>2, <2>4, <3>1, PlacesOfTheStore DEF InOrder
  <2> QED
    BY <1>2, <1>4, <1>7, <2>3, <2>4
<1> QED
  BY <1>3, <1>5, <1>6, <1>7 DEF InOrder

(* BufWriter: the first of the buffered records goes behind the active     *)
(* file's lines.                                                           *)
LEMMA SpillKeeps ==
  ASSUME NEW F \in Layout, InOrder(F), NEW G, F[-1] # <<>>,
         G = [k \in Places |-> IF k = -1 THEN Tail(F[-1])
                               ELSE IF k = 0 THEN Append(F[0], Head(F[-1])) ELSE F[k]]
  PROVE  G \in Layout /\ InOrder(G) /\ RecordsIn(G) = RecordsIn(F)
<1>1. F[0] \in Seq(Record) /\ F[-1] \in Seq(Record)
  BY PlacesOfTheStore DEF Layout
<1> DEFINE h == Head(F[-1])
<1>2. h \in Record /\ Tail(F[-1]) \in Seq(Record)
  BY <1>1
<1>3. /\ G[-1] = Tail(F[-1]) /\ G[0] = Append(F[0], h)
      /\ \A k \in Places : k \notin {0, -1} => G[k] = F[k]
  BY PlacesOfTheStore
<1>4. G \in Layout
  <2>1. Append(F[0], h) \in Seq(Record)
    BY <1>1, <1>2
  <2> QED
    BY <1>2, <2>1 DEF Layout
<1>5. ToSet(G[0]) = ToSet(F[0]) \cup {h}
  <2>1. ToSet(Append(F[0], h)) = ToSet(F[0]) \cup {h}
    BY <1>1, <1>2, ToSetOfAppend
  <2> QED
    BY <1>3, <2>1
<1>6. ToSet(F[-1]) = {h} \cup ToSet(G[-1])
  BY <1>1, <1>3, ToSetOfTail
<1>7. RecordsIn(G) = RecordsIn(F)
  BY <1>3, <1>5, <1>6, PlacesOfTheStore DEF RecordsIn
<1>8. /\ Ascending(Tail(F[-1]))
      /\ \A b \in ToSet(Tail(F[-1])) : Before(h, b)
  <2>1. Ascending(F[-1])
    BY PlacesOfTheStore DEF InOrder
  <2> QED
    BY <1>1, <2>1, AscendingTail
<1>9. ASSUME NEW k \in Places PROVE Ascending(G[k])
  <2>1. CASE k = -1
    BY <1>3, <1>8, <2>1
  <2>2. CASE k = 0
    <3>1. \A a \in ToSet(F[0]) : Before(a, h)
      BY <1>6, PlacesOfTheStore DEF InOrder
    <3>2. Ascending(F[0])
      BY PlacesOfTheStore DEF InOrder
    <3> QED
      BY <1>1, <1>2, <1>3, <2>2, <3>1, <3>2, AscendingAppend
  <2>3. CASE k \notin {0, -1}
    BY <1>3, <2>3 DEF InOrder
  <2> QED
    BY <2>1, <2>2, <2>3
<1>10. ASSUME NEW k \in Places, NEW l \in Places, k > l, NEW a \in ToSet(G[k]), NEW b \in ToSet(G[l])
       PROVE  Before(a, b)
  <2>1. k >= 0 /\ k \in Int /\ l \in Int /\ k # -1
    BY <1>10 DEF Places
  <2>2. CASE a \in ToSet(F[k]) /\ b \in ToSet(F[l])
    BY <1>10, <2>2 DEF InOrder
  <2>3. CASE k = 0 /\ a = h
    <3>1. l = -1
      BY <1>10, <2>3 DEF Places
    <3> QED
      BY <1>3, <1>8, <1>10, <2>3, <3>1
  <2>4. CASE l = 0 /\ b = h /\ k # 0
    <3>1. a \in ToSet(F[k]) /\ h \in ToSet(F[-1]) /\ k > -1
      BY <1>3, <1>6, <1>10, <2>1, <2>4
    <3> QED
      BY <2>4, <3>1, PlacesOfTheStore DEF InOrder
  <2>5. a \in ToSet(F[k]) \/ (k = 0 /\ a = h)
    BY <1>3, <1>5, <1>10, <2>1
  <2>6. b \in ToSet(F[l]) \/ (l = 0 /\ b = h)
    <3>1. l = -1 \/ l = 0 \/ l \notin {0, -1}
      OBVIOUS
    <3> QED
      BY <1>3, <1>5, <1>6, <1>10, <3>1
  <2> QED
    BY <2>1, <2>2, <2>3, <2>4, <2>5, <2>6, <1>10
<1> QED
  BY <1>4, <1>7, <1>9, <1>10 DEF InOrder

(* What some places hold is dropped: a removed archive, a truncated file,  *)
(* a lost buffer.                                                          *)
LEMMA DropKeeps ==
  ASSUME NEW F \in Layout, InOrder(F), NEW S \in SUBSET Places, NEW G,
         G = [k \in Places |-> IF k \in S THEN <<>> ELSE F[k]]
  PROVE  /\ G \in Layout /\ InOrder(G) /\ RecordsIn(G) \subseteq RecordsIn(F)
         /\ \A r \in RecordsIn(F) \ RecordsIn(G) : \E k \in S : r \in ToSet(F[k])
<1>1. \A k \in Places : (k \in S => G[k] = <<>>) /\ (k \notin S => G[k] = F[k])
  OBVIOUS
<1>2. G \in Layout
  <2>1. <<>> \in Seq(Record)
    OBVIOUS
  <2> QED
    BY <2>1 DEF Layout
<1>3. \A k \in Places : ToSet(G[k]) \subseteq ToSet(F[k])
  BY <1>1, ToSetOfEmpty
<1>4. \A k \in Places : Ascending(G[k])
  <2>1. Ascending(<<>>)
    BY DEF Ascending
  <2> QED
    BY <1>1, <2>1 DEF InOrder
<1>5. InOrder(G)
  <2>1. \A k, l \in Places : k > l =>
          \A a \in ToSet(G[k]), b \in ToSet(G[l]) : Before(a, b)
    BY <1>3 DEF InOrder
  <2> QED
    BY <1>4, <2>1 DEF InOrder
<1>6. RecordsIn(G) \subseteq RecordsIn(F)
  BY <1>3, RecordsMember
<1>7. ASSUME NEW r \in RecordsIn(F), r \notin RecordsIn(G)
      PROVE  \E k \in S : r \in ToSet(F[k])
  <2>1. PICK k \in Places : r \in ToSet(F[k])
    BY RecordsMember
  <2>2. k \in S
    BY <1>1, <1>7, <2>1, RecordsMember
  <2> QED
    BY <2>1, <2>2
<1> QED
  BY <1>2, <1>5, <1>6, <1>7

(* Dropping the first or the last places leaves no record missing between  *)
(* two of one observer.                                                    *)
LEMMA DropOldestContiguous ==
  ASSUME NEW F \in Layout, InOrder(F), NoneMissing(RecordsIn(F)), NEW G,
         G = [k \in Places |-> IF k \in MaxArchivedFiles..MaxArchivedFiles THEN <<>> ELSE F[k]]
  PROVE  NoneMissing(RecordsIn(G))
<1> SUFFICES ASSUME NEW a \in RecordsIn(G), NEW b \in RecordsIn(G), a.session = b.session,
                    NEW n \in a.n..b.n
             PROVE  \E c \in RecordsIn(G) : c.session = a.session /\ c.n = n
  BY DEF NoneMissing
<1>1. /\ RecordsIn(G) \subseteq RecordsIn(F)
      /\ \A r \in RecordsIn(F) \ RecordsIn(G) : r \in ToSet(F[MaxArchivedFiles])
  <2>1. MaxArchivedFiles..MaxArchivedFiles \in SUBSET Places
    BY RotationAssumption DEF Places
  <2>2. \A r \in RecordsIn(F) \ RecordsIn(G) :
          \E k \in MaxArchivedFiles..MaxArchivedFiles : r \in ToSet(F[k])
    BY <2>1, DropKeeps
  <2>3. MaxArchivedFiles..MaxArchivedFiles = {MaxArchivedFiles}
    BY RotationAssumption
  <2> QED
    BY <2>1, <2>2, <2>3, DropKeeps
<1>2. PICK c \in RecordsIn(F) : c.session = a.session /\ c.n = n
  BY <1>1 DEF NoneMissing
<1>3. CASE c \notin RecordsIn(G)
  <2>1. c \in ToSet(F[MaxArchivedFiles])
    BY <1>1, <1>3
  <2>2. PICK k \in Places : a \in ToSet(G[k])
    BY RecordsMember
  <2>3. G[k] = F[k] /\ k # MaxArchivedFiles
    BY <2>2, ToSetOfEmpty
  <2>4. MaxArchivedFiles > k /\ MaxArchivedFiles \in Places
    BY <2>3, PlacesOfTheStore DEF Places
  <2>5. Before(c, a)
    BY <2>1, <2>2, <2>3, <2>4 DEF InOrder
  <2>6. a \in Record /\ c \in Record
    BY <1>1, RecordsTyped
  <2> QED
    BY <1>2, <2>5, <2>6 DEF Before, Record
<1> QED
  BY <1>2, <1>3

\* Losing the newest records leaves no gap between the others.
LEMMA DropNewestContiguous ==
  ASSUME NEW F \in Layout, InOrder(F), NoneMissing(RecordsIn(F)), NEW G,
         NEW m \in {-1, 0},
         G = [k \in Places |-> IF k \in -1..m THEN <<>> ELSE F[k]]
  PROVE  NoneMissing(RecordsIn(G))
<1> SUFFICES ASSUME NEW a \in RecordsIn(G), NEW b \in RecordsIn(G), a.session = b.session,
                    NEW n \in a.n..b.n
             PROVE  \E c \in RecordsIn(G) : c.session = a.session /\ c.n = n
  BY DEF NoneMissing
<1>1. /\ RecordsIn(G) \subseteq RecordsIn(F)
      /\ \A r \in RecordsIn(F) \ RecordsIn(G) : \E l \in -1..m : r \in ToSet(F[l])
  <2>1. -1..m \in SUBSET Places
    BY RotationAssumption DEF Places
  <2> QED
    BY <2>1, DropKeeps
<1>2. PICK c \in RecordsIn(F) : c.session = a.session /\ c.n = n
  BY <1>1 DEF NoneMissing
<1>3. CASE c \notin RecordsIn(G)
  <2>1. PICK l \in -1..m : c \in ToSet(F[l])
    BY <1>1, <1>3
  <2>2. PICK k \in Places : b \in ToSet(G[k])
    BY RecordsMember
  <2>3. G[k] = F[k] /\ k \notin -1..m
    BY <2>2, ToSetOfEmpty
  <2>4. k > l /\ l \in Places
    BY <2>1, <2>3, RotationAssumption DEF Places
  <2>5. Before(b, c)
    BY <2>1, <2>2, <2>3, <2>4 DEF InOrder
  <2>6. b \in Record /\ c \in Record /\ a \in Record
    BY <1>1, RecordsTyped
  <2> QED
    BY <1>2, <2>5, <2>6 DEF Before, Record
<1> QED
  BY <1>2, <1>3

(* JsonlStore::rotate: a file becomes the next archive, where none is.     *)
LEMMA ShiftKeeps ==
  ASSUME NEW F \in Layout, InOrder(F), NEW at \in 0..MaxArchivedFiles - 1, F[at + 1] = <<>>, NEW G,
         G = [k \in Places |-> IF k = at + 1 THEN F[at] ELSE IF k = at THEN <<>> ELSE F[k]]
  PROVE  G \in Layout /\ InOrder(G) /\ RecordsIn(G) = RecordsIn(F)
<1>1. at \in Places /\ at + 1 \in Places /\ at # at + 1 /\ at \in Int
  BY RotationAssumption DEF Places
<1>2. G[at + 1] = F[at] /\ G[at] = <<>> /\ \A k \in Places : k # at /\ k # at + 1 => G[k] = F[k]
  BY <1>1
<1>3. G \in Layout
  <2>1. <<>> \in Seq(Record) /\ F[at] \in Seq(Record)
    BY <1>1 DEF Layout
  <2> QED
    BY <2>1 DEF Layout
<1>4. RecordsIn(G) = RecordsIn(F)
  BY <1>1, <1>2, ToSetOfEmpty DEF RecordsIn
<1>5. ASSUME NEW k \in Places PROVE Ascending(G[k])
  <2>1. Ascending(<<>>)
    BY DEF Ascending
  <2> QED
    BY <1>1, <1>2, <2>1 DEF InOrder
<1>6. ASSUME NEW k \in Places, NEW l \in Places, k > l, NEW a \in ToSet(G[k]), NEW b \in ToSet(G[l])
      PROVE  Before(a, b)
  <2> DEFINE from(i) == IF i = at + 1 THEN at ELSE i
  <2>1. k # at /\ l # at /\ k \in Int /\ l \in Int
    BY <1>2, <1>6, ToSetOfEmpty, PlacesOfTheStore
  <2>2. from(k) \in Places /\ from(l) \in Places /\ from(k) > from(l)
    BY <1>1, <1>6, <2>1
  <2>3. G[k] = F[from(k)] /\ G[l] = F[from(l)]
    BY <1>2, <2>1
  <2> HIDE DEF from
  <2> QED
    BY <1>6, <2>2, <2>3 DEF InOrder
<1> QED
  BY <1>3, <1>4, <1>5, <1>6 DEF InOrder

(* JsonlStore::append: a record behind all others.                         *)
LEMMA AppendKeeps ==
  ASSUME NEW F \in Layout, InOrder(F), NEW r \in Record,
         \A a \in RecordsIn(F) : Before(a, r), NEW G,
         G = [k \in Places |-> IF k = -1 THEN Append(F[-1], r) ELSE F[k]]
  PROVE  G \in Layout /\ InOrder(G) /\ RecordsIn(G) = RecordsIn(F) \cup {r}
<1>1. -1 \in Places /\ F[-1] \in Seq(Record)
  BY PlacesOfTheStore DEF Layout
<1> DEFINE longer == Append(F[-1], r)
<1>2. longer \in Seq(Record) /\ ToSet(longer) = ToSet(F[-1]) \cup {r}
  BY <1>1, ToSetOfAppend
<1>3. Ascending(longer)
  <2>1. Ascending(F[-1]) /\ \A a \in ToSet(F[-1]) : Before(a, r)
    BY <1>1, RecordsMember DEF InOrder
  <2> QED
    BY <1>1, <2>1, AscendingAppend
<1> HIDE DEF longer
<1>4. G[-1] = longer /\ \A k \in Places : k # -1 => G[k] = F[k]
  BY <1>1 DEF longer
<1>5. G \in Layout
  BY <1>2 DEF Layout, longer
<1>6. RecordsIn(G) = RecordsIn(F) \cup {r}
  BY <1>1, <1>2, <1>4 DEF RecordsIn
<1>7. \A k \in Places : Ascending(G[k])
  BY <1>3, <1>4 DEF InOrder
<1>8. ASSUME NEW k \in Places, NEW l \in Places, k > l, NEW a \in ToSet(G[k]), NEW b \in ToSet(G[l])
      PROVE  Before(a, b)
  <2>1. k # -1 /\ a \in ToSet(F[k])
    BY <1>4, <1>8 DEF Places
  <2>2. CASE b \in ToSet(F[l])
    BY <1>8, <2>1, <2>2 DEF InOrder
  <2>3. CASE b = r
    BY <2>1, <2>3, RecordsMember
  <2> QED
    BY <1>2, <1>4, <1>8, <2>2, <2>3
<1> QED
  BY <1>5, <1>6, <1>7, <1>8 DEF InOrder

----------------------------------------------------------------------------
\* What the observer's decisions can be

\* No observer has evidence that anything can be stopped.
LEMMA NothingPrevented ==
  ASSUME NEW runtime, NEW type PROVE ~CanPreoperationBlock(Host, runtime, type)
BY DEF CanPreoperationBlock, BackendAvailableForRuntime, Host, Detect, Capabilities

\* What a resolved decision says.
LEMMA ResolvedTyped ==
  ASSUME NEW q \in Decisions, NEW f \in Decisions,
         NEW b \in {"audit_only", "signal_kill", "tracepoint_notify"},
         NEW t \in {"audit_only", "post_event_containment", "post_event_feedback"}
  PROVE  /\ Resolved(q, f, b, t) \in Decision
         /\ Resolved(q, f, b, t).requested = q /\ Resolved(q, f, b, t).effective = f
         /\ Resolved(q, f, b, t).prevention <=> t = "pre_operation"
         /\ Resolved(q, f, b, t).downgraded <=> q # f
BY DEF Resolved, Decision

(* EnforcementCapabilityMatrix::resolve without evidence: nothing is       *)
(* prevented, and exactly a block is downgraded.                           *)
LEMMA OutcomeOfRequest ==
  ASSUME NEW p \in Policies, NEW type, NEW d,
         d = Resolve(Host, p.requested, p.fallback, "local", type)
  PROVE  /\ d \in Decision /\ d.requested = p.requested /\ ~d.prevention
         /\ d.downgraded <=> p.requested = "block"
         /\ d.effective = "allow" =>
              p.requested = "allow" \/ (p.requested = "block" /\ p.fallback = "allow")
<1>1. p.requested \in Decisions /\ p.fallback \in Decisions
  BY PolicyAssumption
<1>2. CASE p.requested # "block"
  BY <1>1, <1>2 DEF Resolve, Resolved, Decision, Decisions, BackendFor, TimingFor
<1>3. CASE p.requested = "block"
  <2>1. PICK f \in Decisions : f = SafeNonBlockFallback(p.fallback)
    BY <1>1 DEF SafeNonBlockFallback, Decisions
  <2>2. f # "block" /\ (f = "allow" => p.fallback = "allow")
    BY <2>1 DEF SafeNonBlockFallback
  <2>3. d = Resolved("block", f, BackendFor(f), TimingFor(f))
    BY <1>3, <2>1, NothingPrevented DEF Resolve
  <2>4. PICK b \in {"audit_only", "signal_kill", "tracepoint_notify"} : b = BackendFor(f)
    BY DEF BackendFor
  <2>5. PICK t \in {"audit_only", "post_event_containment", "post_event_feedback"} : t = TimingFor(f)
    BY DEF TimingFor
  <2>6. "block" \in Decisions /\ d = Resolved("block", f, b, t) /\ t # "pre_operation"
    BY <2>3, <2>4, <2>5 DEF Decisions
  <2> QED
    BY <1>3, <2>2, <2>6, ResolvedTyped
<1> QED
  BY <1>2, <1>3

\* The decision of a record that decides nothing.
LEMMA PlainIsDecision == Plain \in Decision
BY DEF Plain, Resolved, Decision, Decisions

(* Policy::evaluate_event: an event that breaks no rule is plainly allowed, *)
(* and of one that does the outcome is what the policy asks for.            *)
LEMMA EvaluationOfEvent ==
  ASSUME NEW p \in Policies, NEW e, NEW d,
         d = EvaluateEvent(p, Host, Canonicalize(e), e.matches)
  PROVE  /\ d \in Decision
         /\ BreaksRule(p, Canonicalize(e), e.matches) =>
              d = Resolve(Host, p.requested, p.fallback, "local", Canonicalize(e))
         /\ ~BreaksRule(p, Canonicalize(e), e.matches) => d.effective = "allow"
<1>1. Host.runtime = "local"
  BY DEF Host, Detect, Capabilities
<1>2. CASE BreaksRule(p, Canonicalize(e), e.matches)
  <2>1. d = Resolve(Host, p.requested, p.fallback, "local", Canonicalize(e))
    BY <1>1, <1>2 DEF EvaluateEvent
  <2> QED
    BY <1>2, <2>1, OutcomeOfRequest
<1>3. CASE ~BreaksRule(p, Canonicalize(e), e.matches)
  <2>1. d = Plain
    BY <1>3 DEF EvaluateEvent, Plain
  <2> QED
    BY <1>3, <2>1, PlainIsDecision DEF Plain, Resolved
<1> QED
  BY <1>2, <1>3

(* append_policy_evaluation: the raw and the canonical record, and unless  *)
(* the event is allowed the violation and its metadata.                    *)
LEMMA RecordsOfEvent ==
  ASSUME NEW i \in Nat, NEW e \in Events, policy \in Policies,
         NEW lines, lines = RecordsOf(i, e)
  PROVE  \E event \in [i : Nat, is : Events], d \in Decision :
           /\ event = [i |-> i, is |-> e]
           /\ \/ /\ lines = <<Line("raw", event, Plain), Line("canonical", event, Plain)>>
                 /\ ~MustBeKept(e)
              \/ /\ lines = <<Line("raw", event, Plain), Line("canonical", event, Plain),
                              Line("violation", event, d), Line("metadata", event, d)>>
                 /\ MustBeKept(e) => d = Outcome(e)
<1> DEFINE event == [i |-> i, is |-> e]
           d == EvaluateEvent(policy, Host, Canonicalize(e), e.matches)
<1>1. event \in [i : Nat, is : Events]
  OBVIOUS
<1>2. d \in Decision /\ (MustBeKept(e) => d = Outcome(e))
  BY EvaluationOfEvent DEF MustBeKept, Outcome
<1>3. MustBeKept(e) => d.effective # "allow"
  <2> SUFFICES ASSUME MustBeKept(e) PROVE d.effective # "allow"
    OBVIOUS
  <2>1. d = Resolve(Host, policy.requested, policy.fallback, "local", Canonicalize(e))
    BY EvaluationOfEvent DEF MustBeKept
  <2> HIDE DEF d
  <2> QED
    BY <2>1, OutcomeOfRequest DEF MustBeKept
<1>4. CASE d.effective = "allow"
  <2>1. lines = <<Line("raw", event, Plain), Line("canonical", event, Plain)>> \o <<>>
    BY <1>4 DEF RecordsOf
  <2>2. lines = <<Line("raw", event, Plain), Line("canonical", event, Plain)>>
    BY <2>1
  <2> QED
    BY <1>1, <1>2, <1>3, <1>4, <2>2
<1>5. CASE d.effective # "allow"
  <2>1. lines = <<Line("raw", event, Plain), Line("canonical", event, Plain)>>
                  \o <<Line("violation", event, d), Line("metadata", event, d)>>
    BY <1>5 DEF RecordsOf
  <2>2. lines = <<Line("raw", event, Plain), Line("canonical", event, Plain),
                  Line("violation", event, d), Line("metadata", event, d)>>
    <3>1. /\ Line("raw", event, Plain) \in LineType /\ Line("canonical", event, Plain) \in LineType
          /\ Line("violation", event, d) \in LineType /\ Line("metadata", event, d) \in LineType
      BY <1>1, <1>2, PlainIsDecision DEF Line, LineType, Kinds
    <3> QED
      BY <2>1, <3>1, TwoAndTwo
  <2> QED
    BY <1>1, <1>2, <2>2
<1> QED
  BY <1>4, <1>5

\* The records of an event are well typed.
LEMMA RecordsOfTyped ==
  ASSUME NEW i \in Nat, NEW e \in Events, policy \in Policies
  PROVE  RecordsOf(i, e) \in Seq(LineType)
<1> DEFINE lines == RecordsOf(i, e)
<1>1. PICK event \in [i : Nat, is : Events], d \in Decision :
        \/ lines = <<Line("raw", event, Plain), Line("canonical", event, Plain)>>
        \/ lines = <<Line("raw", event, Plain), Line("canonical", event, Plain),
                     Line("violation", event, d), Line("metadata", event, d)>>
  BY RecordsOfEvent
<1>2. /\ Line("raw", event, Plain) \in LineType /\ Line("canonical", event, Plain) \in LineType
      /\ Line("violation", event, d) \in LineType /\ Line("metadata", event, d) \in LineType
  BY PlainIsDecision DEF Line, LineType, Kinds
<1> HIDE DEF lines
<1>3. lines \in Seq(LineType)
  <2>1. PICK a \in LineType, b \in LineType, c \in LineType, x \in LineType :
          lines = <<a, b>> \/ lines = <<a, b, c, x>>
    BY <1>1, <1>2
  <2>2. <<a, b>> \in Seq(LineType)
    BY TwoLines
  <2>3. <<a, b, c, x>> \in Seq(LineType)
    BY FourLines
  <2> QED
    BY <2>1, <2>2, <2>3
<1> QED
  BY <1>3 DEF lines

\* An observer's first records are about itself.
LEMMA StartupRecordsTyped ==
  ASSUME NEW p
  PROVE  /\ StartupRecords(p) \in Seq(LineType)
         /\ \A i \in DOMAIN StartupRecords(p) : StartupRecords(p)[i].kind \in {"startup", "downgrade"}
<1>1. Line("startup", NoEvent, Plain) \in LineType /\ Line("downgrade", NoEvent, Plain) \in LineType
  BY PlainIsDecision DEF Line, LineType, Kinds
<1>2. /\ Line("startup", NoEvent, Plain).kind = "startup"
      /\ Line("downgrade", NoEvent, Plain).kind = "downgrade"
  BY DEF Line
<1>0. PICK S : S = {Line("startup", NoEvent, Plain), Line("downgrade", NoEvent, Plain)}
  OBVIOUS
<1>3. PICK a \in Seq(S) : a = <<Line("startup", NoEvent, Plain)>>
  BY <1>0, OneLine
<1>4. PICK b \in Seq(S) : b = IF StartupDowngrade(p, Host)
                              THEN <<Line("downgrade", NoEvent, Plain)>> ELSE <<>>
  BY <1>0, OneLine
<1>5. PICK lines \in Seq(S) : lines = StartupRecords(p)
  <2>1. StartupRecords(p) = a \o b
    BY <1>3, <1>4 DEF StartupRecords
  <2>2. a \o b \in Seq(S)
    OBVIOUS
  <2> QED
    BY <2>1, <2>2
<1>6. \A i \in DOMAIN lines : lines[i] \in S
  BY <1>5
<1>7. lines \in Seq(LineType)
  <2>1. S \subseteq LineType
    BY <1>0, <1>1
  <2> QED
    BY <2>1
<1>8. \A i \in DOMAIN lines : lines[i].kind \in {"startup", "downgrade"}
  BY <1>0, <1>2, <1>6
<1> QED
  BY <1>5, <1>7, <1>8

----------------------------------------------------------------------------
\* Type correctness

\* A file that is not there, and an empty one.
LEMMA FileTypes ==
  /\ Absent \in FileType /\ Absent.lines = <<>> /\ Absent.exists = FALSE
  /\ Holding(<<>>) \in FileType /\ Holding(<<>>).lines = <<>> /\ Holding(<<>>).exists = TRUE
BY DEF Absent, Holding, FileType

\* Writing behind the lines of the active file.
IsWritten(gs, fs, lines) == gs = [fs EXCEPT ![0].lines = lines]

\* Writing to the active file leaves the archives as they are.
LEMMA FileWritten ==
  ASSUME NEW fs \in [0..MaxArchivedFiles -> FileType], NEW lines \in Seq(Record), NEW gs,
         IsWritten(gs, fs, lines)
  PROVE  /\ gs \in [0..MaxArchivedFiles -> FileType]
         /\ gs[0].lines = lines /\ gs[0].exists = fs[0].exists
         /\ \A k \in 1..MaxArchivedFiles : gs[k] = fs[k]
<1>1. 0 \in 0..MaxArchivedFiles
  BY RotationAssumption
<1>2. fs[0] \in FileType
  BY <1>1
<1>3. [fs[0] EXCEPT !.lines = lines] \in FileType
  BY <1>2 DEF FileType
<1>4. gs[0] = [fs[0] EXCEPT !.lines = lines]
  BY <1>1 DEF IsWritten
<1>5. gs[0].lines = lines /\ gs[0].exists = fs[0].exists
  BY <1>2, <1>4 DEF FileType
<1>6. \A k \in 0..MaxArchivedFiles : k # 0 => gs[k] = fs[k]
  BY DEF IsWritten
<1>7. gs \in [0..MaxArchivedFiles -> FileType]
  BY <1>1, <1>3 DEF IsWritten
<1> QED
  BY <1>5, <1>6, <1>7

\* Every file holds records.
LEMMA LinesTyped ==
  ASSUME TimelineTypeOK
  PROVE  \A k \in 0..MaxArchivedFiles : files[k] \in FileType /\ files[k].lines \in Seq(Record)
BY DEF TimelineTypeOK, FileType

\* A new observer's state is well typed.
LEMMA StartTyped ==
  ASSUME TimelineTypeOK, NEW p \in Policies, Start(p)
  PROVE  TimelineTypeOK'
<1>1. files' \in [0..MaxArchivedFiles -> FileType]
  <2>1. files \in [0..MaxArchivedFiles -> FileType]
    BY DEF TimelineTypeOK
  <2> QED
    BY <2>1, FileTypes DEF Start
<1>2. todo' \in Seq(LineType)
  BY StartupRecordsTyped DEF Start
<1>3. NoViolation \in RecordId
  BY DEF NoViolation, RecordId
<1> QED
  BY <1>1, <1>2, <1>3 DEF Start, TimelineTypeOK, NotRotating

\* The state is well typed after append, rotating first or not.
LEMMA Append1Typed ==
  ASSUME TimelineTypeOK, Append1
  PROVE  TimelineTypeOK'
<1>1. Head(todo) \in LineType /\ Tail(todo) \in Seq(LineType)
  BY DEF TimelineTypeOK, Append1
<1>2. CASE ShouldRotateBefore(SizeOf[Head(todo).kind])
  BY <1>2 DEF Append1, TimelineTypeOK
<1>3. CASE ~ShouldRotateBefore(SizeOf[Head(todo).kind])
  <2> DEFINE id == [session |-> session, n |-> appended + 1]
             r == [session |-> session, n |-> appended + 1, of |-> Head(todo)]
  <2>1. r \in Record /\ id \in RecordId
    BY <1>1 DEF TimelineTypeOK, Record, RecordId
  <2>2. SizeOf[Head(todo).kind] \in Nat
    BY <1>1, SizeAssumption DEF LineType
  <2>3. /\ buffer' = Append(buffer, r) /\ bytes' = bytes + SizeOf[Head(todo).kind]
        /\ todo' = Tail(todo) /\ appended' = appended + 1
        /\ telling' \in {id, telling}
        /\ UNCHANGED <<files, rotation, session, policy, running, seen, feedback>>
    BY <1>3 DEF Append1
  <2> HIDE DEF r, id
  <2> QED
    BY <1>1, <2>1, <2>2, <2>3 DEF TimelineTypeOK
<1> QED
  BY <1>2, <1>3

\* The state is well typed after each step of rotate.
LEMMA RotationTyped ==
  ASSUME TimelineTypeOK, RemoveOldest \/ ShiftArchive \/ CreateActive
  PROVE  TimelineTypeOK'
<1>1. files \in [0..MaxArchivedFiles -> FileType]
  BY DEF TimelineTypeOK
<1>2. 0 \in 0..MaxArchivedFiles /\ MaxArchivedFiles \in 0..MaxArchivedFiles
      /\ MaxArchivedFiles - 1 \in 0..MaxArchivedFiles - 1 /\ MaxArchivedFiles # 0
  BY RotationAssumption
<1>3. CASE RemoveOldest
  <2>1. PICK lines \in Seq(Record) : lines = files[0].lines \o buffer
    <3>1. files[0].lines \o buffer \in Seq(Record)
      BY <1>2, LinesTyped DEF TimelineTypeOK
    <3> QED
      BY <3>1
  <2>2. PICK written : written = [files EXCEPT ![0].lines = lines]
    OBVIOUS
  <2>3. written \in [0..MaxArchivedFiles -> FileType]
    BY <1>1, <2>2, FileWritten DEF IsWritten
  <2>4. files' = [written EXCEPT ![MaxArchivedFiles] = Absent]
    BY <1>1, <1>2, <1>3, <2>1, <2>2 DEF RemoveOldest
  <2>5. files' \in [0..MaxArchivedFiles -> FileType]
    BY <2>3, <2>4, FileTypes
  <2>6. /\ rotation'.at = "shift" /\ rotation'.k = MaxArchivedFiles - 1
        /\ buffer' = <<>> /\ <<>> \in Seq(Record)
        /\ UNCHANGED <<bytes, appended, session, policy, running, todo, seen, telling, feedback>>
    BY <1>3 DEF RemoveOldest
  <2> QED
    BY <1>2, <2>5, <2>6 DEF TimelineTypeOK
<1>4. CASE ShiftArchive
  <2>1. rotation.k \in 0..MaxArchivedFiles - 1
    BY <1>4 DEF ShiftArchive, TimelineTypeOK
  <2>2. rotation.k \in 0..MaxArchivedFiles /\ files[rotation.k] \in FileType
    BY <1>1, <2>1, RotationAssumption
  <2>3. files' \in [0..MaxArchivedFiles -> FileType]
    BY <1>1, <1>4, <2>2, FileTypes DEF ShiftArchive
  <2>4. rotation'.at = "shift" => rotation'.k \in 0..MaxArchivedFiles - 1
    BY <1>4, <2>1, RotationAssumption DEF ShiftArchive
  <2>5. rotation'.at \in {"shift", "create"}
    BY <1>4 DEF ShiftArchive
  <2> QED
    BY <1>4, <2>3, <2>4, <2>5 DEF ShiftArchive, TimelineTypeOK
<1>5. CASE CreateActive
  <2>1. files' \in [0..MaxArchivedFiles -> FileType]
    BY <1>1, <1>5, FileTypes DEF CreateActive
  <2> QED
    BY <1>5, <2>1 DEF CreateActive, TimelineTypeOK, NotRotating
<1> QED
  BY <1>3, <1>4, <1>5

\* The state is well typed after the buffer is passed on.
LEMMA BufferTyped ==
  ASSUME TimelineTypeOK, Spill \/ Finish
  PROVE  TimelineTypeOK'
<1>1. files \in [0..MaxArchivedFiles -> FileType] /\ files[0].lines \in Seq(Record)
  BY LinesTyped, RotationAssumption DEF TimelineTypeOK
<1>2. CASE Spill
  <2>1. Head(buffer) \in Record /\ Tail(buffer) \in Seq(Record)
    BY <1>2 DEF Spill, TimelineTypeOK
  <2>2. PICK lines \in Seq(Record) : lines = Append(files[0].lines, Head(buffer))
    <3>1. Append(files[0].lines, Head(buffer)) \in Seq(Record)
      BY <1>1, <2>1
    <3> QED
      BY <3>1
  <2>3. files' = [files EXCEPT ![0].lines = lines]
    BY <1>1, <1>2, <2>2, RotationAssumption DEF Spill
  <2>4. files' \in [0..MaxArchivedFiles -> FileType]
    BY <1>1, <2>3, FileWritten DEF IsWritten
  <2> QED
    BY <1>2, <2>1, <2>4 DEF Spill, TimelineTypeOK
<1>3. CASE Finish
  <2>1. PICK lines \in Seq(Record) : lines = files[0].lines \o buffer
    <3>1. files[0].lines \o buffer \in Seq(Record)
      BY <1>1 DEF TimelineTypeOK
    <3> QED
      BY <3>1
  <2>2. files' = [files EXCEPT ![0].lines = lines]
    BY <1>1, <1>3, <2>1, RotationAssumption DEF Finish
  <2>3. files' \in [0..MaxArchivedFiles -> FileType]
    BY <1>1, <2>2, FileWritten DEF IsWritten
  <2> QED
    BY <1>3, <2>3 DEF Finish, TimelineTypeOK
<1> QED
  BY <1>2, <1>3

\* The state is well typed after the observer's other steps.
LEMMA ObserverTyped ==
  ASSUME TimelineTypeOK, (\E e \in Events : Observe(e)) \/ WriteText \/ WriteJson \/ Stop
  PROVE  TimelineTypeOK'
<1>1. CASE \E e \in Events : Observe(e)
  <2>1. PICK e \in Events : Observe(e)
    BY <1>1
  <2>2. todo' \in Seq(LineType)
    BY <2>1, RecordsOfTyped DEF Observe, TimelineTypeOK
  <2> QED
    BY <2>1, <2>2 DEF Observe, TimelineTypeOK, store
<1>2. CASE WriteText
  BY <1>2 DEF WriteText, TimelineTypeOK, store
<1>3. CASE WriteJson
  BY <1>3 DEF WriteJson, TimelineTypeOK, store, NoViolation, RecordId
<1>4. CASE Stop
  BY <1>4 DEF Stop, TimelineTypeOK
<1> QED
  BY <1>1, <1>2, <1>3, <1>4

\* The first state is well typed.
LEMMA InitTyped == TimelineInit => TimelineTypeOK
BY FileTypes DEF TimelineInit, TimelineTypeOK, NotRotating, NoViolation, RecordId

\* Every step keeps the types.
LEMMA NextTyped == ASSUME TimelineTypeOK, [TimelineNext]_timelineVars PROVE TimelineTypeOK'
<1>1. CASE UNCHANGED timelineVars
  BY <1>1 DEF timelineVars, TimelineTypeOK
<1>2. CASE TimelineNext
  BY <1>2, StartTyped, Append1Typed, RotationTyped, BufferTyped, ObserverTyped DEF TimelineNext
<1> QED
  BY <1>1, <1>2

(* Every reachable state of the timeline and the feedback is well typed.   *)
THEOREM TimelineTypeCorrect == TimelineSpec => []TimelineTypeOK
<1> QED
  BY InitTyped, NextTyped, PTL DEF TimelineSpec

----------------------------------------------------------------------------
\* Order and completeness

Going == running \in {"yes", "ended"}

(* What the steps of a rotation leave behind: a file that is not there has *)
(* no lines, and the place a file is moved to is empty.                    *)
StoreSound ==
  /\ \A k \in 0..MaxArchivedFiles : ~files[k].exists => files[k].lines = <<>>
  /\ running # "yes" => buffer = <<>>
  /\ running = "yes" /\ rotation.at \in {"no", "oldest"} => files[0].exists
  /\ rotation.at = "oldest" => bytes > 0
  /\ rotation.at \in {"shift", "create"} => buffer = <<>>
  /\ running = "yes" /\ rotation.at = "shift" => files[rotation.k + 1].lines = <<>>
  /\ running = "yes" /\ rotation.at = "create" => files[0].lines = <<>>

Numbered ==
  \A r \in Records : r.session <= session /\ (r.session = session => r.n \in 1..appended)

IsNewest(r) == r.session = session /\ r.n = appended

(* The newest record is there, and not yet in an archive while a rotation  *)
(* is still to remove the oldest one.                                      *)
NewestSafe ==
  /\ Going /\ appended > 0 => \E r \in Records : IsNewest(r)
  /\ running = "yes" /\ rotation.at \in {"no", "oldest"} /\ bytes > 0 =>
       \E r \in ToSet(Contents[0]) \cup ToSet(Contents[-1]) : IsNewest(r)

OrderInv ==
  StoreSound /\ InOrder(Contents) /\ NoneMissing(Records) /\ Numbered /\ NewestSafe

\* The contents of each place, and the records of the store.
LEMMA ContentsTyped ==
  ASSUME TimelineTypeOK
  PROVE  /\ Contents \in Layout /\ Records \subseteq Record
         /\ Contents[-1] = buffer /\ \A k \in 0..MaxArchivedFiles : Contents[k] = files[k].lines
<1>1. ASSUME NEW k \in Places PROVE (IF k = -1 THEN buffer ELSE files[k].lines) \in Seq(Record)
  <2>1. CASE k = -1
    BY <2>1 DEF TimelineTypeOK
  <2>2. CASE k # -1
    BY <2>2, LinesTyped, PlacesOfTheStore
  <2> QED
    BY <2>1, <2>2
<1>2. Contents \in Layout
  BY <1>1 DEF Contents, Layout
<1>3. Contents[-1] = buffer /\ \A k \in 0..MaxArchivedFiles : Contents[k] = files[k].lines
  BY PlacesOfTheStore DEF Contents
<1> QED
  BY <1>2, <1>3, RecordsTyped DEF Records

(* What each step does to the contents of the places.                      *)
LEMMA ContentsAfterStart ==
  ASSUME TimelineTypeOK, NEW p, Start(p)
  PROVE  Contents' = [k \in Places |-> IF k \in -1..0 THEN <<>> ELSE Contents[k]]
<1>1. files' = [files EXCEPT ![0] = Holding(<<>>)] /\ buffer' = <<>>
  BY DEF Start
<1>2. files'[0].lines = <<>> /\ \A k \in 1..MaxArchivedFiles : files'[k] = files[k]
  BY <1>1, FileTypes, RotationAssumption DEF TimelineTypeOK
<1>3. ASSUME NEW k \in Places
      PROVE  (IF k = -1 THEN buffer' ELSE files'[k].lines) = IF k \in -1..0 THEN <<>> ELSE Contents[k]
  <2>1. k = -1 \/ k = 0 \/ k \in 1..MaxArchivedFiles
    BY DEF Places
  <2>2. k \in 1..MaxArchivedFiles => Contents[k] = files[k].lines /\ k \notin -1..0
    BY ContentsTyped
  <2> QED
    BY <1>1, <1>2, <2>1, <2>2
<1> QED
  BY <1>3 DEF Contents

\* A kill loses the buffer.
LEMMA ContentsAfterStop ==
  ASSUME TimelineTypeOK, Stop
  PROVE  Contents' = [k \in Places |-> IF k \in -1..-1 THEN <<>> ELSE Contents[k]]
<1>1. files' = files /\ buffer' = <<>>
  BY DEF Stop
<1>2. ASSUME NEW k \in Places
      PROVE  (IF k = -1 THEN buffer' ELSE files'[k].lines) = IF k \in -1..-1 THEN <<>> ELSE Contents[k]
  BY <1>1, ContentsTyped, PlacesOfTheStore
<1> QED
  BY <1>2 DEF Contents

Flushed == [k \in Places |-> IF k = -1 THEN <<>>
                             ELSE IF k = 0 THEN Contents[0] \o Contents[-1] ELSE Contents[k]]

\* What flush leaves in each place.
LEMMA FlushedTyped ==
  ASSUME TimelineTypeOK
  PROVE  /\ Flushed[-1] = <<>> /\ Flushed[0] = files[0].lines \o buffer
         /\ Flushed[0] \in Seq(Record)
         /\ \A k \in 1..MaxArchivedFiles : Flushed[k] = files[k].lines
<1>1. 0 \in 0..MaxArchivedFiles /\ 1..MaxArchivedFiles \subseteq 0..MaxArchivedFiles
  BY RotationAssumption
<1>2. PICK lines \in Seq(Record) : lines = files[0].lines \o buffer
  <2>1. files[0].lines \o buffer \in Seq(Record)
    BY <1>1, LinesTyped DEF TimelineTypeOK
  <2> QED
    BY <2>1
<1>3. lines = Contents[0] \o Contents[-1]
  BY <1>1, <1>2, ContentsTyped
<1>4. Flushed = [k \in Places |-> IF k = -1 THEN <<>> ELSE IF k = 0 THEN lines ELSE Contents[k]]
  BY <1>3 DEF Flushed
<1>5. Flushed[-1] = <<>> /\ Flushed[0] = lines
  <2>1. -1 \in Places /\ 0 \in Places
    BY PlacesOfTheStore
  <2> QED
    BY <1>4, <2>1
<1>6. ASSUME NEW k \in 1..MaxArchivedFiles PROVE Flushed[k] = files[k].lines
  <2>1. k \in Places /\ k # -1 /\ k # 0 /\ k \in 0..MaxArchivedFiles
    BY <1>1, PlacesOfTheStore
  <2>2. Flushed[k] = Contents[k]
    BY <1>4, <2>1
  <2> QED
    BY <2>1, <2>2, ContentsTyped
<1> QED
  BY <1>2, <1>5, <1>6

IsFlushed(fs) == fs = [files EXCEPT ![0].lines = @ \o buffer]

\* flush writes to the active file only.
LEMMA FilesAfterFlush ==
  ASSUME TimelineTypeOK, NEW new, IsFlushed(new)
  PROVE  /\ new \in [0..MaxArchivedFiles -> FileType]
         /\ new[0].lines = Flushed[0] /\ new[0].exists = files[0].exists
         /\ \A k \in 1..MaxArchivedFiles : new[k] = files[k]
<1>1. files \in [0..MaxArchivedFiles -> FileType] /\ 0 \in 0..MaxArchivedFiles
  BY RotationAssumption DEF TimelineTypeOK
<1>2. files[0].lines \o buffer = Flushed[0] /\ Flushed[0] \in Seq(Record)
  BY FlushedTyped
<1>3. IsWritten(new, files, Flushed[0])
  BY <1>1, <1>2 DEF IsFlushed, IsWritten
<1>4. files \in [0..MaxArchivedFiles -> FileType]
  BY <1>1
<1>5. Flushed[0] \in Seq(Record)
  BY <1>2
<1>6. new[0].lines = Flushed[0]
  BY <1>3, <1>4, <1>5, FileWritten
<1>9. new[0].exists = files[0].exists
  BY <1>3, <1>4, <1>5, FileWritten
<1>7. new \in [0..MaxArchivedFiles -> FileType]
  BY <1>3, <1>4, <1>5, FileWritten
<1>8. \A k \in 1..MaxArchivedFiles : new[k] = files[k]
  BY <1>3, <1>4 DEF IsWritten
<1> QED
  BY <1>6, <1>7, <1>8, <1>9

\* The last flush.
LEMMA ContentsAfterFinish ==
  ASSUME TimelineTypeOK, Finish
  PROVE  /\ Contents' = Flushed
         /\ files'[0].exists = files[0].exists
         /\ \A k \in 1..MaxArchivedFiles : files'[k] = files[k]
<1>1. PICK fs : fs = files'
  OBVIOUS
<1>2. IsFlushed(fs) /\ buffer' = <<>>
  BY <1>1 DEF Finish, IsFlushed
<1>3. /\ fs[0].lines = Flushed[0] /\ fs[0].exists = files[0].exists
      /\ \A k \in 1..MaxArchivedFiles : fs[k] = files[k]
  BY <1>2, FilesAfterFlush
<1>4. ASSUME NEW k \in Places
      PROVE  (IF k = -1 THEN buffer' ELSE fs[k].lines) = Flushed[k]
  <2>1. CASE k = -1
    BY <1>2, <2>1, FlushedTyped
  <2>2. CASE k = 0
    BY <1>3, <2>2
  <2>3. CASE k \in 1..MaxArchivedFiles
    BY <1>3, <2>3, FlushedTyped
  <2> QED
    BY <2>1, <2>2, <2>3 DEF Places
<1>5. Contents' = [k \in Places |-> Flushed[k]]
  BY <1>1, <1>4 DEF Contents
<1> QED
  BY <1>1, <1>3, <1>5 DEF Flushed

\* rotate flushes, then drops the oldest archive.
LEMMA ContentsAfterRemoveOldest ==
  ASSUME TimelineTypeOK, RemoveOldest
  PROVE  /\ Contents' = [k \in Places |-> IF k \in MaxArchivedFiles..MaxArchivedFiles
                                          THEN <<>> ELSE Flushed[k]]
         /\ \A k \in 0..MaxArchivedFiles - 1 : files'[k].exists = files[k].exists
         /\ files'[MaxArchivedFiles] = Absent
<1>1. PICK fs : IsFlushed(fs)
  BY DEF IsFlushed
<1>2. /\ fs \in [0..MaxArchivedFiles -> FileType]
      /\ fs[0].lines = Flushed[0] /\ fs[0].exists = files[0].exists
      /\ \A k \in 1..MaxArchivedFiles : fs[k] = files[k]
  BY <1>1, FilesAfterFlush
<1>3. files' = [fs EXCEPT ![MaxArchivedFiles] = Absent] /\ buffer' = <<>>
  BY <1>1, RotationAssumption DEF RemoveOldest, TimelineTypeOK, IsFlushed
<1>4. /\ files'[MaxArchivedFiles] = Absent
      /\ \A k \in 0..MaxArchivedFiles - 1 : files'[k] = fs[k]
  BY <1>2, <1>3, RotationAssumption
<1>5. \A k \in 0..MaxArchivedFiles - 1 : k = 0 \/ k \in 1..MaxArchivedFiles
  BY RotationAssumption
<1>6. \A k \in 0..MaxArchivedFiles - 1 : files'[k].exists = files[k].exists
  BY <1>2, <1>4, <1>5
<1>7. ASSUME NEW k \in Places
      PROVE  (IF k = -1 THEN buffer' ELSE files'[k].lines)
               = IF k \in MaxArchivedFiles..MaxArchivedFiles THEN <<>> ELSE Flushed[k]
  <2>1. CASE k = -1
    BY <1>3, <2>1, FlushedTyped, RotationAssumption
  <2>2. CASE k \in 0..MaxArchivedFiles - 1
    <3>1. fs[k].lines = Flushed[k]
      BY <1>2, <1>5, <2>2, FlushedTyped
    <3>2. k # -1 /\ k \notin MaxArchivedFiles..MaxArchivedFiles
      BY <2>2, RotationAssumption
    <3> QED
      BY <1>4, <2>2, <3>1, <3>2
  <2>3. CASE k = MaxArchivedFiles
    BY <1>4, <2>3, FileTypes, RotationAssumption
  <2> QED
    BY <2>1, <2>2, <2>3, RotationAssumption DEF Places
<1> QED
  BY <1>4, <1>6, <1>7 DEF Contents

\* A file moves to the next place, or there is none to move.
LEMMA ContentsAfterShift ==
  ASSUME TimelineTypeOK, ShiftArchive
  PROVE  /\ rotation.k \in 0..MaxArchivedFiles - 1
         /\ \/ /\ files[rotation.k].exists
               /\ Contents' = [k \in Places |-> IF k = rotation.k + 1 THEN Contents[rotation.k]
                                                ELSE IF k = rotation.k THEN <<>> ELSE Contents[k]]
               /\ files'[rotation.k] = Absent /\ files'[rotation.k + 1] = files[rotation.k]
               /\ \A k \in 0..MaxArchivedFiles : k \notin {rotation.k, rotation.k + 1} =>
                    files'[k] = files[k]
            \/ /\ ~files[rotation.k].exists /\ files' = files /\ Contents' = Contents
<1>1. PICK at \in 0..MaxArchivedFiles - 1 : at = rotation.k
  BY DEF ShiftArchive, TimelineTypeOK
<1>2. at \in 0..MaxArchivedFiles /\ at + 1 \in 0..MaxArchivedFiles /\ at # at + 1
  BY RotationAssumption
<1>3. CASE ~files[at].exists
  <2>1. files' = files /\ buffer' = buffer
    BY <1>1, <1>3 DEF ShiftArchive
  <2>2. Contents' = Contents
    BY <2>1 DEF Contents
  <2> QED
    BY <1>1, <1>3, <2>1, <2>2
<1>4. CASE files[at].exists
  <2>1. files' = [files EXCEPT ![at + 1] = files[at], ![at] = Absent] /\ buffer' = buffer
    BY <1>1, <1>4 DEF ShiftArchive
  <2>2. /\ files'[at] = Absent /\ files'[at + 1] = files[at]
        /\ \A k \in 0..MaxArchivedFiles : k \notin {at, at + 1} => files'[k] = files[k]
    BY <1>2, <2>1 DEF TimelineTypeOK
  <2>3. ASSUME NEW k \in Places
        PROVE  (IF k = -1 THEN buffer' ELSE files'[k].lines)
                 = IF k = at + 1 THEN Contents[at] ELSE IF k = at THEN <<>> ELSE Contents[k]
    <3>1. CASE k = -1
      BY <1>2, <2>1, <3>1, ContentsTyped
    <3>2. CASE k = at + 1
      BY <1>2, <2>2, <3>2, ContentsTyped
    <3>3. CASE k = at
      BY <1>2, <2>2, <3>3, FileTypes
    <3>4. CASE k \notin {-1, at, at + 1}
      BY <2>2, <3>4, ContentsTyped, PlacesOfTheStore
    <3> QED
      BY <3>1, <3>2, <3>3, <3>4
  <2>4. Contents' = [k \in Places |-> IF k = at + 1 THEN Contents[at]
                                      ELSE IF k = at THEN <<>> ELSE Contents[k]]
    BY <2>3 DEF Contents
  <2> QED
    BY <1>1, <1>4, <2>2, <2>4
<1> QED
  BY <1>3, <1>4

\* The new active file is as empty as the place it takes.
LEMMA ContentsAfterCreate ==
  ASSUME TimelineTypeOK, CreateActive, files[0].lines = <<>>
  PROVE  /\ Contents' = Contents /\ files'[0] = Holding(<<>>)
         /\ \A k \in 1..MaxArchivedFiles : files'[k] = files[k]
<1>1. /\ files'[0] = Holding(<<>>) /\ buffer' = buffer
      /\ \A k \in 1..MaxArchivedFiles : files'[k] = files[k]
  BY RotationAssumption DEF CreateActive, TimelineTypeOK
<1>2. ASSUME NEW k \in Places
      PROVE  (IF k = -1 THEN buffer' ELSE files'[k].lines) = IF k = -1 THEN buffer ELSE files[k].lines
  <2>1. k = -1 \/ k = 0 \/ k \in 1..MaxArchivedFiles
    BY DEF Places
  <2> QED
    BY <1>1, <2>1, FileTypes
<1> QED
  BY <1>1, <1>2 DEF Contents

\* The BufWriter passes its first record on.
LEMMA ContentsAfterSpill ==
  ASSUME TimelineTypeOK, Spill
  PROVE  /\ Contents[-1] # <<>>
         /\ Contents' = [k \in Places |->
                           IF k = -1 THEN Tail(Contents[-1])
                           ELSE IF k = 0 THEN Append(Contents[0], Head(Contents[-1]))
                           ELSE Contents[k]]
         /\ files'[0].exists = files[0].exists
         /\ \A k \in 1..MaxArchivedFiles : files'[k] = files[k]
<1>1. Contents[-1] = buffer /\ buffer # <<>> /\ buffer' = Tail(buffer)
  BY ContentsTyped DEF Spill
<1>2. Contents[0] = files[0].lines /\ files[0].lines \in Seq(Record)
  BY ContentsTyped, LinesTyped, RotationAssumption
<1>3. PICK lines \in Seq(Record) : lines = Append(Contents[0], Head(Contents[-1]))
  <2>1. Head(buffer) \in Record
    BY <1>1 DEF TimelineTypeOK
  <2>2. Append(files[0].lines, Head(buffer)) \in Seq(Record)
    BY <1>2, <2>1
  <2> QED
    BY <1>1, <1>2, <2>2
<1>4. files' = [files EXCEPT ![0].lines = lines]
  <2>1. 0 \in 0..MaxArchivedFiles /\ files \in [0..MaxArchivedFiles -> FileType]
    BY RotationAssumption DEF TimelineTypeOK
  <2> QED
    BY <1>1, <1>2, <1>3, <2>1 DEF Spill
<1>5. /\ files'[0].lines = lines /\ files'[0].exists = files[0].exists
      /\ \A k \in 1..MaxArchivedFiles : files'[k] = files[k]
  <2>1. files \in [0..MaxArchivedFiles -> FileType]
    BY DEF TimelineTypeOK
  <2> QED
    BY <1>4, <2>1, FileWritten DEF IsWritten
<1>6. ASSUME NEW k \in Places
      PROVE  (IF k = -1 THEN buffer' ELSE files'[k].lines)
               = IF k = -1 THEN Tail(Contents[-1]) ELSE IF k = 0 THEN lines ELSE Contents[k]
  <2>1. CASE k = -1
    BY <1>1, <2>1
  <2>2. CASE k = 0
    BY <1>5, <2>2
  <2>3. CASE k \in 1..MaxArchivedFiles
    <3>1. Contents[k] = files[k].lines
      BY <2>3, ContentsTyped
    <3> QED
      BY <1>5, <2>3, <3>1
  <2> QED
    BY <2>1, <2>2, <2>3 DEF Places
<1>7. Contents' = [k \in Places |-> IF k = -1 THEN Tail(Contents[-1])
                                    ELSE IF k = 0 THEN lines ELSE Contents[k]]
  BY <1>6 DEF Contents
<1> QED
  BY <1>1, <1>3, <1>5, <1>7

NewRecord == [session |-> session, n |-> appended + 1, of |-> Head(todo)]
Appends == Append1 /\ ~ShouldRotateBefore(SizeOf[Head(todo).kind])

\* What append writes when it has not to rotate.
LEMMA AppendsEffect ==
  ASSUME TimelineTypeOK, Appends
  PROVE  /\ NewRecord \in Record /\ Head(todo) \in LineType /\ todo # <<>>
         /\ Contents' = [k \in Places |-> IF k = -1 THEN Append(Contents[-1], NewRecord) ELSE Contents[k]]
         /\ appended' = appended + 1 /\ todo' = Tail(todo)
         /\ telling' = IF Head(todo).kind = "violation"
                       THEN [session |-> session, n |-> appended + 1] ELSE telling
         /\ UNCHANGED <<files, rotation, session, policy, running, seen, feedback>>
<1>1. /\ buffer' = Append(buffer, NewRecord) /\ files' = files /\ todo # <<>>
      /\ appended' = appended + 1 /\ todo' = Tail(todo)
      /\ telling' = IF Head(todo).kind = "violation"
                    THEN [session |-> session, n |-> appended + 1] ELSE telling
      /\ UNCHANGED <<files, rotation, session, policy, running, seen, feedback>>
  BY DEF Appends, Append1, NewRecord
<1>2. Head(todo) \in LineType
  BY <1>1 DEF TimelineTypeOK
<1>3. NewRecord \in Record
  BY <1>2 DEF NewRecord, Record, TimelineTypeOK
<1>4. ASSUME NEW k \in Places
      PROVE  (IF k = -1 THEN buffer' ELSE files'[k].lines)
               = IF k = -1 THEN Append(Contents[-1], NewRecord) ELSE Contents[k]
  BY <1>1, ContentsTyped, PlacesOfTheStore
<1> QED
  BY <1>1, <1>2, <1>3, <1>4 DEF Contents

----------------------------------------------------------------------------
\* What each step does to the order and the numbering

\* A new observer drops the newest records of its predecessors.
LEMMA StartOrdered ==
  ASSUME TimelineTypeOK, OrderInv, NEW p, Start(p)
  PROVE  OrderInv'
<1>1. Contents \in Layout /\ Records = RecordsIn(Contents) /\ Records' = RecordsIn(Contents')
  BY ContentsTyped DEF Records
<1>2. Contents' = [k \in Places |-> IF k \in -1..0 THEN <<>> ELSE Contents[k]]
  BY ContentsAfterStart
<1>3. InOrder(Contents') /\ Records' \subseteq Records
  <2>1. -1..0 \in SUBSET Places
    BY RotationAssumption DEF Places
  <2> QED
    BY <1>1, <1>2, <2>1, DropKeeps DEF OrderInv
<1>4. NoneMissing(Records')
  BY <1>1, <1>2, DropNewestContiguous DEF OrderInv
<1>5. /\ session' = session + 1 /\ appended' = 0 /\ running' = "yes" /\ bytes' = 0
      /\ buffer' = <<>> /\ rotation' = NotRotating /\ rotation'.at = "no"
      /\ files' = [files EXCEPT ![0] = Holding(<<>>)]
  BY DEF Start, NotRotating
<1>6. Numbered'
  <2>1. \A r \in Records : r.session \in Nat /\ r.session <= session
    BY ContentsTyped DEF OrderInv, Numbered, Record
  <2>2. \A r \in Records' : r.session <= session' /\ r.session # session'
    BY <1>3, <1>5, <2>1 DEF TimelineTypeOK
  <2> QED
    BY <2>2 DEF Numbered
<1>7. NewestSafe'
  BY <1>5 DEF NewestSafe
<1>8. StoreSound'
  <2>1. \A k \in 0..MaxArchivedFiles : files'[k] = IF k = 0 THEN Holding(<<>>) ELSE files[k]
    BY <1>5 DEF TimelineTypeOK
  <2>2. \A k \in 0..MaxArchivedFiles : ~files'[k].exists => files'[k].lines = <<>>
    BY <2>1, FileTypes DEF OrderInv, StoreSound
  <2>3. files'[0].exists
    BY <2>1, FileTypes, RotationAssumption
  <2> QED
    BY <1>5, <2>2, <2>3 DEF StoreSound
<1> QED
  BY <1>3, <1>4, <1>6, <1>7, <1>8 DEF OrderInv

\* The record that is appended comes behind all others.
LEMMA AppendsOrdered ==
  ASSUME TimelineTypeOK, OrderInv, Appends
  PROVE  OrderInv' /\ Records' = Records \cup {NewRecord} /\ \A a \in Records : Before(a, NewRecord)
<1>1. Contents \in Layout /\ Records = RecordsIn(Contents) /\ Records' = RecordsIn(Contents')
  BY ContentsTyped DEF Records
<1>2. PICK r \in Record : r = NewRecord /\ r.session = session /\ r.n = appended + 1
  BY AppendsEffect DEF NewRecord
<1>3. session \in Nat /\ appended \in Nat
  BY DEF TimelineTypeOK
<1>4. \A a \in Records : /\ a.session \in Nat /\ a.n \in Nat /\ a.session <= session
                         /\ a.session = session => a.n \in 1..appended
  BY ContentsTyped DEF OrderInv, Numbered, Record
<1>5. \A a \in Records : Before(a, r)
  BY <1>2, <1>3, <1>4 DEF Before
<1>6. Contents' = [k \in Places |-> IF k = -1 THEN Append(Contents[-1], r) ELSE Contents[k]]
  BY <1>2, AppendsEffect
<1>7. Contents' \in Layout /\ InOrder(Contents') /\ Records' = Records \cup {r}
  BY <1>1, <1>5, <1>6, AppendKeeps DEF OrderInv
<1>8. /\ appended' = appended + 1 /\ session' = session /\ running' = running
      /\ rotation' = rotation /\ files' = files /\ running = "yes" /\ rotation.at = "no"
  BY AppendsEffect DEF Appends, Append1
<1>9. NoneMissing(Records')
  <2> SUFFICES ASSUME NEW a \in Records', NEW b \in Records', a.session = b.session,
                      NEW n \in a.n..b.n
               PROVE  \E c \in Records' : c.session = a.session /\ c.n = n
    BY DEF NoneMissing
  <2>1. CASE b \in Records /\ a \in Records
    BY <1>7, <2>1 DEF OrderInv, NoneMissing
  <2>2. CASE b \in Records /\ a = r
    BY <1>2, <1>3, <1>4, <2>2
  <2>3. CASE b = r
    <3>1. CASE n = appended + 1
      BY <1>2, <1>7, <2>3, <3>1
    <3>2. CASE n # appended + 1
      <4>1. a \in Records /\ a.session = session
        BY <1>2, <1>3, <1>7, <2>3, <3>2
      <4>2. a.n \in 1..appended /\ n \in a.n..appended
        BY <1>2, <1>3, <1>4, <2>3, <3>2, <4>1
      <4>3. PICK last \in Records : IsNewest(last)
        BY <1>3, <1>8, <4>2 DEF OrderInv, NewestSafe, Going
      <4>4. n \in a.n..last.n /\ a.session = last.session
        BY <4>1, <4>2, <4>3 DEF IsNewest
      <4> QED
        BY <1>7, <4>1, <4>3, <4>4 DEF OrderInv, NoneMissing
    <3> QED
      BY <3>1, <3>2
  <2> QED
    BY <1>7, <2>1, <2>2, <2>3
<1>10. Numbered'
  <2>1. \A a \in Records' : a.session <= session' /\ (a.session = session' => a.n \in 1..appended')
    BY <1>2, <1>3, <1>4, <1>7, <1>8
  <2> QED
    BY <2>1 DEF Numbered
<1>11. NewestSafe'
  <2>1. r.session = session' /\ r.n = appended' /\ r \in Records'
    BY <1>2, <1>7, <1>8
  <2>2. r \in ToSet(Contents'[-1])
    <3>1. Contents'[-1] = Append(Contents[-1], r) /\ Contents[-1] \in Seq(Record)
      BY <1>1, <1>6, PlacesOfTheStore DEF Layout
    <3> QED
      BY <1>2, <3>1, ToSetOfAppend
  <2> QED
    BY <2>1, <2>2 DEF NewestSafe, IsNewest
<1>12. StoreSound'
  BY <1>8 DEF OrderInv, StoreSound
<1> QED
  BY <1>2, <1>5, <1>7, <1>9, <1>10, <1>11, <1>12 DEF OrderInv

\* The places keep their contents: so does the order.
LEMMA SameOrdered ==
  ASSUME TimelineTypeOK, OrderInv, Contents' = Contents, UNCHANGED <<session, appended>>
  PROVE  InOrder(Contents') /\ NoneMissing(Records') /\ Numbered' /\ Records' = Records
<1>1. Records' = Records
  BY DEF Records
<1> QED
  BY <1>1 DEF OrderInv, Numbered

\* append asks for a rotation, which the newest record does not go with.
LEMMA RotateOrdered ==
  ASSUME TimelineTypeOK, OrderInv, Append1, ~Appends
  PROVE  OrderInv' /\ Records' = Records
<1>1. /\ rotation' = [at |-> "oldest", k |-> MaxArchivedFiles] /\ bytes > 0
      /\ running = "yes" /\ rotation.at = "no"
      /\ UNCHANGED <<files, buffer, bytes, appended, session, running>>
  BY DEF Append1, Appends, ShouldRotateBefore
<1>2. Contents' = Contents
  BY <1>1 DEF Contents
<1>3. NewestSafe'
  BY <1>1, <1>2, SameOrdered DEF NewestSafe, OrderInv, Going, IsNewest
<1>4. StoreSound'
  BY <1>1 DEF StoreSound, OrderInv
<1> QED
  BY <1>1, <1>2, <1>3, <1>4, SameOrdered DEF OrderInv

\* A kill drops the newest records of the observer.
LEMMA StopOrdered ==
  ASSUME TimelineTypeOK, OrderInv, Stop
  PROVE  OrderInv'
<1>1. Contents \in Layout /\ Records = RecordsIn(Contents) /\ Records' = RecordsIn(Contents')
  BY ContentsTyped DEF Records
<1>2. Contents' = [k \in Places |-> IF k \in -1..-1 THEN <<>> ELSE Contents[k]]
  BY ContentsAfterStop
<1>3. InOrder(Contents') /\ Records' \subseteq Records
  <2>1. -1..-1 \in SUBSET Places
    BY RotationAssumption DEF Places
  <2> QED
    BY <1>1, <1>2, <2>1, DropKeeps DEF OrderInv
<1>4. NoneMissing(Records')
  BY <1>1, <1>2, DropNewestContiguous DEF OrderInv
<1>5. running' = "stopped" /\ buffer' = <<>> /\ UNCHANGED <<files, bytes, rotation, appended, session>>
  BY DEF Stop
<1>6. Numbered'
  BY <1>3, <1>5 DEF OrderInv, Numbered
<1>7. NewestSafe'
  BY <1>5 DEF NewestSafe, Going
<1>8. StoreSound'
  BY <1>5 DEF OrderInv, StoreSound
<1> QED
  BY <1>3, <1>4, <1>6, <1>7, <1>8 DEF OrderInv

\* flush keeps all records and their order.
LEMMA FlushOrdered ==
  ASSUME TimelineTypeOK, OrderInv
  PROVE  Flushed \in Layout /\ InOrder(Flushed) /\ RecordsIn(Flushed) = Records
<1>1. Contents \in Layout /\ Records = RecordsIn(Contents)
  BY ContentsTyped DEF Records
<1> QED
  BY <1>1, FlushKeeps DEF OrderInv, Flushed

\* The last flush keeps all records and their order.
LEMMA FinishOrdered ==
  ASSUME TimelineTypeOK, OrderInv, Finish
  PROVE  OrderInv' /\ Records' = Records
<1>1. Contents' = Flushed
  BY ContentsAfterFinish
<1>2. InOrder(Contents') /\ Records' = Records
  BY <1>1, FlushOrdered DEF Records
<1>3. /\ running = "yes" /\ running' = "ended" /\ buffer' = <<>>
      /\ UNCHANGED <<bytes, rotation, appended, session>>
  BY DEF Finish
<1>4. NoneMissing(Records') /\ Numbered' /\ NewestSafe'
  BY <1>2, <1>3 DEF OrderInv, Numbered, NewestSafe, Going, IsNewest
<1>5. StoreSound'
  <2>1. files[0].exists /\ rotation.at = "no"
    BY <1>3 DEF OrderInv, StoreSound, Finish, Quiet
  <2>2. \A k \in 0..MaxArchivedFiles : ~files'[k].exists => files'[k].lines = <<>>
    <3>1. \A k \in 0..MaxArchivedFiles : k = 0 \/ k \in 1..MaxArchivedFiles
      OBVIOUS
    <3>2. files'[0].exists /\ \A k \in 1..MaxArchivedFiles : files'[k] = files[k]
      BY <2>1, ContentsAfterFinish
    <3> QED
      BY <3>1, <3>2 DEF OrderInv, StoreSound
  <2> QED
    BY <1>3, <2>1, <2>2 DEF StoreSound
<1> QED
  BY <1>2, <1>4, <1>5 DEF OrderInv

\* A full BufWriter keeps all records and their order.
LEMMA SpillOrdered ==
  ASSUME TimelineTypeOK, OrderInv, Spill
  PROVE  OrderInv' /\ Records' = Records
<1>1. Contents \in Layout /\ Records = RecordsIn(Contents) /\ Records' = RecordsIn(Contents')
  BY ContentsTyped DEF Records
<1>2. /\ Contents[-1] # <<>>
      /\ Contents' = [k \in Places |->
                        IF k = -1 THEN Tail(Contents[-1])
                        ELSE IF k = 0 THEN Append(Contents[0], Head(Contents[-1]))
                        ELSE Contents[k]]
  BY ContentsAfterSpill
<1>3. Contents' \in Layout /\ InOrder(Contents') /\ Records' = Records
  BY <1>1, <1>2, SpillKeeps DEF OrderInv
<1>4. running = "yes" /\ rotation.at = "no" /\ UNCHANGED <<running, bytes, rotation, appended, session>>
  BY DEF Spill
<1>5. NoneMissing(Records') /\ Numbered'
  BY <1>3, <1>4 DEF OrderInv, Numbered
<1>6. ToSet(Contents'[0]) \cup ToSet(Contents'[-1]) = ToSet(Contents[0]) \cup ToSet(Contents[-1])
  <2>1. Contents[0] \in Seq(Record) /\ Contents[-1] \in Seq(Record)
    BY <1>1, PlacesOfTheStore DEF Layout
  <2>2. Head(Contents[-1]) \in Record
    BY <1>2, <2>1
  <2>3. Contents'[0] = Append(Contents[0], Head(Contents[-1])) /\ Contents'[-1] = Tail(Contents[-1])
    BY <1>2, PlacesOfTheStore
  <2>4. ToSet(Contents'[0]) = ToSet(Contents[0]) \cup {Head(Contents[-1])}
    BY <2>1, <2>2, <2>3, ToSetOfAppend
  <2>5. ToSet(Contents[-1]) = {Head(Contents[-1])} \cup ToSet(Contents'[-1])
    BY <1>2, <2>1, <2>3, ToSetOfTail
  <2> QED
    BY <2>4, <2>5
<1>7. NewestSafe'
  BY <1>3, <1>4, <1>6 DEF OrderInv, NewestSafe, Going, IsNewest
<1>8. StoreSound'
  <2>1. files[0].exists
    BY <1>4 DEF OrderInv, StoreSound
  <2>2. \A k \in 0..MaxArchivedFiles : ~files'[k].exists => files'[k].lines = <<>>
    <3>1. \A k \in 0..MaxArchivedFiles : k = 0 \/ k \in 1..MaxArchivedFiles
      OBVIOUS
    <3>2. files'[0].exists /\ \A k \in 1..MaxArchivedFiles : files'[k] = files[k]
      BY <2>1, ContentsAfterSpill
    <3> QED
      BY <3>1, <3>2 DEF OrderInv, StoreSound
  <2> QED
    BY <1>4, <2>1, <2>2, ContentsAfterSpill DEF StoreSound
<1> QED
  BY <1>3, <1>5, <1>7, <1>8 DEF OrderInv

(* RemoveOldest takes the records before all others, and never the newest. *)
LEMMA RemoveOldestOrdered ==
  ASSUME TimelineTypeOK, OrderInv, running = "yes", RemoveOldest
  PROVE  /\ OrderInv' /\ Records' \subseteq Records
         /\ \A r \in Records \ Records' : r \in ToSet(Flushed[MaxArchivedFiles])
         /\ \A r \in Records \ Records', a \in Records' : Before(r, a)
<1>1. /\ Flushed \in Layout /\ InOrder(Flushed) /\ RecordsIn(Flushed) = Records
      /\ Records' = RecordsIn(Contents')
  BY FlushOrdered DEF Records
<1>2. /\ Contents' = [k \in Places |-> IF k \in MaxArchivedFiles..MaxArchivedFiles
                                       THEN <<>> ELSE Flushed[k]]
      /\ \A k \in 0..MaxArchivedFiles - 1 : files'[k].exists = files[k].exists
      /\ files'[MaxArchivedFiles] = Absent
  BY ContentsAfterRemoveOldest
<1>3. MaxArchivedFiles \in Places /\ MaxArchivedFiles..MaxArchivedFiles = {MaxArchivedFiles}
      /\ 0 \in Places /\ MaxArchivedFiles > 0
  BY RotationAssumption DEF Places
<1>4. /\ Contents' \in Layout /\ InOrder(Contents') /\ Records' \subseteq Records
      /\ \A r \in Records \ Records' :
           \E k \in MaxArchivedFiles..MaxArchivedFiles : r \in ToSet(Flushed[k])
  <2>1. MaxArchivedFiles..MaxArchivedFiles \in SUBSET Places
    BY <1>3
  <2> QED
    BY <1>1, <1>2, <2>1, DropKeeps
<1>5. NoneMissing(Records')
  BY <1>1, <1>2, DropOldestContiguous DEF OrderInv
<1>6. \A r \in Records \ Records' : r \in ToSet(Flushed[MaxArchivedFiles])
  BY <1>3, <1>4
<1>7. ASSUME NEW r \in Records \ Records', NEW a \in Records' PROVE Before(r, a)
  <2>1. PICK k \in Places : a \in ToSet(Contents'[k])
    BY <1>1, RecordsMember
  <2>2. k # MaxArchivedFiles /\ Contents'[k] = Flushed[k]
    BY <1>2, <1>3, <2>1, ToSetOfEmpty
  <2>3. MaxArchivedFiles > k
    BY <2>2, RotationAssumption DEF Places
  <2>4. r \in ToSet(Flushed[MaxArchivedFiles]) /\ a \in ToSet(Flushed[k])
    BY <1>6, <2>1, <2>2
  <2> QED
    BY <1>1, <1>3, <2>3, <2>4 DEF InOrder
<1>8. /\ rotation.at = "oldest" /\ rotation' = [at |-> "shift", k |-> MaxArchivedFiles - 1]
      /\ buffer' = <<>> /\ UNCHANGED <<bytes, appended, session, running>>
  BY DEF RemoveOldest
<1>9. Numbered'
  BY <1>4, <1>8 DEF OrderInv, Numbered
<1>10. NewestSafe'
  <2>1. PICK r \in ToSet(Contents[0]) \cup ToSet(Contents[-1]) : IsNewest(r)
    BY <1>8 DEF OrderInv, StoreSound, NewestSafe
  <2>2. r \in ToSet(Contents'[0])
    <3>1. Contents[0] \in Seq(Record) /\ Contents[-1] \in Seq(Record)
      BY ContentsTyped, PlacesOfTheStore DEF Layout
    <3>2. Flushed[0] = Contents[0] \o Contents[-1]
      <4>1. Contents[0] = files[0].lines /\ Contents[-1] = buffer
        BY ContentsTyped, RotationAssumption
      <4> QED
        BY <4>1, FlushedTyped
    <3>3. ToSet(Flushed[0]) = ToSet(Contents[0]) \cup ToSet(Contents[-1])
      BY <3>1, <3>2, ToSetOfConcat
    <3>4. Contents'[0] = Flushed[0]
      BY <1>2, <1>3
    <3> QED
      BY <2>1, <3>3, <3>4
  <2>3. r \in Records' /\ r.session = session' /\ r.n = appended'
    BY <1>1, <1>3, <1>8, <2>1, <2>2, RecordsMember DEF IsNewest
  <2>4. rotation'.at = "shift"
    BY <1>8
  <2> QED
    BY <2>3, <2>4 DEF NewestSafe, IsNewest
<1>11. StoreSound'
  <2>1. /\ files'[MaxArchivedFiles].lines = <<>> /\ MaxArchivedFiles - 1 + 1 = MaxArchivedFiles
    BY <1>2, FileTypes, RotationAssumption
  <2>2. ASSUME NEW k \in 0..MaxArchivedFiles, ~files'[k].exists PROVE files'[k].lines = <<>>
    <3>1. CASE k = MaxArchivedFiles
      BY <2>1, <3>1
    <3>2. CASE k # MaxArchivedFiles
      <4>1. k \in 0..MaxArchivedFiles - 1 /\ ~files[k].exists
        BY <1>2, <2>2, <3>2, RotationAssumption
      <4>2. k # 0 /\ k \in 1..MaxArchivedFiles
        BY <1>8, <4>1 DEF OrderInv, StoreSound
      <4>3. Flushed[k] = <<>>
        BY <4>1, <4>2, FlushedTyped DEF OrderInv, StoreSound
      <4>4. Contents'[k] = Flushed[k]
        BY <1>2, <1>3, <3>2, PlacesOfTheStore
      <4>5. Contents'[k] = files'[k].lines
        BY <4>2, PlacesOfTheStore DEF Contents
      <4> QED
        BY <4>3, <4>4, <4>5
    <3> QED
      BY <3>1, <3>2
  <2>3. rotation'.at = "shift" /\ rotation'.k + 1 = MaxArchivedFiles
    BY <1>8, <2>1
  <2>4. files'[rotation'.k + 1].lines = <<>>
    BY <2>1, <2>3
  <2> QED
    BY <1>8, <2>2, <2>3, <2>4 DEF StoreSound
<1> QED
  BY <1>4, <1>5, <1>6, <1>7, <1>9, <1>10, <1>11 DEF OrderInv

\* An archive moves up into an empty place.
LEMMA ShiftOrdered ==
  ASSUME TimelineTypeOK, OrderInv, running = "yes", ShiftArchive
  PROVE  OrderInv' /\ Records' = Records
<1>1. Contents \in Layout /\ Records = RecordsIn(Contents) /\ Records' = RecordsIn(Contents')
  BY ContentsTyped DEF Records
<1>2. PICK at \in 0..MaxArchivedFiles - 1 : at = rotation.k
  BY ContentsAfterShift
<1>3. files[at + 1].lines = <<>> /\ at \in 0..MaxArchivedFiles /\ at + 1 \in 0..MaxArchivedFiles
  BY <1>2, RotationAssumption DEF ShiftArchive, OrderInv, StoreSound
<1>4. Contents[at + 1] = <<>>
  BY <1>3, ContentsTyped
<1>5. /\ rotation.at = "shift"
      /\ rotation' = IF at > 0 THEN [at |-> "shift", k |-> at - 1] ELSE [at |-> "create", k |-> 0]
      /\ UNCHANGED <<buffer, bytes, appended, session, running>> /\ buffer = <<>>
  BY <1>2 DEF ShiftArchive, OrderInv, StoreSound
<1>6. InOrder(Contents') /\ Records' = Records
  <2>1. CASE files[at].exists
    <3>1. Contents' = [k \in Places |-> IF k = at + 1 THEN Contents[at]
                                        ELSE IF k = at THEN <<>> ELSE Contents[k]]
      BY <1>2, <2>1, ContentsAfterShift
    <3> QED
      BY <1>1, <1>4, <3>1, ShiftKeeps DEF OrderInv
  <2>2. CASE ~files[at].exists
    BY <1>1, <1>2, <2>2, ContentsAfterShift DEF OrderInv
  <2> QED
    BY <2>1, <2>2
<1>7. NoneMissing(Records') /\ Numbered' /\ NewestSafe'
  <2>1. rotation'.at \in {"shift", "create"}
    BY <1>5
  <2> QED
    BY <1>5, <1>6, <2>1 DEF OrderInv, Numbered, NewestSafe, Going, IsNewest
<1>8. /\ files'[at].lines = <<>>
      /\ \A k \in 0..MaxArchivedFiles : ~files'[k].exists => files'[k].lines = <<>>
  <2>1. CASE files[at].exists
    <3>1. /\ files'[at] = Absent /\ files'[at + 1] = files[at]
          /\ \A k \in 0..MaxArchivedFiles : k \notin {at, at + 1} => files'[k] = files[k]
      BY <1>2, <2>1, ContentsAfterShift
    <3> QED
      BY <1>3, <2>1, <3>1, FileTypes DEF OrderInv, StoreSound
  <2>2. CASE ~files[at].exists
    <3>1. files' = files
      BY <1>2, <2>2, ContentsAfterShift
    <3> QED
      BY <1>3, <2>2, <3>1 DEF OrderInv, StoreSound
  <2> QED
    BY <2>1, <2>2
<1>9. StoreSound'
  <2>1. CASE at > 0
    <3>1. rotation'.at = "shift" /\ rotation'.k + 1 = at
      BY <1>5, <2>1
    <3> QED
      BY <1>5, <1>8, <3>1 DEF OrderInv, StoreSound
  <2>2. CASE at = 0
    <3>1. rotation'.at = "create"
      BY <1>5, <2>2
    <3> QED
      BY <1>5, <1>8, <2>2, <3>1 DEF OrderInv, StoreSound
  <2> QED
    BY <2>1, <2>2
<1> QED
  BY <1>6, <1>7, <1>9 DEF OrderInv

\* The active file is created in an empty place.
LEMMA CreateOrdered ==
  ASSUME TimelineTypeOK, OrderInv, running = "yes", CreateActive
  PROVE  OrderInv' /\ Records' = Records
<1>1. rotation.at = "create" /\ files[0].lines = <<>> /\ buffer = <<>>
  BY DEF CreateActive, OrderInv, StoreSound
<1>2. /\ Contents' = Contents /\ files'[0] = Holding(<<>>)
      /\ \A k \in 1..MaxArchivedFiles : files'[k] = files[k]
  BY <1>1, ContentsAfterCreate
<1>3. /\ bytes' = 0 /\ rotation' = NotRotating /\ rotation'.at = "no"
      /\ UNCHANGED <<buffer, appended, session, running>>
  BY DEF CreateActive, NotRotating
<1>4. InOrder(Contents') /\ NoneMissing(Records') /\ Numbered' /\ Records' = Records
  BY <1>2, <1>3, SameOrdered
<1>5. NewestSafe'
  BY <1>3, <1>4 DEF OrderInv, NewestSafe, Going, IsNewest
<1>6. StoreSound'
  <2>1. \A k \in 0..MaxArchivedFiles : k = 0 \/ k \in 1..MaxArchivedFiles
    OBVIOUS
  <2>2. \A k \in 0..MaxArchivedFiles : ~files'[k].exists => files'[k].lines = <<>>
    BY <1>2, <2>1, FileTypes DEF OrderInv, StoreSound
  <2>3. files'[0].exists
    BY <1>2, FileTypes
  <2> QED
    BY <1>1, <1>3, <2>2, <2>3 DEF StoreSound
<1> QED
  BY <1>4, <1>5, <1>6 DEF OrderInv

\* Observe, WriteText and WriteJson leave the store alone.
LEMMA OtherOrdered ==
  ASSUME TimelineTypeOK, OrderInv, UNCHANGED <<store, session, running>>
  PROVE  OrderInv' /\ Records' = Records
<1>1. UNCHANGED <<files, buffer, bytes, rotation, appended, session, running>>
  BY DEF store
<1>2. Contents' = Contents
  BY <1>1 DEF Contents
<1>3. StoreSound' /\ NewestSafe'
  BY <1>1, <1>2, SameOrdered DEF OrderInv, StoreSound, NewestSafe, Going, IsNewest
<1> QED
  BY <1>1, <1>2, <1>3, SameOrdered DEF OrderInv

\* At first there are no records.
LEMMA InitOrdered == TimelineInit => OrderInv
<1> SUFFICES ASSUME TimelineInit PROVE OrderInv
  OBVIOUS
<1>1. /\ \A k \in 0..MaxArchivedFiles : files[k] = Absent
      /\ buffer = <<>> /\ running = "no" /\ rotation.at = "no"
  BY DEF TimelineInit, NotRotating
<1>2. \A k \in Places : Contents[k] = <<>>
  BY <1>1, FileTypes, InitTyped, ContentsTyped, PlacesOfTheStore
<1>3. Records = {}
  BY <1>2, ToSetOfEmpty DEF Records, RecordsIn
<1>4. InOrder(Contents)
  <2>1. Ascending(<<>>)
    BY DEF Ascending
  <2> QED
    BY <1>2, <2>1, ToSetOfEmpty DEF InOrder
<1>5. NoneMissing(Records) /\ Numbered
  BY <1>3 DEF NoneMissing, Numbered
<1>6. NewestSafe
  BY <1>1 DEF NewestSafe, Going
<1>7. StoreSound
  BY <1>1, FileTypes DEF StoreSound
<1> QED
  BY <1>4, <1>5, <1>6, <1>7 DEF OrderInv

\* Every step keeps the order.
LEMMA NextOrdered ==
  ASSUME TimelineTypeOK, OrderInv, [TimelineNext]_timelineVars
  PROVE  OrderInv'
<1>1. CASE UNCHANGED timelineVars
  BY <1>1, OtherOrdered DEF timelineVars, store
<1>2. CASE \E p \in Policies : Start(p)
  BY <1>2, StartOrdered
<1>3. CASE \E e \in Events : Observe(e)
  BY <1>3, OtherOrdered DEF Observe
<1>4. CASE running = "yes" /\ RemoveOldest
  BY <1>4, RemoveOldestOrdered
<1>5. CASE running = "yes" /\ ShiftArchive
  BY <1>5, ShiftOrdered
<1>6. CASE running = "yes" /\ CreateActive
  BY <1>6, CreateOrdered
<1>7. CASE Append1
  BY <1>7, AppendsOrdered, RotateOrdered
<1>8. CASE Spill
  BY <1>8, SpillOrdered
<1>9. CASE WriteText
  BY <1>9, OtherOrdered DEF WriteText
<1>10. CASE WriteJson
  BY <1>10, OtherOrdered DEF WriteJson
<1>11. CASE Finish
  BY <1>11, FinishOrdered
<1>12. CASE Stop
  BY <1>12, StopOrdered
<1> QED
  BY <1>1, <1>2, <1>3, <1>4, <1>5, <1>6, <1>7, <1>8, <1>9, <1>10, <1>11, <1>12 DEF TimelineNext

\* The newest record of the numbering is the last in the order.
LEMMA NoGap == ASSUME TimelineTypeOK, OrderInv PROVE TimelineHasNoGap
<1> SUFFICES ASSUME Going, appended > 0
             PROVE  \E r \in Records : /\ r.session = session /\ r.n = appended
                                       /\ \A other \in Records \ {r} : Before(other, r)
  BY DEF OrderInv, TimelineHasNoGap, NewestIsThere, Going
<1>1. PICK r \in Records : IsNewest(r)
  BY DEF OrderInv, NewestSafe
<1>2. ASSUME NEW other \in Records \ {r} PROVE Before(other, r)
  <2>1. other \in Record /\ r \in Record
    BY ContentsTyped
  <2>2. Before(other, r) \/ Before(r, other)
    BY ContentsTyped, OrderIsTotal DEF OrderInv, Records
  <2>3. other.session <= session /\ (other.session = session => other.n <= appended)
    BY DEF OrderInv, Numbered
  <2> QED
    BY <1>1, <2>1, <2>2, <2>3 DEF Before, IsNewest, Record, TimelineTypeOK
<1> QED
  BY <1>1, <1>2 DEF IsNewest

(* JsonlStore: whatever the rotation policy, the policies, the events and  *)
(* the moments observers end at, the timeline on disk is an uninterrupted, *)
(* ordered end of what each observer appended.                             *)
THEOREM TimelineWhole == TimelineSpec => []TimelineHasNoGap
<1>1. TimelineTypeOK /\ OrderInv /\ [TimelineNext]_timelineVars => TimelineTypeOK' /\ OrderInv'
  BY NextTyped, NextOrdered
<1>2. TimelineTypeOK /\ OrderInv => TimelineHasNoGap
  BY NoGap
<1> QED
  BY <1>1, <1>2, InitTyped, InitOrdered, PTL DEF TimelineSpec

----------------------------------------------------------------------------
\* The feedback files

Told == {feedback.text, feedback.json}

(* A violation is told once its metadata is appended: until then, one more *)
(* record is to come than its own number counts.                           *)
TellingSound ==
  /\ \A f \in Told :
       f.session <= session /\ (f.session = session /\ f # NoViolation => f.n < appended)
  /\ telling # NoViolation =>
       telling.session = session /\ telling.n >= 1 /\ telling.n + 1 <= appended + Len(todo)
  /\ \A i \in DOMAIN todo :
       todo[i].kind = "violation" => telling = NoViolation /\ i + 1 = Len(todo)

IsTold(r) ==
  \/ telling = [session |-> r.session, n |-> r.n]
  \/ /\ \A f \in Told : f.session = session /\ f.n >= r.n
     /\ telling # NoViolation => r.n <= telling.n

\* A violation of this observer is the one being told, or told.
ToldSound ==
  Going => \A r \in Records : r.session = session /\ r.of.kind = "violation" => IsTold(r)

FeedbackInv == TellingSound /\ ToldSound

\* The feedback files name records, or none.
LEMMA ToldTyped == ASSUME TimelineTypeOK PROVE \A f \in Told : f.session \in Nat /\ f.n \in Nat
BY DEF TimelineTypeOK, Told, RecordId

\* Steps that neither append nor tell.
LEMMA FeedbackKept ==
  ASSUME FeedbackInv, UNCHANGED <<session, appended, todo, telling, feedback>>,
         Going' => Going /\ Records' \subseteq Records
  PROVE  FeedbackInv'
<1>1. TellingSound'
  BY DEF FeedbackInv, TellingSound, Told
<1>2. ToldSound'
  BY DEF FeedbackInv, ToldSound, IsTold, Told
<1> QED
  BY <1>1, <1>2 DEF FeedbackInv

\* A new observer has told nothing yet.
LEMMA StartTold ==
  ASSUME TimelineTypeOK, OrderInv, FeedbackInv, NEW p, Start(p)
  PROVE  FeedbackInv'
<1>1. /\ session' = session + 1 /\ todo' = StartupRecords(p) /\ telling' = NoViolation
      /\ feedback' = feedback
  BY DEF Start
<1>2. \A f \in Told : f.session < session'
  BY <1>1, ToldTyped DEF FeedbackInv, TellingSound, TimelineTypeOK
<1>3. Told' = Told
  BY <1>1 DEF Told
<1>4. \A i \in DOMAIN todo' : todo'[i].kind # "violation"
  BY <1>1, StartupRecordsTyped
<1>5. session' \in Nat
  BY <1>1 DEF TimelineTypeOK
<1>6. TellingSound'
  BY <1>1, <1>2, <1>3, <1>4, <1>5, ToldTyped DEF TellingSound
<1>7. \A r \in Records' : r.session # session'
  BY StartOrdered, <1>1 DEF OrderInv, Numbered, Start
<1>8. ToldSound'
  BY <1>7 DEF ToldSound
<1> QED
  BY <1>6, <1>8 DEF FeedbackInv

\* The records that remain to be appended after the first.
LEMMA TailOf ==
  ASSUME TimelineTypeOK, todo # <<>>
  PROVE  /\ Len(todo) \in Nat /\ Len(todo) >= 1 /\ Len(Tail(todo)) = Len(todo) - 1
         /\ Head(todo) = todo[1] /\ DOMAIN todo = 1..Len(todo)
         /\ DOMAIN Tail(todo) = 1..Len(todo) - 1
         /\ \A i \in DOMAIN Tail(todo) : i \in Nat /\ i + 1 \in DOMAIN todo /\ Tail(todo)[i] = todo[i + 1]
BY DEF TimelineTypeOK

\* append begins to tell the violation it writes.
LEMMA AppendsTold ==
  ASSUME TimelineTypeOK, OrderInv, FeedbackInv, Appends
  PROVE  FeedbackInv'
<1>1. /\ appended' = appended + 1 /\ todo' = Tail(todo) /\ todo # <<>>
      /\ telling' = IF Head(todo).kind = "violation"
                    THEN [session |-> session, n |-> appended + 1] ELSE telling
      /\ feedback' = feedback /\ session' = session /\ running' = running
  BY AppendsEffect
<1>2. session \in Nat /\ appended \in Nat /\ telling \in RecordId
  BY DEF TimelineTypeOK
<1>3. Told' = Told
  BY <1>1 DEF Told
<1>4. /\ Len(todo) \in Nat /\ Len(todo) >= 1 /\ Len(todo') = Len(todo) - 1
      /\ Head(todo) = todo[1] /\ 1 \in DOMAIN todo
      /\ \A i \in DOMAIN todo' : i \in Nat /\ i >= 1 /\ i + 1 \in DOMAIN todo /\ todo'[i] = todo[i + 1]
  BY <1>1, TailOf
<1>5. \A f \in Told' : f.session <= session' /\ (f.session = session' /\ f # NoViolation => f.n < appended')
  BY <1>1, <1>2, <1>3, ToldTyped DEF FeedbackInv, TellingSound
<1>6. CASE Head(todo).kind = "violation"
  <2>1. telling = NoViolation /\ Len(todo) = 2
    BY <1>4, <1>6 DEF FeedbackInv, TellingSound
  <2>2. /\ telling' # NoViolation /\ telling'.session = session' /\ telling'.n = appended + 1
        /\ telling'.n + 1 <= appended' + Len(todo')
    <3>1. telling' = [session |-> session, n |-> appended + 1]
      BY <1>1, <1>6
    <3>2. telling'.session = session /\ telling'.n = appended + 1
      BY <3>1
    <3>3. Len(todo') = 1
      BY <1>4, <2>1
    <3>4. telling' # NoViolation
      BY <1>2, <3>2 DEF NoViolation
    <3>5. session' = session /\ appended' = appended + 1
      BY <1>1
    <3>6. telling'.n + 1 <= appended' + Len(todo')
      BY <1>2, <3>2, <3>3, <3>5
    <3> QED
      BY <3>2, <3>4, <3>5, <3>6
  <2>3. ASSUME NEW i \in DOMAIN todo', todo'[i].kind = "violation" PROVE FALSE
    <3>1. i + 1 \in DOMAIN todo /\ todo[i + 1].kind = "violation"
      BY <1>4, <2>3
    <3>2. i + 1 + 1 = Len(todo)
      BY <3>1 DEF FeedbackInv, TellingSound
    <3> QED
      BY <1>4, <2>1, <3>2
  <2>4. TellingSound'
    BY <1>2, <1>5, <2>2, <2>3 DEF TellingSound
  <2>5. ASSUME Going, NEW r \in Records, r.session = session, r.of.kind = "violation"
        PROVE  IsTold(r)'
    <3>1. r.n \in 1..appended
      BY <2>5 DEF OrderInv, Numbered
    <3>2. telling # [session |-> r.session, n |-> r.n]
      BY <2>1, <3>1 DEF NoViolation
    <3>3. IsTold(r)
      BY <2>5 DEF FeedbackInv, ToldSound
    <3>4. \A f \in Told' : f.session = session' /\ f.n >= r.n
      BY <1>1, <1>3, <3>2, <3>3 DEF IsTold
    <3>5. r.n <= telling'.n
      BY <1>2, <2>2, <3>1
    <3> QED
      BY <3>4, <3>5 DEF IsTold
  <2>6. PICK new : new = NewRecord
    OBVIOUS
  <2>7. IsTold(new)'
    <3>1. new.session = session /\ new.n = appended + 1
      BY <2>6 DEF NewRecord
    <3> QED
      BY <1>1, <1>6, <3>1 DEF IsTold
  <2>8. Records' = Records \cup {new}
    BY <2>6, AppendsOrdered
  <2>9. ToldSound'
    BY <1>1, <2>5, <2>7, <2>8 DEF ToldSound, Going
  <2> QED
    BY <2>4, <2>9 DEF FeedbackInv
<1>7. CASE Head(todo).kind # "violation"
  <2>1. telling' = telling
    BY <1>1, <1>7
  <2>2. telling' # NoViolation =>
          telling'.session = session' /\ telling'.n >= 1 /\ telling'.n + 1 <= appended' + Len(todo')
    <3>1. appended' + Len(todo') = appended + Len(todo)
      BY <1>1, <1>2, <1>4
    <3> QED
      BY <1>1, <2>1, <3>1 DEF FeedbackInv, TellingSound
  <2>3. ASSUME NEW i \in DOMAIN todo', todo'[i].kind = "violation"
        PROVE  telling' = NoViolation /\ i + 1 = Len(todo')
    <3>1. i + 1 \in DOMAIN todo /\ todo[i + 1].kind = "violation"
      BY <1>4, <2>3
    <3>2. telling = NoViolation /\ i + 1 + 1 = Len(todo)
      BY <3>1 DEF FeedbackInv, TellingSound
    <3> QED
      BY <1>4, <2>1, <3>2
  <2>4. TellingSound'
    BY <1>5, <2>2, <2>3 DEF TellingSound
  <2>5. NewRecord.of.kind # "violation"
    BY <1>7 DEF NewRecord
  <2>6. ASSUME NEW r \in Records', Going', r.session = session', r.of.kind = "violation"
        PROVE  IsTold(r)'
    <3>1. r \in Records
      BY <2>5, <2>6, AppendsOrdered
    <3>2. IsTold(r)
      BY <1>1, <2>6, <3>1 DEF FeedbackInv, ToldSound, Going
    <3> QED
      BY <1>1, <1>3, <2>1, <3>2 DEF IsTold
  <2>7. ToldSound'
    BY <2>6 DEF ToldSound
  <2> QED
    BY <2>4, <2>7 DEF FeedbackInv
<1> QED
  BY <1>6, <1>7

\* The violation of an event, if there is one, comes last but one.
LEMMA ViolationsPlace ==
  ASSUME NEW i \in Nat, NEW e \in Events, policy \in Policies,
         NEW lines, lines = RecordsOf(i, e), NEW j \in DOMAIN lines, lines[j].kind = "violation"
  PROVE  j + 1 = Len(lines)
<1>1. PICK event \in [i : Nat, is : Events], d \in Decision :
        \/ lines = <<Line("raw", event, Plain), Line("canonical", event, Plain)>>
        \/ lines = <<Line("raw", event, Plain), Line("canonical", event, Plain),
                     Line("violation", event, d), Line("metadata", event, d)>>
  BY RecordsOfEvent
<1>3. /\ Line("raw", event, Plain).kind = "raw" /\ Line("canonical", event, Plain).kind = "canonical"
      /\ Line("metadata", event, d).kind = "metadata"
  BY DEF Line
<1>4. CASE lines = <<Line("raw", event, Plain), Line("canonical", event, Plain)>>
  BY <1>3, <1>4
<1>5. CASE lines = <<Line("raw", event, Plain), Line("canonical", event, Plain),
                     Line("violation", event, d), Line("metadata", event, d)>>
  BY <1>3, <1>5
<1> QED
  BY <1>1, <1>4, <1>5

\* An event is taken on when everything is told.
LEMMA ObserveTold ==
  ASSUME TimelineTypeOK, FeedbackInv, NEW e \in Events, Observe(e)
  PROVE  FeedbackInv'
<1>1. /\ telling = NoViolation /\ todo' = RecordsOf(seen + 1, e)
      /\ UNCHANGED <<files, buffer, appended, session, running, telling, feedback>>
  BY DEF Observe, Quiet, store
<1>2. Told' = Told /\ Records' = Records /\ (Going <=> Going')
  BY <1>1 DEF Told, Records, RecordsIn, Contents, Going
<1>3. \A i \in DOMAIN todo' : todo'[i].kind = "violation" => i + 1 = Len(todo')
  <2>1. seen + 1 \in Nat /\ policy \in Policies
    BY DEF TimelineTypeOK
  <2> QED
    BY <1>1, <2>1, ViolationsPlace
<1>4. TellingSound'
  BY <1>1, <1>2, <1>3 DEF FeedbackInv, TellingSound
<1>5. ToldSound'
  BY <1>1, <1>2 DEF FeedbackInv, ToldSound, IsTold
<1> QED
  BY <1>4, <1>5 DEF FeedbackInv

\* write_last_violation comes when all records of the event are appended.
LEMMA WriteTold ==
  ASSUME TimelineTypeOK, FeedbackInv, WriteText \/ WriteJson
  PROVE  FeedbackInv'
<1>1. /\ telling # NoViolation /\ todo = <<>>
      /\ UNCHANGED <<files, buffer, appended, session, running, todo>>
  BY DEF WriteText, WriteJson, store
<1>2. /\ session \in Nat /\ appended \in Nat /\ telling.session \in Nat /\ telling.n \in Nat
      /\ feedback \in [text : RecordId, json : RecordId]
  BY DEF TimelineTypeOK, RecordId
<1>3. telling.session = session /\ telling.n < appended
  <2>1. Len(todo) = 0
    BY <1>1
  <2> QED
    BY <1>1, <1>2, <2>1 DEF FeedbackInv, TellingSound
<1>4. /\ Told' \subseteq Told \cup {telling}
      /\ telling' # NoViolation => telling' = telling
      /\ telling' = NoViolation => Told' = {telling}
  <2>1. CASE WriteText
    BY <1>1, <1>2, <2>1 DEF WriteText, Told
  <2>2. CASE WriteJson
    BY <1>2, <2>2 DEF WriteJson, Told
  <2> QED
    BY <2>1, <2>2
<1>5. Records' = Records /\ (Going <=> Going')
  BY <1>1 DEF Records, RecordsIn, Contents, Going
<1>6. TellingSound'
  <2>1. \A f \in Told' : f.session <= session' /\ (f.session = session' /\ f # NoViolation => f.n < appended')
    BY <1>1, <1>2, <1>3, <1>4 DEF FeedbackInv, TellingSound
  <2>2. DOMAIN todo' = {}
    BY <1>1
  <2>3. telling' # NoViolation =>
          telling'.session = session' /\ telling'.n >= 1 /\ telling'.n + 1 <= appended' + Len(todo')
    BY <1>1, <1>4 DEF FeedbackInv, TellingSound
  <2> QED
    BY <2>1, <2>2, <2>3 DEF TellingSound
<1>7. ASSUME Going, NEW r \in Records, r.session = session, r.of.kind = "violation"
      PROVE  IsTold(r)'
  <2>1. IsTold(r)
    BY <1>7 DEF FeedbackInv, ToldSound
  <2>2. r.n <= telling.n
    <3>1. CASE telling = [session |-> r.session, n |-> r.n]
      <4>1. telling.n = r.n
        BY <3>1
      <4> QED
        BY <1>2, <4>1
    <3>2. CASE telling # [session |-> r.session, n |-> r.n]
      BY <1>1, <2>1, <3>2 DEF IsTold
    <3> QED
      BY <3>1, <3>2
  <2>3. CASE telling' = NoViolation
    BY <1>1, <1>2, <1>3, <1>4, <2>2, <2>3 DEF IsTold
  <2>4. CASE telling' # NoViolation
    <3>1. telling' = telling
      BY <1>4, <2>4
    <3> QED
      BY <1>1, <1>2, <1>3, <1>4, <2>1, <2>2, <3>1 DEF IsTold
  <2> QED
    BY <2>3, <2>4
<1>8. ToldSound'
  BY <1>1, <1>5, <1>7 DEF ToldSound
<1> QED
  BY <1>6, <1>8 DEF FeedbackInv

\* At first nothing is told.
LEMMA InitTold == TimelineInit => FeedbackInv
<1> SUFFICES ASSUME TimelineInit PROVE FeedbackInv
  OBVIOUS
<1>1. /\ running = "no" /\ todo = <<>> /\ telling = NoViolation
      /\ \A f \in Told : f = NoViolation
      /\ session = 0 /\ NoViolation.session = 0
  BY DEF TimelineInit, Told, NoViolation
<1>2. TellingSound
  BY <1>1 DEF TellingSound
<1>3. ToldSound
  BY <1>1 DEF ToldSound, Going
<1> QED
  BY <1>2, <1>3 DEF FeedbackInv

\* Every step keeps the feedback in line with the records.
LEMMA NextTold ==
  ASSUME TimelineTypeOK, OrderInv, FeedbackInv, [TimelineNext]_timelineVars
  PROVE  FeedbackInv'
<1>1. CASE UNCHANGED timelineVars
  BY <1>1, FeedbackKept, OtherOrdered DEF timelineVars, store, Going
<1>2. CASE \E p \in Policies : Start(p)
  BY <1>2, StartTold
<1>3. CASE \E e \in Events : Observe(e)
  BY <1>3, ObserveTold
<1>4. CASE running = "yes" /\ RemoveOldest
  BY <1>4, FeedbackKept, RemoveOldestOrdered DEF RemoveOldest, Going
<1>5. CASE running = "yes" /\ ShiftArchive
  BY <1>5, FeedbackKept, ShiftOrdered DEF ShiftArchive, Going
<1>6. CASE running = "yes" /\ CreateActive
  BY <1>6, FeedbackKept, CreateOrdered DEF CreateActive, Going
<1>7. CASE Append1
  <2>1. CASE Appends
    BY <2>1, AppendsTold
  <2>2. CASE ~Appends
    <3>1. UNCHANGED <<session, appended, todo, telling, feedback, running>>
      BY <1>7, <2>2 DEF Append1, Appends
    <3> QED
      BY <1>7, <2>2, <3>1, FeedbackKept, RotateOrdered DEF Going
  <2> QED
    BY <2>1, <2>2
<1>8. CASE Spill
  BY <1>8, FeedbackKept, SpillOrdered DEF Spill, Going
<1>9. CASE WriteText \/ WriteJson
  BY <1>9, WriteTold
<1>10. CASE Finish
  BY <1>10, FeedbackKept, FinishOrdered DEF Finish, Going
<1>11. CASE Stop
  BY <1>11, FeedbackKept DEF Stop, Going
<1> QED
  BY <1>1, <1>2, <1>3, <1>4, <1>5, <1>6, <1>7, <1>8, <1>9, <1>10, <1>11 DEF TimelineNext

\* What is not being told is told.
LEMMA Latest ==
  ASSUME TimelineTypeOK, OrderInv, FeedbackInv
  PROVE  FeedbackIsLatest
<1>1. ASSUME NEW f \in Told, f.session = session, f # NoViolation PROVE f.n < appended
  BY <1>1 DEF FeedbackInv, TellingSound
<1>2. ASSUME Going, Quiet, NEW r \in Records, r.session = session, r.of.kind = "violation",
             NEW f \in Told
      PROVE  f.session = session /\ f.n >= r.n
  <2>1. r.n \in 1..appended
    BY <1>2 DEF OrderInv, Numbered
  <2>2. telling # [session |-> r.session, n |-> r.n]
    BY <1>2, <2>1 DEF Quiet, NoViolation
  <2> QED
    BY <1>2, <2>2 DEF FeedbackInv, ToldSound, IsTold
<1> QED
  BY <1>1, <1>2 DEF FeedbackIsLatest, Told, Going

(* FeedbackWriter::write_last_violation: at every moment, also after an    *)
(* observer was stopped and another one started on the same path, what the *)
(* files tell is recorded, and when the observer goes on it is the latest. *)
THEOREM FeedbackSound == TimelineSpec => []FeedbackIsLatest
<1>1. TimelineTypeOK /\ OrderInv /\ FeedbackInv /\ [TimelineNext]_timelineVars
        => TimelineTypeOK' /\ OrderInv' /\ FeedbackInv'
  BY NextTyped, NextOrdered, NextTold
<1>2. TimelineTypeOK /\ OrderInv /\ FeedbackInv => FeedbackIsLatest
  BY Latest
<1> QED
  BY <1>1, <1>2, InitTyped, InitOrdered, InitTold, PTL DEF TimelineSpec

----------------------------------------------------------------------------
\* Violations

\* The records still to come, as they will be numbered.
ComingAt(i) == [session |-> session, n |-> appended + i, of |-> todo[i]]
Coming == {ComingAt(i) : i \in DOMAIN todo}
Everything == Records \cup Coming

\* The record of this kind that belongs to a raw record.
Follows(kind, raw, r) ==
  /\ r.session = session /\ r.n > raw.n
  /\ r.of = Line(kind, raw.of.event, Outcome(raw.of.event.is))

CallsForMore(raw) ==
  raw.session = session /\ raw.of.kind = "raw" /\ MustBeKept(raw.of.event.is)

(* What a raw record calls for is written or still to come, as long as the *)
(* observer goes on; when it has ended well nothing is to come.            *)
KeptSound ==
  /\ running = "ended" => todo = <<>>
  /\ Going => \A raw \in Everything : CallsForMore(raw) =>
       \A kind \in {"violation", "metadata"} : \E r \in Everything : Follows(kind, raw, r)

\* A record to come has its place in the queue.
LEMMA ComingMember ==
  ASSUME NEW r
  PROVE  r \in Coming <=> \E i \in DOMAIN todo : r = ComingAt(i)
BY DEF Coming

\* Steps that neither append nor begin anything.
LEMMA KeptAsBefore ==
  ASSUME KeptSound, UNCHANGED <<session, appended, todo, policy>>,
         running' = "ended" => running = "ended" \/ todo = <<>>,
         Going' => Going /\ Records' = Records
  PROVE  KeptSound'
<1>1. Coming' = Coming
  BY DEF Coming, ComingAt
<1>2. running' = "ended" => todo' = <<>>
  BY DEF KeptSound
<1>3. ASSUME Going', NEW raw \in Everything', CallsForMore(raw)', NEW kind \in {"violation", "metadata"}
      PROVE  \E r \in Everything' : Follows(kind, raw, r)'
  <2>1. Everything' = Everything
    BY <1>1, <1>3 DEF Everything
  <2>2. raw \in Everything /\ CallsForMore(raw)
    BY <1>3, <2>1 DEF CallsForMore, MustBeKept
  <2>3. PICK r \in Everything : Follows(kind, raw, r)
    BY <1>3, <2>2 DEF KeptSound
  <2>4. Follows(kind, raw, r)'
    BY <2>3 DEF Follows, Outcome
  <2> QED
    BY <2>1, <2>3, <2>4
<1> QED
  BY <1>2, <1>3 DEF KeptSound

\* append takes the first of the records to come and makes it the newest.
LEMMA AppendsKept ==
  ASSUME TimelineTypeOK, OrderInv, KeptSound, Appends
  PROVE  KeptSound'
<1>1. /\ appended' = appended + 1 /\ todo' = Tail(todo) /\ todo # <<>>
      /\ UNCHANGED <<session, policy, running>>
  BY AppendsEffect
<1>2. running = "yes"
  BY DEF Appends, Append1
<1>3. /\ Head(todo) = todo[1] /\ 1 \in DOMAIN todo /\ DOMAIN todo = 1..Len(todo)
      /\ Len(todo) \in Nat /\ DOMAIN todo' = 1..Len(todo) - 1
      /\ \A i \in DOMAIN todo' : i \in Nat /\ i + 1 \in DOMAIN todo /\ todo'[i] = todo[i + 1]
  BY <1>1, TailOf
<1>4. appended \in Nat
  BY DEF TimelineTypeOK
<1>5. NewRecord = ComingAt(1)
  BY <1>3 DEF NewRecord, ComingAt
<1>6. \A i \in DOMAIN todo' : ComingAt(i)' = ComingAt(i + 1) /\ i + 1 \in DOMAIN todo
  BY <1>1, <1>3, <1>4 DEF ComingAt
<1>7. Coming' \subseteq Coming
  BY <1>6 DEF Coming
<1>8. Coming \subseteq Coming' \cup {NewRecord}
  <2> SUFFICES ASSUME NEW i \in DOMAIN todo PROVE ComingAt(i) \in Coming' \cup {NewRecord}
    BY DEF Coming
  <2>1. CASE i = 1
    BY <1>5, <2>1
  <2>2. CASE i # 1
    <3>1. i - 1 \in DOMAIN todo' /\ (i - 1) + 1 = i
      BY <1>3, <2>2
    <3>2. ComingAt(i) = ComingAt(i - 1)'
      BY <1>6, <3>1
    <3> QED
      BY <3>1, <3>2 DEF Coming
  <2> QED
    BY <2>1, <2>2
<1>9. NewRecord \in Coming
  BY <1>3, <1>5 DEF Coming
<1>10. Records' = Records \cup {NewRecord}
  BY AppendsOrdered
<1>11. Everything' = Everything
  BY <1>7, <1>8, <1>9, <1>10 DEF Everything
<1>12. ASSUME NEW raw \in Everything', CallsForMore(raw)', NEW kind \in {"violation", "metadata"}
       PROVE  \E r \in Everything' : Follows(kind, raw, r)'
  <2>1. raw \in Everything /\ CallsForMore(raw)
    BY <1>1, <1>11, <1>12 DEF CallsForMore, MustBeKept
  <2>2. PICK r \in Everything : Follows(kind, raw, r)
    BY <1>2, <1>12, <2>1 DEF KeptSound, Going
  <2>3. Follows(kind, raw, r)'
    BY <1>1, <2>2 DEF Follows, Outcome
  <2> QED
    BY <1>11, <2>2, <2>3
<1> QED
  BY <1>1, <1>2, <1>12 DEF KeptSound

\* A new observer has no raw record yet.
LEMMA StartKept ==
  ASSUME TimelineTypeOK, OrderInv, NEW p, Start(p)
  PROVE  KeptSound'
<1>1. /\ session' = session + 1 /\ running' = "yes" /\ todo' = StartupRecords(p)
  BY DEF Start
<1>2. \A raw \in Records' : raw.session # session'
  BY StartOrdered, <1>1 DEF OrderInv, Numbered, Start
<1>3. \A i \in DOMAIN todo' : todo'[i].kind # "raw"
  BY <1>1, StartupRecordsTyped
<1>4. \A raw \in Coming' : raw.of.kind # "raw"
  BY <1>3 DEF Coming, ComingAt
<1> QED
  BY <1>1, <1>2, <1>4 DEF KeptSound, Everything, CallsForMore

(* rotate: a record goes with the oldest archive only when every record    *)
(* before it goes too, so no raw record outlives what it called for.       *)
LEMMA RemoveOldestKept ==
  ASSUME TimelineTypeOK, OrderInv, KeptSound, running = "yes", RemoveOldest
  PROVE  KeptSound'
<1>1. UNCHANGED <<session, appended, todo, policy, running>>
  BY DEF RemoveOldest
<1>2. Coming' = Coming
  BY <1>1 DEF Coming, ComingAt
<1>3. /\ Records' \subseteq Records
      /\ \A r \in Records \ Records', a \in Records' : Before(r, a)
  BY RemoveOldestOrdered
<1>4. ASSUME NEW raw \in Everything', CallsForMore(raw)', NEW kind \in {"violation", "metadata"}
      PROVE  \E r \in Everything' : Follows(kind, raw, r)'
  <2>1. raw \in Everything /\ CallsForMore(raw)
    BY <1>1, <1>2, <1>3, <1>4 DEF Everything, CallsForMore, MustBeKept
  <2>2. PICK r \in Everything : Follows(kind, raw, r)
    BY <1>4, <2>1 DEF KeptSound, Going
  <2>3. r.session = session /\ raw.session = session /\ r.n > raw.n
    BY <2>1, <2>2 DEF Follows, CallsForMore
  <2>4. session \in Nat /\ appended \in Nat /\ \A i \in DOMAIN todo : i \in Nat /\ i >= 1
    BY DEF TimelineTypeOK
  <2>5. r \notin Records \ Records'
    <3> SUFFICES ASSUME r \in Records \ Records' PROVE FALSE
      OBVIOUS
    <3>1. r \in Record /\ r.n <= appended
      BY <2>3, ContentsTyped DEF OrderInv, Numbered
    <3>2. CASE raw \in Records'
      <4>1. raw \in Record
        BY <1>3, <3>2, ContentsTyped
      <4>2. Before(r, raw)
        BY <1>3, <3>2
      <4> QED
        BY <2>3, <2>4, <3>1, <4>1, <4>2 DEF Before, Record
    <3>3. CASE raw \in Coming
      <4>1. PICK i \in DOMAIN todo : raw = ComingAt(i)
        BY <3>3, ComingMember
      <4>2. raw.n = appended + i
        BY <4>1 DEF ComingAt
      <4>3. r.n \in Nat
        BY <3>1 DEF Record
      <4> QED
        BY <2>3, <2>4, <3>1, <4>2, <4>3
    <3> QED
      BY <1>2, <1>4, <3>2, <3>3 DEF Everything
  <2>6. r \in Everything'
    BY <1>2, <2>2, <2>5 DEF Everything
  <2>7. Follows(kind, raw, r)'
    BY <1>1, <2>2 DEF Follows, Outcome
  <2> QED
    BY <2>6, <2>7
<1> QED
  BY <1>1, <1>4 DEF KeptSound

\* An event's records are queued together.
LEMMA ObserveKept ==
  ASSUME TimelineTypeOK, KeptSound, NEW e \in Events, Observe(e)
  PROVE  KeptSound'
<1>1. /\ running = "yes" /\ todo = <<>>
      /\ UNCHANGED <<files, buffer, appended, session, policy, running>>
  BY DEF Observe, Quiet, store
<1>2. Records' = Records /\ Coming = {}
  BY <1>1 DEF Records, RecordsIn, Contents, Coming
<1>3. PICK lines : lines = RecordsOf(seen + 1, e) /\ todo' = lines
  BY DEF Observe
<1>4. appended \in Nat /\ seen + 1 \in Nat /\ policy \in Policies
  BY DEF TimelineTypeOK
<1>5. PICK event \in [i : Nat, is : Events], d \in Decision :
        /\ event = [i |-> seen + 1, is |-> e]
        /\ \/ /\ lines = <<Line("raw", event, Plain), Line("canonical", event, Plain)>>
              /\ ~MustBeKept(e)
           \/ /\ lines = <<Line("raw", event, Plain), Line("canonical", event, Plain),
                           Line("violation", event, d), Line("metadata", event, d)>>
              /\ MustBeKept(e) => d = Outcome(e)
  BY <1>3, <1>4, RecordsOfEvent
<1>6. event.is = e
  BY <1>5
<1>7. ASSUME NEW raw \in Records, CallsForMore(raw)', NEW kind \in {"violation", "metadata"}
      PROVE  \E r \in Everything' : Follows(kind, raw, r)'
  <2>1. raw \in Everything /\ CallsForMore(raw)
    BY <1>1, <1>7 DEF Everything, CallsForMore, MustBeKept
  <2>2. PICK r \in Everything : Follows(kind, raw, r)
    BY <1>1, <1>7, <2>1 DEF KeptSound, Going
  <2>3. r \in Everything'
    BY <1>2, <2>2 DEF Everything
  <2>4. Follows(kind, raw, r)'
    BY <1>1, <2>2 DEF Follows, Outcome
  <2> QED
    BY <2>3, <2>4
<1>8. ASSUME NEW raw \in Coming', CallsForMore(raw)', NEW kind \in {"violation", "metadata"}
      PROVE  \E r \in Everything' : Follows(kind, raw, r)'
  <2>1. PICK i \in DOMAIN lines : raw = [session |-> session, n |-> appended + i, of |-> lines[i]]
    BY <1>1, <1>3, <1>8 DEF Coming, ComingAt
  <2>2. raw.of = lines[i] /\ raw.n = appended + i /\ raw.of.kind = "raw"
    BY <1>8, <2>1 DEF CallsForMore
  <2>3. /\ Line("raw", event, Plain).kind = "raw" /\ Line("raw", event, Plain).event = event
        /\ Line("canonical", event, Plain).kind = "canonical"
        /\ Line("violation", event, d).kind = "violation"
        /\ Line("metadata", event, d).kind = "metadata"
    BY DEF Line
  <2>4. i = 1 /\ lines[1].event = event
    BY <1>5, <2>2, <2>3
  <2>5. MustBeKept(e)
    BY <1>1, <1>6, <1>8, <2>2, <2>4 DEF CallsForMore, MustBeKept
  <2>6. /\ lines = <<Line("raw", event, Plain), Line("canonical", event, Plain),
                     Line("violation", event, d), Line("metadata", event, d)>>
        /\ d = Outcome(e)
    BY <1>5, <2>5
  <2>7. /\ 3 \in DOMAIN lines /\ lines[3] = Line("violation", event, d)
        /\ 4 \in DOMAIN lines /\ lines[4] = Line("metadata", event, d)
    BY <2>6
  <2>8. PICK j \in DOMAIN lines : lines[j] = Line(kind, event, d) /\ j \in {3, 4}
    BY <1>8, <2>7
  <2>9. PICK r : r = [session |-> session, n |-> appended + j, of |-> lines[j]]
    OBVIOUS
  <2>10. r \in Everything'
    BY <1>1, <1>3, <2>8, <2>9 DEF Everything, Coming, ComingAt
  <2>11. r.session = session /\ r.n = appended + j /\ r.of = Line(kind, event, d)
    BY <2>8, <2>9
  <2>12. r.n > raw.n
    BY <1>4, <2>2, <2>4, <2>8, <2>11
  <2>13. Outcome(e)' = Outcome(e)
    BY <1>1 DEF Outcome
  <2>14. Follows(kind, raw, r)'
    BY <1>1, <1>6, <2>2, <2>4, <2>6, <2>11, <2>12, <2>13 DEF Follows
  <2> QED
    BY <2>10, <2>14
<1> QED
  BY <1>1, <1>2, <1>7, <1>8 DEF KeptSound, Everything

\* At first nothing is called for.
LEMMA InitKept == TimelineInit => KeptSound
BY DEF TimelineInit, KeptSound, Going

\* Every step keeps what the raw records call for.
LEMMA NextKept ==
  ASSUME TimelineTypeOK, OrderInv, KeptSound, [TimelineNext]_timelineVars
  PROVE  KeptSound'
<1>1. CASE UNCHANGED timelineVars
  BY <1>1, KeptAsBefore, OtherOrdered DEF timelineVars, store, Going
<1>2. CASE \E p \in Policies : Start(p)
  BY <1>2, StartKept
<1>3. CASE \E e \in Events : Observe(e)
  BY <1>3, ObserveKept
<1>4. CASE running = "yes" /\ RemoveOldest
  BY <1>4, RemoveOldestKept
<1>5. CASE running = "yes" /\ ShiftArchive
  BY <1>5, KeptAsBefore, ShiftOrdered DEF ShiftArchive, Going
<1>6. CASE running = "yes" /\ CreateActive
  BY <1>6, KeptAsBefore, CreateOrdered DEF CreateActive, Going
<1>7. CASE Append1
  <2>1. CASE Appends
    BY <2>1, AppendsKept
  <2>2. CASE ~Appends
    <3>1. UNCHANGED <<session, appended, todo, policy, running>>
      BY <1>7, <2>2 DEF Append1, Appends
    <3> QED
      BY <1>7, <2>2, <3>1, KeptAsBefore, RotateOrdered DEF Going
  <2> QED
    BY <2>1, <2>2
<1>8. CASE Spill
  BY <1>8, KeptAsBefore, SpillOrdered DEF Spill, Going
<1>9. CASE WriteText
  BY <1>9, KeptAsBefore, OtherOrdered DEF WriteText, store, Going
<1>10. CASE WriteJson
  BY <1>10, KeptAsBefore, OtherOrdered DEF WriteJson, store, Going
<1>11. CASE Finish
  BY <1>11, KeptAsBefore, FinishOrdered DEF Finish, Quiet, Going
<1>12. CASE Stop
  BY <1>12, KeptAsBefore DEF Stop, Going
<1> QED
  BY <1>1, <1>2, <1>3, <1>4, <1>5, <1>6, <1>7, <1>8, <1>9, <1>10, <1>11, <1>12 DEF TimelineNext

\* What is not to come any more is on disk.
LEMMA Kept ==
  ASSUME TimelineTypeOK, OrderInv, KeptSound
  PROVE  ViolationsAreKept
<1> SUFFICES ASSUME running = "ended", NEW raw \in OnDisk, CallsForMore(raw)
             PROVE  LET d == Outcome(raw.of.event.is) IN
                    /\ \A kind \in {"violation", "metadata"} :
                         \E r \in OnDisk : /\ r.session = session /\ Before(raw, r)
                                           /\ r.of = Line(kind, raw.of.event, d)
                    /\ d.requested = policy.requested
                    /\ d.downgraded <=> policy.requested = "block"
                    /\ ~d.prevention
  BY DEF ViolationsAreKept, CallsForMore
<1>1. PICK d : d = Outcome(raw.of.event.is)
  OBVIOUS
<1>2. d.requested = policy.requested /\ (d.downgraded <=> policy.requested = "block") /\ ~d.prevention
  <2>1. policy \in Policies
    BY DEF TimelineTypeOK
  <2> QED
    BY <1>1, <2>1, OutcomeOfRequest DEF Outcome
<1>3. Everything = OnDisk
  <2>1. Coming = {}
    BY DEF KeptSound, Coming
  <2>2. buffer = <<>>
    BY DEF OrderInv, StoreSound
  <2>3. /\ ToSet(Contents[-1]) = {}
        /\ \A k \in 0..MaxArchivedFiles : k \in Places /\ Contents[k] = files[k].lines
    BY <2>2, ContentsTyped, PlacesOfTheStore, ToSetOfEmpty
  <2>4. Records = OnDisk
    BY <2>3, PlacesOfTheStore DEF Records, RecordsIn, OnDisk
  <2> QED
    BY <2>1, <2>4 DEF Everything
<1>4. ASSUME NEW kind \in {"violation", "metadata"}
      PROVE  \E r \in OnDisk : r.session = session /\ Before(raw, r) /\ r.of = Line(kind, raw.of.event, d)
  <2>1. PICK r \in OnDisk : Follows(kind, raw, r)
    BY <1>3 DEF KeptSound, Going
  <2>2. raw \in Record /\ r \in Record
    BY <1>3, ContentsTyped DEF KeptSound, Coming, Everything
  <2>3. Before(raw, r)
    BY <2>1, <2>2 DEF Before, Follows, CallsForMore, Record
  <2> QED
    BY <1>1, <2>1, <2>3 DEF Follows
<1> QED
  BY <1>1, <1>2, <1>4

(* append_policy_evaluation: for all policies, events and file limits,     *)
(* what an event that breaks a rule calls for is in the timeline as long   *)
(* as its raw record is, once the observer reported success.               *)
THEOREM ViolationsSound == TimelineSpec => []ViolationsAreKept
<1>1. TimelineTypeOK /\ OrderInv /\ KeptSound /\ [TimelineNext]_timelineVars
        => TimelineTypeOK' /\ OrderInv' /\ KeptSound'
  BY NextTyped, NextOrdered, NextKept
<1>2. TimelineTypeOK /\ OrderInv /\ KeptSound => ViolationsAreKept
  BY Kept
<1> QED
  BY <1>1, <1>2, InitTyped, InitOrdered, InitKept, PTL DEF TimelineSpec
============================================================================
