----------------------------- MODULE BlockGates -----------------------------
(***************************************************************************)
(* How a pre-operation block comes to be enabled: prototypes leave live    *)
(* evidence, and a chain of one-shot tools turns it, document by document, *)
(* into a validation gate, an enablement policy, operator audit records    *)
(* and one guarded execution.  Beside the chain, the guardrail matrix says *)
(* what each runtime supports, and a policy engine adopts evidence.        *)
(*                                                                         *)
(* Every tool reads documents that may be old, failed, or of another host; *)
(* the host itself may be booted differently in between.  A document is    *)
(* the value its tool printed; the reasons of a refusal are left out.      *)
(***************************************************************************)
EXTENDS Enforcement, Integers, Sequences, SequencesExt

CONSTANTS Reports,    \* block reports that exist besides the prototypes' own
          Requests,   \* enablement requests operators write
          Bundles,    \* evidence bundles handed to the matrix tools
          Targets,    \* runtimes a visibility report is required for
          Hosts,      \* what a boot may offer: [seccomp, lsm, loadable]
          MaxReports, MaxRequests  \* bounds: reports, requests in one list

ASSUME BoundAssumption == MaxReports \in Nat /\ MaxRequests \in Nat

\* Evidence of a kind of its own speaks for the runtime of that kind.
ASSUME BundleAssumption ==
  \A b \in Bundles : \A k \in {"gvisor", "kubernetes", "kata"} :
    \A i \in DOMAIN b[k] : b[k][i].runtime = k

VARIABLES host,      \* what this boot offers
          evidence,  \* reports the prototypes printed
          gate, enablement, \* the latest validation gate and enablement policy
          audit,     \* the latest audit records
          executed,  \* the latest filter installed: request used, and host
          caps, adopted, \* capabilities of a policy engine; evidence in them
          matrix     \* the latest guardrail matrix

vars == <<host, evidence, gate, enablement, audit, executed, caps, adopted, matrix>>

NoDocument == [passed |-> FALSE]
Lists(S, max) == UNION {[1..n -> S] : n \in 0..max}

----------------------------------------------------------------------------
\* The prototypes

LiveReport(id, backend) ==
  [id |-> id, source |-> "live_host", runtime |-> "local", action |-> "file_read",
   backend |-> backend, lsm |-> backend = "bpf_lsm", seccomp |-> backend = "seccomp",
   prevention |-> TRUE, measured |-> TRUE, window |-> 0]

\* The filter denies an open that would have succeeded without it.
SeccompPrototype ==
  /\ host.seccomp
  /\ evidence' = evidence \cup {LiveReport("live-seccomp", "seccomp")}
  /\ UNCHANGED <<host, gate, enablement, audit, executed, caps, adopted, matrix>>

\* evaluate_policy_guardrails_bpf_lsm_prototype_prerequisites
Prerequisites == host.lsm /\ host.loadable

BpfLsmPrototype ==
  /\ Prerequisites
  /\ evidence' = evidence \cup {LiveReport("live-bpf-lsm", "bpf_lsm")}
  /\ UNCHANGED <<host, gate, enablement, audit, executed, caps, adopted, matrix>>

----------------------------------------------------------------------------
\* evaluate_policy_guardrails_block_validation_gate

EventTypeOf(action) ==
  CASE action = "file_read" -> "file_open"
    [] action = "file_write" -> "file_create"
    [] OTHER -> action

EvidenceOf(r) ==
  [source |-> r.source, backend |-> r.backend, runtime |-> r.runtime,
   type |-> EventTypeOf(r.action), prevention |-> r.prevention,
   measured |-> r.measured, window |-> r.window]

(* A report stands or falls with capabilities of its own, as its host had  *)
(* them: nothing an earlier report of the list enabled helps it.           *)
ReportValidated(r) ==
  LET c == Capabilities(r.lsm, r.seccomp, r.runtime)
      e == EvidenceOf(r)
  IN /\ r.id # ""
     /\ r.backend \in {"bpf_lsm", "seccomp"}
     /\ r.source = "live_host"
     /\ r.backend = "bpf_lsm" => r.lsm
     /\ r.backend = "seccomp" => r.seccomp
     /\ r.prevention /\ r.measured /\ r.window = 0
     /\ EvidenceAccepted(c, e)
     /\ CanPreoperationBlock(WithValidatedBlockPrototype(c, e), r.runtime, e.type)

(* One bad report and nothing in the list is validated; the reports of a   *)
(* failed gate, which nothing looks at, are left out of it.                *)
ValidationGate(reports) ==
  LET ok == reports # <<>> /\ \A i \in DOMAIN reports : ReportValidated(reports[i])
  IN IF ok THEN [passed |-> TRUE, reports |-> reports, validated |-> {r.id : r \in ToSet(reports)}]
     ELSE [passed |-> FALSE, reports |-> <<>>, validated |-> {}]

Validate(reports) ==
  /\ gate' = ValidationGate(reports)
  /\ UNCHANGED <<host, evidence, enablement, audit, executed, caps, adopted, matrix>>

----------------------------------------------------------------------------
\* evaluate_policy_guardrails_block_enablement_policy

\* Of the reports that share an evidence id the last one counts.
ReportFor(reports, id) ==
  LET at == {i \in DOMAIN reports : reports[i].id = id}
  IN {reports[i] : i \in {i \in at : \A j \in at : j <= i}}

\* Mutant: the evidence id is all that ties a request to its report.
Enabled_AnyReport(g, q) ==
  /\ q.request # "" /\ q.id # ""
  /\ q.approved /\ ~q.default_enabled /\ q.rollback = "complete"
  /\ q.id \in g.validated

\* A validated id always has a report in the gate's document.
Enabled(g, q) ==
  /\ q.request # "" /\ q.id # ""
  /\ q.approved /\ ~q.default_enabled /\ q.rollback = "complete"
  /\ q.id \in g.validated
  /\ \E r \in ReportFor(g.reports, q.id) :
       r.backend = q.backend /\ r.runtime = q.runtime /\ r.action = q.action

EnablementPolicy(g, requests) ==
  LET ok == /\ g.passed /\ requests # <<>>
            /\ \A i \in DOMAIN requests : Enabled(g, requests[i])
  IN [passed |-> ok, approved |-> IF ok THEN requests ELSE <<>>]

Enable(requests) ==
  /\ gate # NoDocument
  /\ enablement' = EnablementPolicy(gate, requests)
  /\ UNCHANGED <<host, evidence, gate, audit, executed, caps, adopted, matrix>>

----------------------------------------------------------------------------
\* policy_guardrails_block_operator_audit_records

\* A rollback is written down and revokes nothing.
Audit(operation, operator) ==
  /\ enablement.passed /\ operator # ""
  /\ audit' = [operation |-> operation, operator |-> operator, of |-> enablement.approved]
  /\ UNCHANGED <<host, evidence, gate, enablement, executed, caps, adopted, matrix>>

----------------------------------------------------------------------------
\* evaluate_policy_guardrails_local_seccomp_execution_gate, and its tool

\* The first approved enablement for this evidence, if any.
MatchingEnablement(p, id) ==
  LET Matches(q) == /\ q.id = id /\ q.backend = "seccomp" /\ q.runtime = "local"
                    /\ q.action = "file_read" /\ ~q.default_enabled
      at == {i \in DOMAIN p.approved : Matches(p.approved[i])}
  IN {p.approved[i] : i \in {i \in at : \A j \in at : i <= j}}

(* The tool looks at the host again before it installs the filter; a       *)
(* refusal, or a host that lost seccomp, leaves everything as it is.       *)
Execute(id) ==
  /\ enablement # NoDocument
  /\ enablement.passed /\ id # ""
  /\ host.seccomp
  /\ \E q \in MatchingEnablement(enablement, id) : executed' = [using |-> q, on |-> host]
  /\ UNCHANGED <<host, evidence, gate, enablement, audit, caps, adopted, matrix>>

----------------------------------------------------------------------------
\* The policy engine's own capabilities

DetectCapabilities ==
  /\ caps' = Detect(host.lsm, host.seccomp) /\ adopted' = {}
  /\ UNCHANGED <<host, evidence, gate, enablement, audit, executed, matrix>>

Adopt(r) ==
  LET e == EvidenceOf(r) IN
  /\ EvidenceAccepted(caps, e)
  /\ caps' = WithValidatedBlockPrototype(caps, e)
  /\ adopted' = adopted \cup {e}
  /\ UNCHANGED <<host, evidence, gate, enablement, audit, executed, matrix>>

----------------------------------------------------------------------------
\* The evidence gates of the guardrail matrix.  named: every identifier the
\* gate asks for is there, the handler's kind included; shown: every boolean
\* it asks for is true; subjects: the host event subjects

Strong == {"gvisor", "kata", "firecracker"}

AdapterEvidence(r) ==
  r.id # "" /\ r.source = "live_host" /\ r.named /\ r.shown /\ ~(r.guest /\ r.runtime \in Strong)

GvisorEvidence(r) ==
  /\ r.id # "" /\ r.source = "live_host" /\ r.named /\ r.shown /\ ~r.guest
  /\ {"runsc", "sentry", "gofer"} \subseteq r.subjects

KubernetesEvidence(r) ==
  r.id # "" /\ r.source = "live_host" /\ r.named /\ r.shown /\ ~r.guest

KataEvidence(r) ==
  /\ r.id # "" /\ r.source = "live_host" /\ r.named /\ r.shown /\ ~r.guest
  /\ {"shim", "kata"} \subseteq r.subjects
  /\ {"qemu", "vmm"} \cap r.subjects # {}

\* One bad report and no evidence of the kind is lent.
EvidenceGate(kind, reports) ==
  LET Good(r) == CASE kind = "adapter" -> AdapterEvidence(r)
                   [] kind = "gvisor" -> GvisorEvidence(r)
                   [] kind = "kubernetes" -> KubernetesEvidence(r)
                   [] kind = "kata" -> KataEvidence(r)
      ok == reports # <<>> /\ \A i \in DOMAIN reports : Good(reports[i])
  IN [passed |-> ok, validated |-> IF ok THEN ToSet(reports) ELSE {}]

\* Evidence of this kind may be left out altogether.
OptionalGate(kind, reports) ==
  IF reports = <<>> THEN [passed |-> TRUE, validated |-> {}] ELSE EvidenceGate(kind, reports)

Gates(b) ==
  [adapter |-> EvidenceGate("adapter", b.adapter),
   gvisor |-> OptionalGate("gvisor", b.gvisor),
   kubernetes |-> OptionalGate("kubernetes", b.kubernetes),
   kata |-> OptionalGate("kata", b.kata)]

\* A list of block reports alone: no runtime evidence, and none is missing.
NoRuntimeEvidence ==
  [k \in {"adapter", "gvisor", "kubernetes", "kata"} |-> [passed |-> TRUE, validated |-> {}]]

----------------------------------------------------------------------------
\* evaluate_runtime_guardrails_runtime_guardrail_matrix_with_runtime_metadata

\* Mutant: the measurements of a report are not looked at again.
LocalBlockEvidence_Unmeasured(reports, backend) ==
  {r \in ToSet(reports) :
     /\ r.source = "live_host" /\ r.runtime = "local" /\ r.action = "file_read"
     /\ r.backend = backend /\ r.prevention
     /\ IF backend = "seccomp" THEN r.seccomp ELSE r.lsm}

\* runtime_guardrails_validated_local_block_evidence: the gate's tests, again
LocalBlockEvidence(reports, backend) ==
  {r \in ToSet(reports) :
     /\ r.source = "live_host" /\ r.runtime = "local" /\ r.action = "file_read"
     /\ r.backend = backend /\ r.prevention /\ r.measured /\ r.window = 0
     /\ IF backend = "seccomp" THEN r.seccomp ELSE r.lsm}

BlockStatus(runtime, reports, backend) ==
  CASE runtime = "local" -> IF LocalBlockEvidence(reports, backend) = {}
                            THEN "requires_evidence" ELSE "prototype_validated"
    [] runtime \in {"docker", "containerd", "kubernetes"} -> "requires_evidence"
    [] runtime = "gvisor" -> "metadata_only"
    [] OTHER -> "boundary_only"

\* The runtime evidence an entry cites; a gate that failed lends none.
Cited(gates, runtime) ==
  {r \in gates.adapter.validated : r.runtime = runtime}
    \cup (IF runtime \in {"gvisor", "kubernetes", "kata"} THEN gates[runtime].validated ELSE {})

GuardrailMatrix(reports, gates) ==
  [passed |-> TRUE, of |-> reports,
   runtimes |-> [runtime \in {"local", "docker", "containerd", "kubernetes"} \cup Strong |->
     [block |-> [b \in {"seccomp", "bpf_lsm"} |-> BlockStatus(runtime, reports, b)],
      cites |-> IF runtime = "local" THEN {} ELSE Cited(gates, runtime)]]]

AllPassed(gates) == \A k \in DOMAIN gates : gates[k].passed

(* evaluate_visibility_report_gate: the last report of each required       *)
(* runtime; and no Kata report speaks for the guest.                       *)
VisibilityGate(reports) ==
  \A t \in Targets :
    LET at == {i \in DOMAIN reports : reports[i].target = t} IN
    /\ at # {}
    /\ LET r == reports[CHOOSE i \in at : \A j \in at : j <= i] IN
       r.live /\ r.named /\ ~(r.guest /\ r.kata)

(* The matrix tool: a list of block reports, or all kinds of evidence, and *)
(* a matrix only if every gate passes.                                     *)
MatrixTool(b) ==
  /\ matrix' = IF b.form = "list" THEN GuardrailMatrix(b.block, NoRuntimeEvidence)
               ELSE IF AllPassed(Gates(b)) THEN GuardrailMatrix(b.block, Gates(b))
               ELSE matrix
  /\ UNCHANGED <<host, evidence, gate, enablement, audit, executed, caps, adopted>>

(* evaluate_runtime_guardrails_live_runtime_evidence_bundle: besides the   *)
(* gates, the artifacts of a whole validation of the host, restore         *)
(* included, and visibility reports that refer to them.                    *)
LiveEvidenceBundle(b) ==
  /\ b.form = "bundle"
  /\ matrix' = IF /\ b.artifacts
                  /\ VisibilityGate(b.visibility)
                  /\ \A i \in DOMAIN b.visibility : b.visibility[i].here
                  /\ AllPassed(Gates(b))
               THEN GuardrailMatrix(b.block, Gates(b)) ELSE NoDocument
  /\ UNCHANGED <<host, evidence, gate, enablement, audit, executed, caps, adopted>>

----------------------------------------------------------------------------
\* The host is booted with another kernel or configuration; files stay.
Reboot ==
  /\ host' \in Hosts
  /\ UNCHANGED <<evidence, gate, enablement, audit, executed, caps, adopted, matrix>>

Init ==
  /\ host \in Hosts
  /\ evidence = {} /\ gate = NoDocument /\ enablement = NoDocument /\ audit = NoDocument
  /\ executed = NoDocument /\ matrix = NoDocument
  /\ caps = Detect(host.lsm, host.seccomp) /\ adopted = {}

Known == evidence \cup Reports

Next ==
  \/ SeccompPrototype \/ BpfLsmPrototype \/ Reboot \/ DetectCapabilities
  \/ \E reports \in Lists(Known, MaxReports) : Validate(reports)
  \/ \E requests \in Lists(Requests, MaxRequests) : Enable(requests)
  \/ \E operation \in {"approve", "rollback"}, operator \in {"", "operator"} : Audit(operation, operator)
  \/ \E r \in Known : Execute(r.id) \/ Adopt(r)
  \/ \E b \in Bundles : MatrixTool(b) \/ LiveEvidenceBundle(b)

Spec == Init /\ [][Next]_vars

----------------------------------------------------------------------------
(* Where every document comes from: which tool printed it, from what, and  *)
(* what a policy engine can have adopted.                                  *)
TypeOK ==
  /\ host \in Hosts
  /\ evidence \subseteq {LiveReport("live-seccomp", "seccomp"), LiveReport("live-bpf-lsm", "bpf_lsm")}
  /\ gate # NoDocument => \E reports \in Lists(Known, MaxReports) : gate = ValidationGate(reports)
  /\ enablement # NoDocument =>
       /\ enablement.passed \in BOOLEAN
       /\ \A i \in DOMAIN enablement.approved : enablement.approved[i] \in Requests
  /\ audit # NoDocument => audit.operation \in {"approve", "rollback"} /\ audit.operator = "operator"
  /\ executed # NoDocument => executed.using \in Requests /\ executed.on \in Hosts
  /\ caps.runtime = "local" /\ caps.backend \in {"none", "seccomp", "bpf_lsm"}
  /\ caps.actions \subseteq {"exec", "file_read", "credential_read", "file_write", "network_connect"}
  /\ adopted \subseteq {EvidenceOf(r) : r \in Known}
  /\ matrix # NoDocument =>
       \E b \in Bundles : \E gates \in {NoRuntimeEvidence, Gates(b)} :
         matrix = GuardrailMatrix(b.block, gates)

\* What a report has to show for the local, opt-in file-read block.
Proves(r, backend) ==
  /\ r.source = "live_host" /\ r.backend = backend
  /\ r.runtime = "local" /\ r.action = "file_read"
  /\ r.prevention /\ r.measured /\ r.window = 0

(* Whenever the execution tool installed its filter, an operator had       *)
(* approved that very enablement, opt-in and with a complete rollback      *)
(* plan; a live report under the evidence id it names showed that seccomp  *)
(* stops a local read before it happens; and this boot has seccomp.  Gate, *)
(* policy and request may each be of another time, and evidence ids may    *)
(* repeat.                                                                 *)
ExecutedIsProven ==
  executed # NoDocument =>
    LET q == executed.using IN
    /\ q.approved /\ ~q.default_enabled /\ q.rollback = "complete"
    /\ \E r \in Known : r.id = q.id /\ Proves(r, "seccomp") /\ r.seccomp
    /\ executed.on.seccomp

(* A policy engine that turns a block into a prevention, under whichever   *)
(* fallback, adopted live evidence without a side-effect window for that   *)
(* action on its runtime, and some for the backend it names.  Where only   *)
(* one kind of backend has evidence they are the same.                     *)
BlockAsProven ==
  \A type \in WriteTypes \cup {"exec", "file_open", "credential_read", "network_connect", "process_exit"},
     fallback \in Decisions :
    LET d == Resolve(caps, "block", fallback, caps.runtime, type) IN
    /\ d.prevention <=> d.effective = "block"
    /\ d.effective = "block" =>
         /\ \E e \in adopted : /\ ActionOf(e.type) = ActionOf(type) /\ e.runtime = caps.runtime
                               /\ e.source = "live_host" /\ e.prevention /\ e.window = 0
         /\ \E e \in adopted : e.backend = d.backend
         /\ (\A e, f \in adopted : e.backend = f.backend) =>
              \E e \in adopted : e.backend = d.backend /\ ActionOf(e.type) = ActionOf(type)

(* A guardrail matrix claims no more than the gates allow: the runtime     *)
(* evidence it cites is live and claims nothing about the inside of a      *)
(* strongly isolated guest, and a backend it calls validated has a report  *)
(* that proves it and that, under an evidence id, the validation gate      *)
(* passes too: the two lists of tests agree.                               *)
MatrixIsBacked ==
  matrix # NoDocument =>
    /\ \A runtime \in DOMAIN matrix.runtimes : \A r \in matrix.runtimes[runtime].cites :
         /\ r.source = "live_host" /\ r.runtime = runtime
         /\ r.guest => runtime \notin Strong
    /\ \A b \in {"seccomp", "bpf_lsm"}, runtime \in DOMAIN matrix.runtimes :
         matrix.runtimes[runtime].block[b] = "prototype_validated" =>
           /\ runtime = "local"
           /\ \E r \in ToSet(matrix.of) :
                Proves(r, b) /\ (r.id # "" => ValidationGate(<<r>>).passed)
============================================================================
