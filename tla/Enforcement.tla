----------------------------- MODULE Enforcement -----------------------------
(***************************************************************************)
(* The decisions of the policy engine: which rule an event breaks, whether *)
(* a requested block can be carried out before the operation, and what the *)
(* decision becomes when it cannot.  Pure operators; the modules that      *)
(* extend this one give them a life.                                       *)
(***************************************************************************)

Decisions == {"allow", "notify", "block", "kill", "review"}
WriteTypes == {"file_create", "file_truncate", "file_unlink", "file_rename"}

\* EnforcementAction::from_event_type
ActionOf(type) ==
  CASE type = "exec" -> "exec"
    [] type = "file_open" -> "file_read"
    [] type = "credential_read" -> "credential_read"
    [] type \in WriteTypes -> "file_write"
    [] type = "network_connect" -> "network_connect"
    [] OTHER -> "other"

----------------------------------------------------------------------------
\* PolicyRuntimeCapabilities: what this host can do, and the one backend and
\* the actions for which prevention was proven

Capabilities(lsm, seccomp, runtime) ==
  [lsm |-> lsm, seccomp |-> seccomp, runtime |-> runtime, backend |-> "none", actions |-> {}]

\* PolicyRuntimeCapabilities::detect: nothing is proven by looking at the host.
Detect(lsm, seccomp) == Capabilities(lsm, seccomp, "local")

\* runtime_supports_host_bpf_lsm and runtime_supports_seccomp_prototype
Supports(backend, runtime) ==
  \/ backend = "bpf_lsm" /\ runtime \in {"local", "docker", "containerd", "kubernetes"}
  \/ backend = "seccomp" /\ runtime = "local"

BackendAvailableForRuntime(c, backend, runtime) ==
  /\ (backend = "bpf_lsm" /\ c.lsm) \/ (backend = "seccomp" /\ c.seccomp)
  /\ Supports(backend, runtime)

CanPreoperationBlock(c, runtime, type) ==
  BackendAvailableForRuntime(c, c.backend, runtime) /\ ActionOf(type) \in c.actions

\* The reasons with_validated_block_prototype refuses evidence for.
EvidenceAccepted(c, e) ==
  /\ e.source = "live_host"
  /\ BackendAvailableForRuntime(c, e.backend, e.runtime)
  /\ c.runtime = e.runtime
  /\ e.prevention /\ e.measured /\ e.window = 0
  /\ ActionOf(e.type) # "other"

\* Mutant: the evidence is taken for the backend at hand, whatever its action.
WithValidatedBlockPrototype_AllActions(c, e) ==
  [c EXCEPT !.backend = e.backend, !.actions = @ \cup {ActionOf(e.type), "exec"}]

(* Accepted evidence names the backend, replacing the one before it, and   *)
(* adds its action to those already proven, by whichever backend.          *)
WithValidatedBlockPrototype(c, e) ==
  [c EXCEPT !.backend = e.backend, !.actions = @ \cup {ActionOf(e.type)}]

----------------------------------------------------------------------------
\* EnforcementCapabilityMatrix::resolve

BackendFor(decision) ==
  CASE decision = "allow" -> "audit_only"
    [] decision = "kill"  -> "signal_kill"
    [] OTHER -> "tracepoint_notify"

TimingFor(decision) ==
  CASE decision = "allow" -> "audit_only"
    [] decision = "kill"  -> "post_event_containment"
    [] OTHER -> "post_event_feedback"

SafeNonBlockFallback(fallback) == IF fallback = "block" THEN "notify" ELSE fallback

Resolved(requested, effective, backend, timing) ==
  [requested |-> requested, effective |-> effective, backend |-> backend,
   timing |-> timing, prevention |-> timing = "pre_operation",
   downgraded |-> requested # effective]

(* A block is carried out before the operation where that was proven, and  *)
(* is a recorded downgrade to the fallback everywhere else.                *)
Resolve(c, requested, fallback, runtime, type) ==
  IF requested # "block"
  THEN Resolved(requested, requested, BackendFor(requested), TimingFor(requested))
  ELSE IF CanPreoperationBlock(c, runtime, type)
  THEN Resolved("block", "block", c.backend, "pre_operation")
  ELSE LET f == SafeNonBlockFallback(fallback)
       IN Resolved("block", f, BackendFor(f), TimingFor(f))

----------------------------------------------------------------------------
\* Policy::match_event_rule and Policy::evaluate_event

\* Which list of the policy an event of this type is held against.
ListFor(type) ==
  CASE type = "file_open" -> "workspace.allow_read"
    [] type \in WriteTypes -> "workspace.allow_write"
    [] type = "network_connect" -> "network.allow_egress"
    [] type = "exec" -> "commands.deny"
    [] type = "credential_read" -> "credentials.deny_read"
    [] OTHER -> "none"

(* An empty allow list allows everything; a deny list names what it        *)
(* denies.  matches says whether the event matches an entry of its list.   *)
BreaksRule(policy, type, matches) ==
  \/ type = "credential_read"
  \/ type = "exec" /\ matches
  \/ /\ ListFor(type) \in {"workspace.allow_read", "workspace.allow_write", "network.allow_egress"}
     /\ ListFor(type) \in policy.lists /\ ~matches

EvaluateEvent(policy, c, type, matches) ==
  IF BreaksRule(policy, type, matches)
  THEN Resolve(c, policy.requested, policy.fallback, c.runtime, type)
  ELSE Resolved("allow", "allow", "audit_only", "audit_only")

\* any_preoperation_block_available and Policy::startup_downgrade
StartupDowngrade(policy, c) ==
  /\ policy.requested = "block"
  /\ ~(BackendAvailableForRuntime(c, c.backend, c.runtime) /\ c.actions # {})
============================================================================
