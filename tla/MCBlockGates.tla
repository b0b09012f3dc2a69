---------------------------- MODULE MCBlockGates ----------------------------
(* Reports that fall short in one way each, one that reuses the evidence   *)
(* id of the seccomp prototype for another action, and requests and        *)
(* bundles around them.                                                    *)
EXTENDS BlockGates

Good == LiveReport("live-seccomp", "seccomp")
MCReports ==
  {[Good EXCEPT !.id = "short", !.window = 5],
   [LiveReport("live-seccomp", "bpf_lsm") EXCEPT !.action = "exec"],
   [LiveReport("docker", "bpf_lsm") EXCEPT !.runtime = "docker"]}

Request(id, backend, action) ==
  [request |-> "r", id |-> id, backend |-> backend, runtime |-> "local", action |-> action,
   approved |-> TRUE, default_enabled |-> FALSE, rollback |-> "complete"]
Asked == Request("live-seccomp", "seccomp", "file_read")
MCRequests ==
  {Asked, Request("live-seccomp", "bpf_lsm", "exec"), Request("short", "seccomp", "file_read"),
   [Asked EXCEPT !.approved = FALSE], [Asked EXCEPT !.default_enabled = TRUE],
   [Asked EXCEPT !.rollback = "partial"]}

Metadata(id, runtime, subjects) ==
  [id |-> id, source |-> "live_host", runtime |-> runtime, named |-> TRUE, shown |-> TRUE,
   guest |-> FALSE, subjects |-> subjects]
Gvisor == Metadata("g", "gvisor", {"runsc", "sentry", "gofer"})
Kubernetes == Metadata("k", "kubernetes", {})
Kata == Metadata("t", "kata", {"shim", "kata", "qemu"})
Docker == Metadata("d", "docker", {})
Visible(t) == [target |-> t, live |-> TRUE, named |-> TRUE, guest |-> FALSE,
               kata |-> t = "k3s_kata", here |-> TRUE]
Whole ==
  [form |-> "bundle", artifacts |-> TRUE, visibility |-> <<Visible("docker"), Visible("k3s_kata")>>,
   block |-> <<Good>>, adapter |-> <<Docker, Metadata("a", "kata", {})>>,
   gvisor |-> <<Gvisor>>, kubernetes |-> <<Kubernetes>>, kata |-> <<Kata>>]
MCBundles ==
  {Whole, [Whole EXCEPT !.form = "list"],
   [Whole EXCEPT !.block = <<[Good EXCEPT !.window = 5]>>],
   [Whole EXCEPT !.artifacts = FALSE],
   [Whole EXCEPT !.visibility = <<Visible("docker"), [Visible("k3s_kata") EXCEPT !.guest = TRUE]>>],
   [Whole EXCEPT !.adapter = <<[Docker EXCEPT !.guest = TRUE], [Kata EXCEPT !.guest = TRUE]>>],
   [Whole EXCEPT !.gvisor = <<>>, !.kata = <<[Kata EXCEPT !.subjects = {"shim", "kata"}]>>],
   [Whole EXCEPT !.kubernetes = <<[Kubernetes EXCEPT !.source = "fixture"]>>]}
MCHosts ==
  {[seccomp |-> TRUE, lsm |-> TRUE, loadable |-> TRUE],
   [seccomp |-> FALSE, lsm |-> TRUE, loadable |-> FALSE]}
============================================================================
