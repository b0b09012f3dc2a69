--------------------------- MODULE MCDaemonServer ---------------------------
(* The daemon's tasks: adapters and clients as model values. *)
EXTENDS DaemonServer, TLC

CONSTANTS a1, a2, k1, k2
OneAdapter == {a1}
TwoAdapters == {a1, a2}
OneClient == {k1}
TwoClients == {k1, k2}
MCSymmetry == Permutations(TwoAdapters) \cup Permutations(TwoClients)
=============================================================================
