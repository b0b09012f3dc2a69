--------------------------- MODULE MCDaemonState ---------------------------
(* The daemon's state with two sessions that compete for a cgroup. *)
EXTENDS DaemonState, TLC

CONSTANTS s1, s2, c1, t1
MCSessions == {s1, s2}
MCCgroups == {c1}
MCTenants == {t1}
MCWindows == {0}
MCSymmetry == Permutations(MCSessions)
AllDisturbances == {"cancel", "degrade", "purge_error"}
NoDisturbances == {}
=============================================================================
