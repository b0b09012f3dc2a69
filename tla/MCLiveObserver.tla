--------------------------- MODULE MCLiveObserver ---------------------------
(***************************************************************************)
(* Three numbers, one of them the root's, for a map of two entries.        *)
(***************************************************************************)
EXTENDS LiveObserver, TLC

CONSTANTS p1, p2, p3

MCPids == {p1, p2, p3}
MCModes == {"managed", "attached"}
=============================================================================
