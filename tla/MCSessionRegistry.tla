------------------------- MODULE MCSessionRegistry -------------------------
(***************************************************************************)
(* Instances of SessionRegistry for TLC.                                   *)
(***************************************************************************)
EXTENDS SessionRegistry, TLC

SessionSymmetry == Permutations(Sessions)

NamesSymmetry == Permutations(Sessions) \cup Permutations(Cgroups)
=============================================================================
