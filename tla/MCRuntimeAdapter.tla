-------------------------- MODULE MCRuntimeAdapter --------------------------
(***************************************************************************)
(* Two workloads, both marked or one by its sandbox only, for a seen set   *)
(* that holds one of them or both.                                         *)
(***************************************************************************)
EXTENDS RuntimeAdapter, TLC

MCIds == 1..2
BothMarked == (1 :> "own") @@ (2 :> "own")
OneInherits == (1 :> "own") @@ (2 :> "sandbox")

MCSetups ==
  [backend : {"docker"}, seen_capacity : {1, 2}, mark : {BothMarked}, elsewhere : {{}}]
    \cup [backend : {"kubernetes"}, seen_capacity : {2}, mark : {BothMarked},
          elsewhere : {{}, {2}}]
    \cup [backend : {"containerd", "k3s", "once"}, seen_capacity : {2}, mark : {OneInherits},
          elsewhere : {{}}]
=============================================================================
