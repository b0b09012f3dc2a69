-------------------------- MODULE MCHashChainStore --------------------------
(* The timeline store with payloads as model values. *)
EXTENDS HashChainStore, TLC

CONSTANTS small, large
MCPayloads == {small, large}
MCLargePayloads == {large}
=============================================================================
