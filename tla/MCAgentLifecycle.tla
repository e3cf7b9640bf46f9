------------------------- MODULE MCAgentLifecycle --------------------------
(***************************************************************************)
(* AgentLifecycle for TLC: the clients are interchangeable.                *)
(***************************************************************************)
EXTENDS AgentLifecycle, TLC

ClientSymmetry == Permutations(Clients)
=============================================================================
