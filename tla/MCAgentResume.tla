---------------------------- MODULE MCAgentResume ----------------------------
(* The agent driver with crashes on a small instance. *)
EXTENDS AgentResume, TLC

Symmetry == Permutations(Messages)
=============================================================================
