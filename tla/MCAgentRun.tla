----------------------------- MODULE MCAgentRun -----------------------------
(* The symmetry of the runs of AgentRun: its callers are alike. *)
EXTENDS AgentRun, TLC

Alike == Permutations(Callers)
=============================================================================
