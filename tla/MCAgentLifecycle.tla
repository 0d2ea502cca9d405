-------------------------- MODULE MCAgentLifecycle --------------------------
(* Instances of AgentLifecycle for TLC: the ids are model values. *)
EXTENDS AgentLifecycle, TLC

AnyOrder == Permutations(Runs) \cup Permutations(Clients)
=============================================================================
