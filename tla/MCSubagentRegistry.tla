-------------------------- MODULE MCSubagentRegistry --------------------------
(* Small instances of SubagentRegistry.                                      *)
EXTENDS SubagentRegistry, TLC

\* Agents and callers are interchangeable: nothing orders their names.
Symmetry == Permutations(Agent) \cup Permutations(Caller)
=============================================================================
