--------------------------- MODULE MCAgentRuntime ---------------------------
(* Instances of AgentRuntime for TLC. *)
EXTENDS AgentRuntime, TLC

\* Callers are interchangeable: sound for the safety runs.
CallerSymmetry == Permutations(Callers)
=============================================================================
