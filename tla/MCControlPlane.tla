--------------------------- MODULE MCControlPlane ---------------------------
(* Instances of ControlPlane for TLC. *)
EXTENDS ControlPlane, TLC

\* Requests and the uuids of one table are interchangeable.
RowSymmetry ==
    Permutations(Requests) \cup Permutations(AgentIds)
      \cup Permutations(VersionIds) \cup Permutations(ToolIds)
      \cup Permutations(Names) \cup Permutations(Values)
=============================================================================
