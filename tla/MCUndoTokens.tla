---------------------------- MODULE MCUndoTokens ----------------------------
(* Instances of UndoTokens for TLC: one or two agents, two or three values. *)
EXTENDS UndoTokens, TLC

CONSTANTS a1, a2, v1, v2, v3

\* Agents are interchangeable and so are values: neither is ever compared
\* with a constant of the specification.
Alike == Permutations(Agent) \cup Permutations(Value)
=============================================================================
