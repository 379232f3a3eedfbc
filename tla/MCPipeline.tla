----------------------------- MODULE MCPipeline -----------------------------
(* Instances of module Pipeline for TLC. *)
EXTENDS Pipeline, TLC

CONSTANTS l1, l2, c1, c2

Symmetry == Permutations(Lines) \cup Permutations(Callers)

=============================================================================
