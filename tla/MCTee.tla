------------------------------- MODULE MCTee --------------------------------
(* Instances of module Tee for TLC. *)
EXTENDS Tee, TLC

CONSTANTS c1, c2

\* The second branch is routed no buffer, as one of a selector that is not chosen.
SecondNone == [b \in Branches |-> IF b = 2 THEN {} ELSE 1 .. Length]

Symmetry == Permutations(Callers)
=============================================================================
