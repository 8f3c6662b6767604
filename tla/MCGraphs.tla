------------------------------ MODULE MCGraphs ------------------------------
(***************************************************************************)
(* DependencyGraphs on a few names, which are all alike.                   *)
(***************************************************************************)
EXTENDS DependencyGraphs, TLC

CONSTANTS a, b, c  \* names

Symmetry == Permutations(Node)

=============================================================================
