------------------------- MODULE MCClusterInstances -------------------------
(* An instance of ClusterInstances for TLC. *)
EXTENDS ClusterInstances, TLC

CONSTANTS i1, i2, i3, i4, i5, l1

\* The instances of the stack are interchangeable.
Symmetry == Permutations(Stack)
=============================================================================
