--------------------------- MODULE MCScaleMachine ---------------------------
(* Instances of ScaleMachine for TLC. *)
EXTENDS ScaleMachine, TLC

CONSTANTS b1, b2, n1, e1, e2

\* Executions are interchangeable, and so are imported backends.
Symmetry == Permutations(Exec) \cup Permutations(Initial)
=============================================================================
