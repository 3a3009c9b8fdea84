--------------------------- MODULE MCRunExecution ---------------------------
(* RunExecution.tla for TLC: the symmetry of nodes that play the same part.  *)
EXTENDS RunExecution, TLC

Symmetry == Permutations(Node \ Waiter)
=============================================================================
