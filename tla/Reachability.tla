---------------------------- MODULE Reachability ----------------------------
(***************************************************************************)
(* Which members of a set the edges of a graph lead to.  Both the graphs   *)
(* of runs and the graph of imports are judged by it.                      *)
(***************************************************************************)

\* A set that the edges do not leave, once x is left.
Absorbs(part, edgeSet, x) == \A e \in edgeSet : e[1] \in part \cup {x} => e[2] \in part

\* The members of S that a path from x, of one edge or more, leads to: those that
\* every such set has.
Reached(edgeSet, S, x) ==
    LET absorbing == {part \in SUBSET S : Absorbs(part, edgeSet, x)}
    IN  {y \in S : \A part \in absorbing : y \in part}
=============================================================================
