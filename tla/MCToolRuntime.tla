---------------------------- MODULE MCToolRuntime ----------------------------
EXTENDS ToolRuntime, TLC

CONSTANTS p1, p2, c1, c2, c3

\* Two calls in one process, one in another.
TwoAndOne == c1 :> p1 @@ c2 :> p1 @@ c3 :> p2

Symmetry == Permutations({c1, c2}) \cup Permutations(Output)
=============================================================================
