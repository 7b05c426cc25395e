--------------------------- MODULE MCSolveProblem ---------------------------
EXTENDS SolveProblem, TLC

Symmetry == Permutations(Jobs) \cup Permutations(Sources)
=============================================================================
