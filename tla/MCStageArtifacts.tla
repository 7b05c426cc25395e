-------------------------- MODULE MCStageArtifacts --------------------------
EXTENDS StageArtifacts, TLC

Symmetry == Permutations(Worker)
=============================================================================
