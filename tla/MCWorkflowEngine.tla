-------------------------- MODULE MCWorkflowEngine --------------------------
EXTENDS WorkflowEngine, TLC

Symmetry == Permutations(Callers)
=============================================================================
