------------------------- MODULE MCQuestionWorkflow -------------------------
EXTENDS QuestionWorkflow, TLC

\* Every process is started with a worker id of its own.
OwnId == [p \in Process |-> p]

Symmetry == Permutations(Process)
=============================================================================
