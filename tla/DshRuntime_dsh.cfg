SPECIFICATION SessionSpec
CONSTANT MaxProposals = 2
CHECK_DEADLOCK FALSE
INVARIANTS WaiterIsKnown AnswersItsPrompt
PROPERTY ExitIsNoticed
