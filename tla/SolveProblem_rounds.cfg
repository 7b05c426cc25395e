SPECIFICATION FairSpec
CONSTANTS
  MaxCommands = 2
  Jobs = {j1}
  Sources = {s1}
  MaxAttempts = 1
  MaxIterations = 2
  MaxWrites = 0
  NoSource = NoSource
  NoJob = NoJob
  MaxCalls = 1
  ResumeFrom = {2}
  Reviews = {"approve", "revise", "reject"}
CHECK_DEADLOCK FALSE
INVARIANTS TypeOK InstructionsOnce ArchivedBeforeNext ClosedByReview
PROPERTIES SuggestionsHeard InterruptStopsWork InterruptEndsTheCall
