SPECIFICATION Spec
CONSTANTS
  MaxCommands = 0
  Jobs = {j1}
  Sources = {s1, s2}
  MaxAttempts = 2
  MaxIterations = 1
  MaxWrites = 1
  NoSource = NoSource
  NoJob = NoJob
  MaxCalls = 2
  ResumeFrom = {}
  Reviews = {"approve"}
SYMMETRY Symmetry
CHECK_DEADLOCK FALSE
INVARIANT ArchivedBeforeNext
PROPERTIES OneResultPerAttempt SavedFilesStand
