SPECIFICATION Spec
CONSTANTS
  MaxCommands = 2
  Jobs = {j1}
  Sources = {s1}
  MaxAttempts = 1
  MaxIterations = 2
  MaxWrites = 0
  NoSource = NoSource
  NoJob = NoJob
  MaxCalls = 1
  ResumeFrom = {2}
  Reviews = {"revise"}
CHECK_DEADLOCK FALSE
PROPERTIES EveryCommandHeard
