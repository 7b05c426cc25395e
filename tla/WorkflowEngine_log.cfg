SPECIFICATION Spec
CONSTANTS
  Callers = {c1, c2}
  MaxVersion = 4
  MaxCommands = 1
  MaxDelivered = 0
  MaxCrashes = 0
  NoWorkflow = NoWorkflow
CHECK_DEADLOCK FALSE
INVARIANT LogIsComplete
