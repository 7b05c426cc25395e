SPECIFICATION Spec
CONSTANTS
  Callers = {c1, c2}
  MaxVersion = 11
  MaxCommands = 2
  MaxDelivered = 2
  MaxCrashes = 1
  NoWorkflow = NoWorkflow
SYMMETRY Symmetry
CHECK_DEADLOCK FALSE
INVARIANTS LogIsAPrefix ReplayRebuildsState DeliveredInOrder
PROPERTIES ImplementsLifecycle
