SPECIFICATION Spec
CONSTANTS
  Process = {w1, w2}
  WorkerId = {w1, w2}
  w1 = w1
  w2 = w2
  WorkerOf <- OwnId
  LeaseTicks = 1
  MaxLockWait = 0
  MaxAttempts = 2
  MaxRevisions = 0
  MaxCrashes = 1
  IdempotentExecutor = TRUE
  None = None
SYMMETRY Symmetry
INVARIANT AttemptsAreExclusive
PROPERTIES CommittedIsPermanent ImplementsLifecycle
