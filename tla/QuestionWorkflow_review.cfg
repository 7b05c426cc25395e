SPECIFICATION Spec
CONSTANTS
  Process = {w1, w2}
  WorkerId = {w1, w2}
  w1 = w1
  w2 = w2
  WorkerOf <- OwnId
  LeaseTicks = 1
  MaxLockWait = 0
  MaxAttempts = 1
  MaxRevisions = 1
  MaxCrashes = 0
  IdempotentExecutor = FALSE
  None = None
SYMMETRY Symmetry
INVARIANT ApprovalReviewedItsCoding
