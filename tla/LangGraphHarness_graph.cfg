SPECIFICATION Spec
CONSTANTS
  q1 = q1
  q2 = q2
  q3 = q3
  paper = paper
  Id = {q1, q2, q3, paper}
  Terminal = paper
  Plan <- Plans
  Opening <- Plans
  Outcome = {"completed", "blocked", "failed"}
  Listing <- Order
  MaxIterations = 3
  MaxDecisions = 2
  None = None
CHECK_DEADLOCK FALSE
INVARIANT EndsForAReason
PROPERTY DecisionsStand
