SPECIFICATION Spec
CONSTANTS
  q1 = q1
  q2 = q2
  q3 = q3
  paper = paper
  Id = {q1, q2, q3, paper}
  Terminal = paper
  Plan <- OnePlan
  Opening <- OnePlan
  Outcome = {"completed"}
  Driver = {d1, d2}
  MaxVersion = 5
  MaxDecisions = 1
  MaxCrashes = 0
  None = None
SYMMETRY Symmetry
INVARIANT BuiltOnCurrentReports
