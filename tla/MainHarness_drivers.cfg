SPECIFICATION Spec
CONSTANTS
  q1 = q1
  q2 = q2
  q3 = q3
  paper = paper
  Id = {q1, q2, q3, paper}
  Terminal = paper
  Plan <- ThreePlans
  Opening <- OnePlan
  Outcome = {"completed", "blocked"}
  Driver = {d1, d2}
  MaxVersion = 5
  MaxDecisions = 1
  MaxCrashes = 1
  None = None
SYMMETRY Symmetry
INVARIANTS CopiesAreCurrent NothingIsStranded OrderIsLeast OnlySolvesFinish
PROPERTIES OrderLostByReplanOnly HistoryIsKept ImplementsRun
