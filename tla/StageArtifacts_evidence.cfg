SPECIFICATION Spec
CONSTANTS
  w1 = w1
  w2 = w2
  s1 = s1
  s2 = s2
  Worker = {w1, w2}
  Source = {s1, s2}
  Publishable = {s1}
  MaxAttempts = 2
  MaxCrashes = 1
  Adder = Adder
  None = None
SYMMETRY Symmetry
CHECK_DEADLOCK FALSE
INVARIANT EvidenceIsOfItsSource
