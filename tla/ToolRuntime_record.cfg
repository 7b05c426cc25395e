SPECIFICATION Spec
CONSTANTS
  p1 = p1
  p2 = p2
  c1 = c1
  c2 = c2
  c3 = c3
  Process = {p1, p2}
  Call = {c1, c2, c3}
  ProcessOf <- TwoAndOne
  Key = {k1, k2}
  Output = {o1, o2}
  LeaseTicks = 1
  HasTimeout = TRUE
  MaxFaults = 1
  None = None
SYMMETRY Symmetry
INVARIANTS StoredIsRecorded OneHandlerPerLease
PROPERTY CompletedIsImmutable
