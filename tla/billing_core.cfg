SPECIFICATION Spec
CONSTANTS
  Calls = {c1, c2}
  Ids = {i1, i2}
  Rows = {q1, q2}
  Keys = {k1, k2}
  Deposits = {d1}
  Amounts = {1}
  Estimates = {1}
  Costs = {1}
  MaxAttempts = 1
  TtlAttempts = 1
  Enforcement = {TRUE, FALSE}
  ReconcileEnabled = FALSE
  None = None
INVARIANTS Books  HoldsCovered
SYMMETRY Symmetry
