SPECIFICATION FairSpec
CONSTANTS
  Calls = {c1, c2}
  Ids = {i1}
  Rows = {q1}
  Keys = {k1}
  Deposits = {d1}
  Amounts = {2}
  Estimates = {1}
  Costs = {0, 2}
  MaxAttempts = 2
  TtlAttempts = 1
  Enforcement = {TRUE}
  ReconcileEnabled = TRUE
  None = None
INVARIANTS HoldsBacked CompletedIsCharged RequestChargedOnce
PROPERTIES SettledIsFinal ImplementsSettlement FundsNotFrozen
