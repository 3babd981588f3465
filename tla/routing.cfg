SPECIFICATION Spec
CONSTANTS
  Chains = {r1, r2}
  Candidates <- MCCandidates
  Kinds = {"direct", "failover", "cascade"}
  Guarded = {r1}
  Deadline = 2
  OwnTimeout = 2
  QueueTimeout = 1
  MaxBackoff = 1
  MaxAttempts = 2
  GuardAttempts = 2
  MaxCost = 1
  Budget = 1
INVARIANTS  BudgetOvershoot  StopsAfterCliTimeout
