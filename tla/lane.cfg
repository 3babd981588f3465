SPECIFICATION FairSpec
CONSTANTS
  Requests = {r1, r2, r3}
  Models = {m1, m2}
  MaxConcurrency = 2
  Threshold = 2
  CliLane = TRUE
INVARIANTS PermitAccounting NoLostWakeup BreakerFollowsEvidence
 
