SPECIFICATION EvSpec
CONSTANTS
  Cap = 2
  MaxBytes = 2
  Wanted = 1
  Legacy = FALSE
  MaxCommits = 3
  MaxVersion = 4
INVARIANTS  EvidenceIsOfThisCode 
CHECK_DEADLOCK FALSE
