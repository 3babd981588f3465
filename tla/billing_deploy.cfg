CONSTANTS
  Releases = {r1, r2, r3}
  None = None
  MaxTxn = 3
  MaxFaults = 3
SPECIFICATION Spec
INVARIANTS SettledIsUniform Quiescence Custody
PROPERTIES ImplementsAtomicRelease RecoveryEnds
CHECK_DEADLOCK FALSE
