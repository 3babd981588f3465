SPECIFICATION Spec
CONSTANTS
  Worlds <- MCWorlds
  Runs <- MCRuns
  Captured = 1
INVARIANTS   DraftIsConsistent AcceptedIsSound
CHECK_DEADLOCK FALSE
