\* one work item; two hours are enough for a decision to lapse
SPECIFICATION Spec
CONSTANTS
  Tales <- MCTales
  MaxHour = 1
  StructuralTtl = 1
  DecisionTtl = 1
INVARIANT AdmittedSawFinalBytes ExemptionIsForTheseBytes  AttachedIsAdmissible
CHECK_DEADLOCK FALSE
