SPECIFICATION ReversalSpec
CONSTANTS
  Callers = {t1}
  RefundKeys = {"a", "b", "c"}
  Original = 4
  RefundAmounts = {1, 2, 3}
 
PROPERTY HoldsUntouched
