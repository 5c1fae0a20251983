SPECIFICATION Spec
CONSTANTS
  Calls <- SixCalls
  Op <- SerialOps
  MaxOpen = 1
  Acts = {"plan"}
  SameMs = TRUE
  Faults = {"commit", "revise"}
  None = None
INVARIANTS TurnsKeepApart PlanSettledOnce
CHECK_DEADLOCK FALSE
