SPECIFICATION Spec
CONSTANTS
  Calls <- FourCalls
  Op <- GateOps
  MaxOpen = 2
  Acts = {"gate", "plan", "crash"}
  SameMs = TRUE
  Faults = {"commit"}
  None = None
INVARIANTS GateHasRun TurnsKeepApart
CHECK_DEADLOCK FALSE
