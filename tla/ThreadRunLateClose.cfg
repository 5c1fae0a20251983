SPECIFICATION Spec
CONSTANTS
  Calls <- FourCalls
  Op <- LateCloseOps
  MaxOpen = 1
  Acts = {}
  SameMs = FALSE
  Faults = {}
  None = None
INVARIANTS OneLiveRun
CHECK_DEADLOCK FALSE
