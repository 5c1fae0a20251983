SPECIFICATION Spec
CONSTANTS
  Calls <- FourCalls
  Op <- StopOps
  MaxOpen = 2
  Acts = {"gate", "metadata"}
  SameMs = TRUE
  Faults = {"commit", "reread"}
  None = None
INVARIANTS TypeOK SlotOwned TurnClosedOnce IdleWhenQuiet
CHECK_DEADLOCK FALSE
