SPECIFICATION FairSpec
CONSTANTS
  Calls <- ThreeCalls
  Op <- CloseOps
  MaxOpen = 1
  Acts = {"text", "tool", "crash"}
  SameMs = TRUE
  Faults = {"commit"}
  None = None
PROPERTIES EveryTurnCloses SlotIsFreed
CHECK_DEADLOCK FALSE
