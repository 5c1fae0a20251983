SPECIFICATION DraftSpec
CONSTANTS
  Calls <- FiveCalls
  Op <- StopNowOps
  MaxOpen = 1
  Acts = {"tool"}
  SameMs = FALSE
  Faults = {"draft"}
  None = None
PROPERTIES DraftBecomesOneTurn YieldsToRequestOnly
CHECK_DEADLOCK FALSE
