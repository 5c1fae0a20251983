SPECIFICATION DraftFairSpec
CONSTANTS
  Calls <- FiveCalls
  Op <- SendNowOps
  MaxOpen = 1
  Acts = {}
  SameMs = FALSE
  Faults = {}
  None = None
PROPERTIES EveryDraftSent
CHECK_DEADLOCK FALSE
