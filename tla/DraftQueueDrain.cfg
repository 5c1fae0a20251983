SPECIFICATION DraftSpec
CONSTANTS
  Calls <- FourCalls
  Op <- DraftsOps
  MaxOpen = 2
  Acts = {}
  SameMs = FALSE
  Faults = {"draft", "draft_late"}
  None = None
 
PROPERTIES OldestFirst
CHECK_DEADLOCK FALSE
