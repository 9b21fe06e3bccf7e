\* One agent that keeps its key in its file; joins are killed anywhere.
SPECIFICATION Spec
CONSTANTS
  Clients <- OneAgent
  Contexts <- TwoSizes
  Slots <- TwoSizes
  Fallback = 2
  MaxKey = 2
  KillJoin = TRUE
  MaxChanges = 4
INVARIANTS CheckIsSound CheckIsComplete
CHECK_DEADLOCK FALSE
