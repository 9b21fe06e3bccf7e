\* One agent whose context is in a second file and its key in the environment.
SPECIFICATION FairSpec
CONSTANTS
  Clients <- TwoFiles
  Contexts <- TwoSizes
  Slots <- TwoSizes
  Fallback = 2
  MaxKey = 2
  KillJoin = FALSE
  MaxChanges = 3
INVARIANTS CheckIsSound PlannedIsServed DriftMeansEdited
PROPERTY FixesConverge
CHECK_DEADLOCK FALSE
