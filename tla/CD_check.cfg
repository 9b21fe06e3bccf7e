\* A server with at most one defect that may be started again once.
CONSTANTS
    Configs <- OneDefect
    Fronts <- AnyFront
    Requests <- AnyRequest
    MinFrames = 3
    Spread = 1
    MaxLines = 5
    MaxSeconds = 3
    Gap = 1
    Burst = 2
    MaxReply = 4
    MaxChanges = 3
SPECIFICATION LiveSpec
INVARIANTS NotForever StreamNotBlamed HeldIsCaught PassMeansUsable
PROPERTIES BlamesACause UsableMeansPass CheckEnds
CHECK_DEADLOCK FALSE
