\* One command at a time, never killed; the service restarts for ever.
SPECIFICATION FairSpec
CONSTANTS
    Devices = {1, 2, 3}
    p1 = p1
    Procs = {p1}
    Fleet = 2
    MaxKeys = 2
    Exclusive = TRUE
    Crashes = FALSE
INVARIANT NoStaleKeyAtRest
PROPERTY RevocationTakesEffect
CHECK_DEADLOCK FALSE
