\* One command at a time, which may be killed; two planned laptops.
SPECIFICATION Spec
CONSTANTS
    Devices = {1, 2, 3}
    p1 = p1
    Procs = {p1}
    Fleet = 2
    MaxKeys = 3
    Exclusive = TRUE
    Crashes = TRUE
INVARIANTS ExitMeansSynced RevokedStays InvitesWork
PROPERTY LedgerKept
CHECK_DEADLOCK FALSE
