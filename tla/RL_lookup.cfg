\* Three builds, the second the first that is new enough.
CONSTANTS
    MinBuild = 2
    MaxBuild = 3
SPECIFICATION LiveSpec
INVARIANTS OldOnlyUnlisted InstalledAsPlanned NeverBehindLatest
PROPERTY GetsThrough
CHECK_DEADLOCK FALSE
