\* Runs cut short while they download.
SPECIFICATION FairSpec
CONSTANTS
    Fleets = {1, 2}
    Contexts = {1, 2}
    Chunks = 2
    Header = 1
    Cuda = FALSE
    KillAt <- Downloads
    EarlyEnd = FALSE
    MaxFaults = 2
INVARIANTS ScriptsMatchPlan ModelIsWhole
PROPERTY SetupSucceeds
