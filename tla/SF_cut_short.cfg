\* Runs cut short anywhere.
SPECIFICATION Spec
CONSTANTS
    Fleets = {1, 2}
    Contexts = {1}
    Chunks = 3
    Header = 2
    Cuda = TRUE
    KillAt <- Anywhere
    EarlyEnd = TRUE
    MaxFaults = 2
INVARIANTS ServiceOnlyIfRunnable PlanImpliesScripts
