\* A run killed between the keys and `up`.
SPECIFICATION Spec
CONSTANTS
    Fleets = {1, 2}
    Contexts = {1, 2}
    Chunks = 2
    Header = 1
    Cuda = FALSE
    KillAt <- Downloads
    EarlyEnd = FALSE
    MaxFaults = 1
INVARIANT SetupPlansForAll
