\* Three real models on five laptops, every layout of three layers, cut files.
SPECIFICATION Spec
CONSTANTS
    GB = 10000
    DriverReserve = 10000
    IdleRam = 55000
    ComputeBuffer = 20660
    Overhead = 4160
    KvHead = 45
    KvWindow = 1
    Asks <- PlanAsks
    Machines <- Everything
    Catalogue <- Models
    Steps <- ReadSteps
    LocalRead = 32
    Drift <- Noise
INVARIANTS KvCovered VramRespected FitsNeverPages MoreNeverHurts
PROPERTIES ReadReaches OvercommitCaught
CHECK_DEADLOCK FALSE
