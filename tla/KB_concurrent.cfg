\* Two commands at a time, in two shells of the server machine.
SPECIFICATION Spec
CONSTANTS
    Devices = {1, 2}
    p1 = p1
    p2 = p2
    Procs = {p1, p2}
    Fleet = 1
    MaxKeys = 2
    Exclusive = FALSE
    Crashes = TRUE
SYMMETRY ProcSymmetry
INVARIANTS AttributionSound ServiceHasKeyFile
CHECK_DEADLOCK FALSE
