\* A reply is marked while the campaign runs.
CONSTANTS
    Procs = {p1, p2}
    Handlers = {h1}
    N = 2
    MaxAttempts = 2
    Ops = {"reply"}
    Recurring = TRUE
    Scheduled = FALSE
    HasWindow = FALSE
    MayLapse = FALSE
    MaxFaults = 1
    MaxOps = 1
SPECIFICATION Spec
SYMMETRY Symmetry
VIEW View
INVARIANTS
    ActiveLeaseExcludesOthers
CHECK_DEADLOCK FALSE
