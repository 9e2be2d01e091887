\* Two crashes or database errors of a recurring campaign; no handlers.
CONSTANTS
    Procs = {p1, p2}
    Handlers = {h1}
    N = 2
    MaxAttempts = 2
    Ops = {}
    Recurring = TRUE
    Scheduled = FALSE
    HasWindow = FALSE
    MayLapse = FALSE
    MaxFaults = 2
    MaxOps = 0
SPECIFICATION FairSpec
INVARIANTS
    ActiveLeaseExcludesOthers
    AtMostOneNextOccurrence
PROPERTIES
    PendingIsSettled
CHECK_DEADLOCK FALSE
