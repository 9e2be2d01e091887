\* Three calls of handlers, two at a time, against two workers whose leases
\* outlive their work, in a sending window that opens and closes; replies, which
\* erase leases, have a run of their own.
CONSTANTS
    Procs = {p1, p2}
    Handlers = {h1, h2}
    N = 2
    MaxAttempts = 2
    Ops = {"pause", "resume", "cancel"}
    Recurring = FALSE
    Scheduled = TRUE
    HasWindow = TRUE
    MayLapse = FALSE
    MaxFaults = 0
    MaxOps = 3
SPECIFICATION Spec
SYMMETRY Symmetry
VIEW View
INVARIANTS
    ActiveLeaseExcludesOthers
    FinishedCountsAgree
PROPERTIES
    AcceptedIsKept
CHECK_DEADLOCK FALSE
