\* Two processes whose leases may run out, every handler, one fault.
CONSTANTS
    Procs = {p1, p2}
    Handlers = {h1}
    N = 1
    MaxAttempts = 2
    Ops = {"pause", "resume", "cancel", "reply"}
    Recurring = TRUE
    Scheduled = FALSE
    HasWindow = FALSE
    MayLapse = TRUE
    MaxFaults = 1
    MaxOps = 1
SPECIFICATION Spec
SYMMETRY Symmetry
VIEW View
INVARIANTS
    TypeOK
    EachAttemptSentOnce
    FinishedHasNoPending
PROPERTIES
    ImplementsDelivery
CHECK_DEADLOCK FALSE
