\* Two projects, three calls at a time.
CONSTANTS
    small = small
    large = large
    Projects = {small, large}
    Checked = {"requests"}
    Reported = {"tokens"}
    Amounts = {1, 3}
    Limit <- MCLimit
    Callers = {1, 2, 3}
    MaxCalls = 4
    MaxFaults = 1
SPECIFICATION Spec
INVARIANTS
    TypeOK
    ChargedToItsProject
    OverrunBounded
    OwnerIsTold
CHECK_DEADLOCK FALSE
