\* As the run of RequestLifecycle, for the number of one agent; a conversation
\* that starts with the participants the service chooses.
CONSTANTS
    Agents = {a1, a2}
    Bots = {b1}
    Counted = {a1}
    DepartmentBot = b1
    NoBot = noBot
    Pooled = FALSE
    Draft = FALSE
    MaxGiven = 0
    Callers = {1, 2}
    MaxOps = 2
SPECIFICATION Spec
INVARIANT CountExact
CHECK_DEADLOCK FALSE
