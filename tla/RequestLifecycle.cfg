\* Two calls at a time, three in all; two agents and the department's bot; a
\* conversation that is created with up to one participant of the caller's.
CONSTANTS
    Agents = {a1, a2}
    Bots = {b1}
    Counted = {a1}
    DepartmentBot = b1
    NoBot = noBot
    Pooled = FALSE
    Draft = FALSE
    MaxGiven = 1
    Callers = {1, 2}
    MaxOps = 3
SPECIFICATION FairSpec
INVARIANTS
    TypeOK
    EventsTellParticipants
PROPERTIES
    ListsStayAligned
    NoBlindRemoval
    AgentTakesOver
CHECK_DEADLOCK FALSE
