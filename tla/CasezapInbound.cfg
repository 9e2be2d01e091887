\* Two replicas, two messages, two calls of the webhook at a time.
CONSTANTS
    Processes = {p1, p2}
    Messages = {m1, m2}
    Handlers = {1, 2}
    MaxCloses = 1
    MaxDeliveries = 4
    MaxFaults = 1
    MaxRedisFaults = 1
SPECIFICATION FairSpec
INVARIANTS
    TypeOK
    StoredOnce
    OneOpenPerProcess
    AnsweredIsStored
PROPERTIES
    StoredUnlessItFails
CHECK_DEADLOCK FALSE
