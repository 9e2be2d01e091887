\* Two replicas, two batches, two runs each, two faults.
CONSTANTS
    Procs = {p1, p2}
    MaxBatches = 2
    MaxRuns = 2
    MaxFaults = 2
SPECIFICATION Spec
SYMMETRY Symmetry
INVARIANTS
    TypeOK
    ActiveCycleComplete
    GenerationsAreCycles
PROPERTIES
    PublishedGenerationGrows
CHECK_DEADLOCK FALSE
