SPECIFICATION Spec
CONSTANTS
    Clients = {c1}
    Workers = {w1}
    BQueueLen = 10
    NQueueLen = 10
    Uses = {"quiet", "waited", "rough"}
    MaxStarts = 2
    MaxCalls = 3
INVARIANTS TypeOK QuietNoPanic StateTellsQueues OneMaintainer RestartsClean
PROPERTIES ReleasesGoroutines
CHECK_DEADLOCK FALSE
