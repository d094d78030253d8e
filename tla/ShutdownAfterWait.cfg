SPECIFICATION Spec
CONSTANTS
    Clients = {c1}
    Workers = {w1}
    BQueueLen = 10
    NQueueLen = 10
    Uses = {"quiet", "waited"}
    MaxStarts = 1
    MaxCalls = 2
INVARIANTS WaitedNoPanic
CHECK_DEADLOCK FALSE
