SPECIFICATION Spec
CONSTANTS
    Neurons <- WaitNeurons
    Links <- WaitLinks
    EndNeuron <- End
    EntryLinkFrom <- Entry
    From <- WaitFrom
    To <- WaitTo
    TriggerGroups <- WaitTriggers
    CastGroups <- WaitCasts
    Selections <- WaitCasts
    Faulty = {}
    Streamers = {}
    Workers = {w1, w2}
    Clients = {c1}
    Waiters = {c1}
    Calls <- EntryCalls
    BQueueLen = 10
    NQueueLen = 10
    MaxCalls = 1
    MaxContinueCast = 0
    MaxRetries = 0
PROPERTY ActivatedOnce
SYMMETRY Symmetry
CHECK_DEADLOCK FALSE
