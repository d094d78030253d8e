SPECIFICATION Spec
CONSTANTS
    Neurons <- ChainNeurons
    Links <- ChainLinks
    EndNeuron <- End
    EntryLinkFrom <- Entry
    From <- ChainFrom
    To <- ChainTo
    TriggerGroups <- ChainTriggers
    CastGroups <- ChainCasts
    Selections <- ChainCasts
    Faulty = {}
    Streamers = {}
    Workers = {w1, w2}
    Clients = {c1}
    Waiters = {c1}
    Calls <- EntryCalls
    BQueueLen = 10
    NQueueLen = 10
    MaxCalls = 1
    MaxContinueCast = 0
    MaxRetries = 0
INVARIANT AutoSleep
CHECK_DEADLOCK FALSE
