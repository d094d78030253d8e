SPECIFICATION FairSpec
CONSTANTS
    Neurons <- FanNeurons
    Links <- FanLinks
    EndNeuron <- End
    EntryLinkFrom <- Entry
    From <- FanFrom
    To <- FanTo
    TriggerGroups <- FanTriggers
    CastGroups <- FanCasts
    Selections <- FanCasts
    Faulty = {}
    Streamers = {}
    Workers = {w1, w2}
    Clients = {c1}
    Waiters = {c1}
    Calls <- EntryCalls
    BQueueLen = 10
    NQueueLen = 10
    MaxCalls = 1
    MaxContinueCast = 0
    MaxRetries = 0
PROPERTY CastCompletes
CHECK_DEADLOCK FALSE
