SPECIFICATION Spec
CONSTANTS
    Neurons <- ChatNeurons
    Links <- ChatLinks
    EndNeuron <- End
    EntryLinkFrom <- Entry
    From <- ChatFrom
    To <- ChatTo
    TriggerGroups <- ChatTriggers
    CastGroups <- ChatCasts
    Selections <- ChatCasts
    Faulty = {}
    Streamers = {}
    Workers = {w1, w2}
    Clients = {c1, c2}
    Waiters = {}
    Calls <- ChatCalls
    BQueueLen = 10
    NQueueLen = 10
    MaxCalls = 2
    MaxContinueCast = 0
    MaxRetries = 0
INVARIANTS TypeOK ActiveHasWorker SettledSleep
PROPERTIES ImplementsBrain StrandedOnlyWhileActive
SYMMETRY Symmetry
CHECK_DEADLOCK FALSE
