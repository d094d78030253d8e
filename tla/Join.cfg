SPECIFICATION FairSpec
CONSTANTS
    Neurons <- JoinNeurons
    Links <- JoinLinks
    EndNeuron <- End
    EntryLinkFrom <- Entry
    From <- JoinFrom
    To <- JoinTo
    TriggerGroups <- JoinTriggers
    CastGroups <- JoinCasts
    Selections <- JoinCasts
    Faulty = {}
    Streamers = {}
    Workers = {w1, w2}
    Clients = {c1}
    Waiters = {}
    Calls <- EntryCalls
    BQueueLen = 10
    NQueueLen = 10
    MaxCalls = 1
    MaxContinueCast = 0
    MaxRetries = 0
INVARIANTS UpstreamDone WaitLinkOwned NoStrandedTrigger
PROPERTIES NoSilentWithdrawal ImplementsBrain Drains EndSleeps
CHECK_DEADLOCK FALSE
