SPECIFICATION Spec
CONSTANTS
    Neurons <- StreamNeurons
    Links <- StreamLinks
    EndNeuron <- End
    EntryLinkFrom <- Entry
    From <- StreamFrom
    To <- StreamTo
    TriggerGroups <- StreamTriggers
    CastGroups <- StreamCasts
    Selections <- StreamSelections
    Faulty = {"sink"}
    Streamers = {"src"}
    Workers = {w1, w2}
    Clients = {c1}
    Waiters = {c1}
    Calls <- EntryCalls
    BQueueLen = 10
    NQueueLen = 10
    MaxCalls = 1
    MaxContinueCast = 2
    MaxRetries = 1
INVARIANTS ActiveHasWorker WaitLinkOwned
PROPERTIES NoSilentWithdrawal ImplementsBrain ForsakenOnlyByLateWrite
SYMMETRY Symmetry
CHECK_DEADLOCK FALSE
