SPECIFICATION Spec
CONSTANTS
    name = name
    count = count
    text = text
    number = number
    NoValue = NoValue
    Clients = {c1, c2}
    Keys <- MCKeys
    Values <- MCValues
    SetCalls <- MCSetCalls
    MaxCost = 1
    MaxCalls = 4
INVARIANTS TypeOK OneCachePerClient ReleasedIsClosed
PROPERTIES ImplementsMemory
CHECK_DEADLOCK FALSE
