SPECIFICATION Spec
CONSTANTS
    c1 = c1
    c2 = c2
    one = one
    digit = digit
    name = name
    flag = flag
    text = text
    int32 = int32
    int = int
    channel = channel
    NoValue = NoValue
    Clients = {c1, c2}
    Keys <- MCKeys
    BadKeys <- MCBadKeys
    Values <- MCValues
    BadValues <- MCBadValues
    Printed <- MCPrinted
    ReadBack <- MCReadBack
    SetCalls <- MCSetCalls
    KeepMemory = FALSE
    MaxCalls = 4
INVARIANTS
    TypeOK
    CrashNeedsShutdown
    ReleasedIsGone
PROPERTIES
    ImplementsMemory
    FailuresExplained
CHECK_DEADLOCK FALSE
