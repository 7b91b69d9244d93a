SPECIFICATION PartsSpec
CONSTANTS
    Capacity = 2
    EventBound = 3
    End = End
    Configured <- MCConfigured
    InnerRetries = 1
    Words = {"a"}
    Pieces = 1
    Calls = 1
    MaxQueue = 1
    c1 = c1
    c2 = c2
    Cycles = {c1, c2}
    Requests <- MCRequests
    MaxSteps = 4
    LongTask = task
    CrashLimit = 1
INVARIANTS
    StreamIsWhole
    CallIsHonest
    CycleAgrees
PROPERTY
    PartsEnd
CHECK_DEADLOCK FALSE
