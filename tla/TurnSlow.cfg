SPECIFICATION Spec
CONSTANTS
    r1 = r1
    r2 = r2
    r3 = r3
    p1 = p1
    p2 = p2
    k1 = k1
    k2 = k2
    Requests = {r1, r2, r3}
    Procs = {p1}
    ProcOf <- OneProc
    Keys = {k1}
    KeyOf <- OneKey
    Backend = "sqlite"
    AttemptBound = 3
    Lease = 3
    LockTimeout = 1
    StaleAfter = 2
    NoRequest = NoRequest
PROPERTY CommittedIsFinal
