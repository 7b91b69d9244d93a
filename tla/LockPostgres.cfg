SPECIFICATION LockSpec
CONSTANTS
    r1 = r1
    r2 = r2
    r3 = r3
    p1 = p1
    p2 = p2
    Requests = {r1, r2, r3}
    Procs = {p1, p2}
    ProcOf <- MCProcOf
    Backend = "postgres"
    Lease = 3
    LockTimeout = 2
    NoRequest = NoRequest
INVARIANT LeaseExclusion
