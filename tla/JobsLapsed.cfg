SPECIFICATION Spec
CONSTANTS
    w1 = w1
    w2 = w2
    i1 = i1
    j1 = j1
    j2 = j2
    Workers = {w1, w2}
    Inliners = {}
    Jobs = {j1}
    HandlerCount = 2
    MaxAttempts = 2
    NoWorker = NoWorker
INVARIANT ReceiptIsBoundary
