SPECIFICATION FairSpec
CONSTANTS
    w1 = w1
    w2 = w2
    i1 = i1
    j1 = j1
    j2 = j2
    Workers = {w1, w2}
    Inliners = {i1}
    Jobs = {j1}
    HandlerCount = 3
    MaxAttempts = 3
    NoWorker = NoWorker
INVARIANTS OneWorkerPerJob ReceiptStopsHandler
PROPERTIES KeepsPromise 
