SPECIFICATION FairSpec
CONSTANTS
    None = None
    w1 = w1
    w2 = w2
    v1 = v1
    v2 = v2
    l1 = l1
    N = 2
    DataPages <- FirstTwo
    Chunked = FALSE
    Seeded = {}
    Workers = {w1}
    WorkerOf <- OneWorker
    QueueCap = 1
    FillPages = 2
    VCPUs = {v1}
    Loaders = {}
    Failing = FALSE
    Closing = TRUE
    MaxReleases = 0
    MaxUses = 0
PROPERTY CloseReturns
