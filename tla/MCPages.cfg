SPECIFICATION MCSpec
CONSTANTS
    None = None
    w1 = w1
    w2 = w2
    v1 = v1
    v2 = v2
    l1 = l1
    N = 2
    DataPages <- FirstTwo
    Chunked = FALSE
    Seeded = {}
    Workers = {w1}
    WorkerOf <- OneWorker
    QueueCap = 1
    FillPages = 1
    VCPUs = {v1, v2}
    Loaders = {l1}
    Failing = FALSE
    Closing = FALSE
    MaxReleases = 1
    MaxUses = 3
INVARIANT BackendSeesMemory
 
CHECK_DEADLOCK FALSE
