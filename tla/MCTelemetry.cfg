CONSTANTS
    Attempts = 3
    k1 = k1
    k2 = k2
    k3 = k3
    w1 = w1
    w2 = w2
    Keys <- MCKeys
    Workers <- MCWorkers
    KeyBytes = 1
    SnapshotBytes = {1, 3, 5}
    CONTEXT_CACHE_MAX_ENTRIES = 2
    CONTEXT_CACHE_MAX_BYTES = 5
    CONTEXT_SNAPSHOT_MAX_BYTES = 3
    CONTEXT_REFRESH_QUEUE_CAPACITY = 1
    CONTEXT_FRESH_TTL = 1
    CONTEXT_NEGATIVE_TTL = 1
    CONTEXT_WORKER_STUCK_AFTER = 1
    MaxClock = 2
    UsizeValues = 16
    Writers = {p1, p2}
    Batches <- MCBatches
    MaxBufferBytes = 2
    MaxSpoolBytes = 3
    Retention = 1
    MaxTime = 1
    MaxExports = 5
    MaxFaults = 1
    SpanSizes = {1, 2, 6}
    MaxQueueBytes = 5
    MaxQueueSize = 4
    BatchLimit = 2
    MaxSpans = 6
SPECIFICATION MCSpec
SYMMETRY MCSymmetry
CHECK_DEADLOCK FALSE
INVARIANTS
    ReportTruthful
    CacheSound
    
    TraceAccounted
PROPERTY AnsweredNeverResent
