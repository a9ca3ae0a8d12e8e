SPECIFICATION BesideSpec
CONSTANTS
    j1 = j1
    j2 = j2
    j3 = j3
    i1 = i1
    i2 = i2
    w1 = w1
    w2 = w2
    NoToken = NoToken
    NoJob = NoJob
    NoWorker = NoWorker
    Orphan = Orphan
    t1 = t1
    t2 = t2
    t3 = t3
    Job = {j1, j2, j3}
    Instance = {i1}
    Worker = {w1}
    Home <- HomeOne
    Token = {t1, t2, t3}
    AttemptCap = 2
    PoolCapacity = 1
    BatchSize = 2
    MaxRetries <- Retries01
    EngineMaxAttempts = 2
    HasKey <- KeyedOne
    NullScan = TRUE
    Cancellable = {}
    MaxDeliveries = 0
    FaultKinds = {"crash", "term", "db", "redis", "breaker", "lapse", "ttl", "panic", "skew"}
    MaxFaults = 1
PROPERTIES
    EndsUndisturbed
    EventuallySettles
CHECK_DEADLOCK FALSE
