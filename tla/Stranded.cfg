SPECIFICATION FairSpec
CONSTANTS
    j1 = j1
    j2 = j2
    j3 = j3
    i1 = i1
    i2 = i2
    w1 = w1
    w2 = w2
    NoToken = NoToken
    NoJob = NoJob
    NoWorker = NoWorker
    Orphan = Orphan
    t1 = t1
    t2 = t2
    t3 = t3
    Job = {j1}
    Instance = {i1}
    Worker = {w1, w2}
    Home <- HomeOne
    Token = {t1, t2, t3}
    AttemptCap = 3
    PoolCapacity = 1
    BatchSize = 1
    MaxRetries <- Retries2
    EngineMaxAttempts = 2
    HasKey <- Keyed
    NullScan = TRUE
    Cancellable = {}
    MaxDeliveries = 0
    FaultKinds = {"crash"}
    MaxFaults = 1
PROPERTIES
    EventuallyTerminal
CHECK_DEADLOCK FALSE
