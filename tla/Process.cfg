SPECIFICATION MCSpec
CONSTANTS
    j1 = j1
    j2 = j2
    j3 = j3
    j4 = j4
    k1 = k1
    k2 = k2
    Reconciler = Reconciler
    NoJob = NoJob
    Job = {j1, j2, j3, j4}
    Consumer = {k1, k2}
    Concurrency = 2
    QueueSize = 2
    nightly = nightly
    p = p
    q = q
    Name = {nightly}
    NoEntry = NoEntry
    Entry <- MCEntry
    Instant <- MCInstant
    Caller = {p, q}
    MaxStarts = 2
    MaxRegisters = 2
    MinutesPerHour = 2
    HoursPerDay = 2
    Engine <- MCEngine
    Random = {0, 50, 99}
    MaxFailures = 6
    Expr <- MCExpr
    From <- MCFrom
    MaxRuns = 3
INVARIANTS
    PoolCounts
    StopIsClean
    OnePlace
    ReconcilerGoneAtClose
    StopIsQuiet
PROPERTIES
    AcceptedRuns
    ShutdownEnds
    OncePerTime
    StopEnds
    DueRuns
    BackoffGrows
    NextIsEarliest
CHECK_DEADLOCK FALSE
