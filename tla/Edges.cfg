SPECIFICATION MCSpec
CONSTANTS
    p = p
    q = q
    MaxMessages = 4
    NoOffset = NoOffset
    NoMessage = NoMessage
    MaxSessions = 3
    Request = {p, q}
    Servers = 3
    TTL = 2
    PingTimeout = 2
    MaxAge = 2
    MaxChanges = 2
    MaxLength = 5
    k1 = k1
    k2 = k2
    k3 = k3
    NoKey = NoKey
    None = None
    Failed = Failed
    NoCursor = NoCursor
    Call = {1, 2, 3, 4, 5}
    Key = {k1, k2, k3}
    KeyOf <- MCKeyOf
    CreatedAt <- MCCreatedAt
    Due = {1, 2}
    NullScan = TRUE
    MaxFaults = 1
    Limit = 1
    Filters = {"", "RUNNING"}
INVARIANTS
    CommittedWasHandled
    ReadyIsRecent
    FindsTheWords
    OneJobPerKey
    PublishedIsStored
    WalkIsExact
CHECK_DEADLOCK FALSE
