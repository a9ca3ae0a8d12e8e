SPECIFICATION TaskSpec
CONSTANTS
    w1 = w1
    w2 = w2
    hook = hook
    load = load
    add = add
    bad = bad
    odd = odd
    Worker = {w1, w2}
    Mix <- MCMix
    Repeated = {hook, load}
    Task <- MCTask
    Target <- MCTarget
    Source <- MCSource
    Retry <- MCRetry
    ValidPart = {"s", "t", "k", "v"}
    FailureThreshold = 2
    SuccessThreshold = 2
    HalfOpenRequests = 2
    MaxTrouble = 3
    MaxRedirects = 2
    AllowPrivateNetworks = FALSE
    MaxClaims = 2
INVARIANTS
    CountersMatchHistory
    CompletedWasReceived
    LoadsOnce
    RetriesAreGiven
PROPERTIES
    TransitionsEarned
    Recovers
