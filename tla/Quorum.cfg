SPECIFICATION FairSpec
CONSTANTS
    c1 = c1
    c2 = c2
    Client = {c1, c2}
    Nodes = 3
    Quorum = 2
    RetryCount = 2
    Free = Free
    Gone = Gone
    Nobody = Nobody
    FaultKinds = {"error", "ctx", "crash", "forget"}
    MaxFaults = 1
INVARIANTS
    MutualExclusion
PROPERTIES
    KeysAreSafe
    ImplementsLock
    KeysComeFree
