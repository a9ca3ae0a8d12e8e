SPECIFICATION FairSpec
CONSTANTS
    w1 = w1
    w2 = w2
    w3 = w3
    Worker = {w1, w2, w3}
    FailureThreshold = 5
    SuccessThreshold = 2
    HalfOpenRequests = 1
    MaxTrouble = 5
PROPERTIES
    Recovers
CHECK_DEADLOCK FALSE
