SPECIFICATION ConsumerSpec
CONSTANTS
    MaxMessages = 4
    NoOffset = NoOffset
    NoMessage = NoMessage
    MaxSessions = 3
INVARIANTS
    CommittedWasDispatched
CHECK_DEADLOCK FALSE
