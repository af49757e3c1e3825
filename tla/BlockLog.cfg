SPECIFICATION FairSpec
CONSTANTS
    w1 = w1
    w2 = w2
    Writer <- MCWriter
    capacity_ = 1
    maxQueueSize = 2
    MAX_LINES = 2
    MaxDay = 2
    MaxCalls = 3
INVARIANTS
    PushNeverWaits
    NothingLost
    StreamOpen
    PutAtExit
PROPERTIES
    LogReturns
    DtorEnds
