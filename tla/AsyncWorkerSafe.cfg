SPECIFICATION FairSpec
CONSTANTS
    p1 = p1
    p2 = p2
    p3 = p3
    short = short
    medium = medium
    long = long
    BufferSize = 3
    IntMod = 256
    Threshold = 8
    LinearGrowth = 5
    MaxAlloc = 16
    Safe = TRUE
    MaxCalls = 4
    Producer <- MCProducer3
    Message <- MCMessageFit
    MsgLen <- MCMsgLenFit
INVARIANTS
    DrainedOnReturn
PROPERTIES
    ImplementsLog
    PushReturns
    StopReturns
