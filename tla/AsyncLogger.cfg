SPECIFICATION FairSpec
CONSTANTS
    t1 = t1
    t2 = t2
    w1 = w1
    info = info
    error = error
    Thread <- MCThread
    Message <- MCMessage
    MsgLen <- MCMsgLen
    Severe <- MCSevere
    BufferSize = 3
    Threshold = 8
    LinearGrowth = 5
    IntMod = 256
    MaxAlloc = 9
    Safe = TRUE
    MaxCalls = 3
    Worker <- MCWorker1
INVARIANTS
    BackedUpFirst
    WrittenAtExit
PROPERTIES
    WorkerContract
    PoolContract
    LogReturns
    Exits
