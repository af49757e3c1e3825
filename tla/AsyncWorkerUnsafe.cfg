SPECIFICATION Spec
CONSTANTS
    p1 = p1
    p2 = p2
    p3 = p3
    short = short
    medium = medium
    long = long
    BufferSize = 3
    IntMod = 256
    Threshold = 8
    LinearGrowth = 5
    MaxAlloc = 16
    Safe = FALSE
    MaxCalls = 5
    Producer <- MCProducer2
    Message <- MCMessage
    MsgLen <- MCMsgLen
SYMMETRY ProducerSymmetry
INVARIANTS
    NothingLost
    
