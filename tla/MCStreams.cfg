SPECIFICATION StreamsSpec
CONSTANTS
    Replies <- AllReplies
    Announced = {1, 2}
    OldCopy <- Old
    MaxReceived = 7
    MaxBlock = 3
    DEFAULT_CNT_BUF_SIZE = 2
    MaxContentLenBuf = 4
    MaxDocument = 7
    BUFFER_SIZE = 3
    MaxPut = 7
    Child = {c1, c2}
    \* Where the estimate is furthest from the truth on each part of its scale:
    \* the last byte before 1K, 110K, 6000K and 12000K.
    Size = {1023, 112639, 6143999, 12287999}
    None = None
    NoResult = NoResult
    MaxTransfers = 2
    MaxGcs = 1
SYMMETRY ChildSymmetry
CHECK_DEADLOCK FALSE
INVARIANTS
    ClientGetsReply
    CopyComplete
    HeadAsSent
    LengthRight
    WrittenInOrder
    UsageTypeOK
    UsageCoversCache
