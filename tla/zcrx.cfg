SPECIFICATION FairSpec
CONSTANTS
    QueueDepth = 3
    Fds = {f1, f2}
    Bufs = {b1, b2, b3}
    RqEntries = 2
    CqEntries = 2
    Word = 4
INVARIANTS
    TypeOK
    OneOperationEach
    SqeAvailable
    BuffersAccounted
    NeverStarved
    FdsOwned
    ReturnsClean
PROPERTY Stops
