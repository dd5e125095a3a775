SPECIFICATION FairSpec
CONSTANTS
    Numbers = {0, 131071}
    MaxOptions = 3
    Threads = {0, 1}
    QueueDepth = 3
    InFlight = 3
    BufCount = 4
    CqEntries = 4
INVARIANTS
    TypeOK
    ParseExact
    RoleRunnable
    SqpollHonoured
    ReleasedOnce
    BuffersConserved
    EndsForCause
    FreedUnwritten
PROPERTIES
    ImplementsPipeline
    
