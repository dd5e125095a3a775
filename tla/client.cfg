SPECIFICATION FairSpec
CONSTANTS
    QueueDepth = 2
    InFlight = 2
    ZeroCopy = TRUE
    MaxNotifs = 2
INVARIANTS
    TypeOK
    InRotation
PROPERTIES
    Stops
    ImplementsPipeline
