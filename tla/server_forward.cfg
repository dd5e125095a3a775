SPECIFICATION Spec
CONSTANTS
    Conns = {c1, c2}
    Fds = {f1, f2}
    Addrs = {a1, a2, a3, a4}
    Bufs = {b1, b2}
    InFlight = 2
    QueueDepth = 4
    UseMultishot = TRUE
    ZeroCopy = FALSE
    Directions = {"forward"}
    MaxNotifs = 0
    None = None
    AcceptCtx = AcceptCtx
SYMMETRY Symmetry
INVARIANTS
    TypeOK
    AcceptArmed
    FdsOwned
    NoStaleContext
    SessionsWatched
    BuffersConserved
PROPERTIES
    ClosedForCause
