SPECIFICATION Spec
CONSTANTS
    Conns = {c1, c2}
    Fds = {f1}
    Addrs = {a1, a2}
    Bufs = {b1}
    InFlight = 2
    QueueDepth = 4
    UseMultishot = FALSE
    ZeroCopy = FALSE
    Directions = {"forward"}
    MaxNotifs = 0
    None = None
    AcceptCtx = AcceptCtx
PROPERTY ClosedForCause
