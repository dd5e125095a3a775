SPECIFICATION Spec
CONSTANTS
    Conns = {c1, c2}
    Fds = {f1}
    Addrs = {a1}
    Bufs = {b1}
    InFlight = 1
    QueueDepth = 2
    UseMultishot = FALSE
    ZeroCopy = TRUE
    Directions = {"forward", "reverse"}
    MaxNotifs = 1
    None = None
    AcceptCtx = AcceptCtx
SYMMETRY Symmetry
INVARIANTS
    AcceptArmed
    FdsOwned
