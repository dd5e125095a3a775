SPECIFICATION Spec
CONSTANTS
    Conns = {c1, c2}
    Fds = {f1}
    Addrs = {a1}
    Bufs = {b1}
    InFlight = 1
    QueueDepth = 2
    UseMultishot = TRUE
    ZeroCopy = FALSE
    Directions = {"reverse"}
    MaxNotifs = 0
    None = None
    AcceptCtx = AcceptCtx
PROPERTY SendGated
