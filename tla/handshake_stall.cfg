SPECIFICATION Spec
CONSTANTS
    Base = 3
    Durations = {0, 1, 3, 80}
    Modes = {FALSE}
    Timeout = 1
    SockBuf = 3
    MaxTime = 2
    MaxPayload = 2
INVARIANT StallBounded
