SPECIFICATION FairSpec
CONSTANTS
    Base = 3
    Durations = {0, 1, 3, 80}
    Modes = {TRUE, FALSE}
    Timeout = 1
    SockBuf = 3
    MaxTime = 6
    MaxPayload = 2
INVARIANTS
    HandshakeExact
    StallPerByte
PROPERTY ServerReturns
