SPECIFICATION Spec
CONSTANTS
    dialer = dialer
    listener = listener
    End = {dialer, listener}
    Other <- OtherEnd
    PayloadSize = 2
    SockBuf = 12
    ShortWrites = FALSE
    MaxFrames = 3
CHECK_DEADLOCK FALSE
INVARIANT StaysConnected
