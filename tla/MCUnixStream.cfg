SPECIFICATION FairSpec
CONSTANTS
    dialer = dialer
    listener = listener
    End = {dialer, listener}
    Other <- OtherEnd
    PayloadSize = 2
    SockBuf = 7
    ShortWrites = TRUE
    MaxFrames = 3
CHECK_DEADLOCK FALSE
INVARIANTS
    TypeOK
    Aligned
PROPERTIES
    ImplementsFrameChannel
    WrittenIsRead
    CloseIsNoticed
