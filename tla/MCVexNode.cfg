SPECIFICATION FairSpec
CONSTANTS
    MaxPacket = 512
    Reserve = 100
    NonceBytes = 24
    TagBytes = 16
    r1 = r1
    r2 = r2
    r3 = r3
    Dialled <- DialR1
    Remote = {r1, r2, r3}
    Empty = Empty
    MaxPeers = 2
    InputSize = 512
    Terminal = TRUE
    Line <- SomeLines
    MaxLines = 1
    MaxFrames = 1
CHECK_DEADLOCK FALSE
INVARIANTS
    NodeTypeOK
    SentIsReadable
PROPERTIES
    FramesAreRead
    WaitersAreAccepted
    StopIsHonoured
    LinesAreTaken
