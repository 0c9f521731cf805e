SPECIFICATION FairSpec
CONSTANTS
    MaxPacket = 512
    Reserve = 100
    NonceBytes = 24
    TagBytes = 16
    r1 = r1
    r2 = r2
    r3 = r3
    Dialled <- DialR1
    Remote = {r1}
    Empty = Empty
    MaxPeers = 2
    InputSize = 512
    Terminal = FALSE
    Line <- TwoLines
    MaxLines = 2
    MaxFrames = 1
CHECK_DEADLOCK FALSE
PROPERTY LinesAreTaken
