SPECIFICATION MCSpec
CONSTANTS
    a = a
    b = b
    c = c
    d = d
    Node = {a, b, c, d}
    Packet = {p}
    NoNode = NoNode
    Topology <- NoTopology
    DefaultTtl <- Ttls
    Relays = {a, b, c, d}
    Dial <- Dialled
    MaxPeers = 2
    Faults = {"forget", "torn"}
CHECK_DEADLOCK FALSE
INVARIANTS
    ReaderIsThere
    DialledScope
PROPERTIES
    FloodEnds
    DeadAreDropped
