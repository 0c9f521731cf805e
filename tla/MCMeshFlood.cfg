SPECIFICATION FairFloodSpec
CONSTANTS
    a = a
    b = b
    c = c
    d = d
    Node = {a, b, c, d}
    Packet = {p, q}
    NoNode = NoNode
    Topology <- Kite
    DefaultTtl <- TtlMixed
    Relays = {a, b, c}
CHECK_DEADLOCK FALSE
INVARIANTS
    FloodTypeOK
    ScopeBound
    FrontierCovered
    TraverseOnce
    StatsAddUp
    FloodComplete
PROPERTY DeliveredToAll
