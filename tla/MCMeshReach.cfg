SPECIFICATION FloodSpec
CONSTANTS
    a = a
    b = b
    c = c
    d = d
    Node = {a, b, c, d}
    Packet = {p}
    NoNode = NoNode
    Topology <- Kite
    DefaultTtl <- Ttl2
    Relays = {a, b, c}
CHECK_DEADLOCK FALSE
INVARIANT ReachesScope
