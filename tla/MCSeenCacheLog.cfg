SPECIFICATION LogSpec
CONSTANTS
    Id = {p1, p2, p3, p4, p5}
    NoId = NoId
    Capacity = 3
    TtlSec = 2
    PruneGap = 1
    MaxTime = 5
    Window = 5
SYMMETRY Symmetry
INVARIANTS
    TypeOK
    ActiveBelowCount
    NoDuplicateLive
    RememberedUnlessCrowded
PROPERTY
    ImplementsSeenMap
