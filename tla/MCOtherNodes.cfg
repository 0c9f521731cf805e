SPECIFICATION MCSpec
CONSTANTS
    third = third
    Device = {d1, d2, third}
    NoDevice = NoDevice
    Packet = {p}
    MaxConnections = 2
    MaxAttempts = 2
    MaxPlaces = 3
    Id = {i1, i2, i3, i4}
    NoId = NoId
    Capacity = 3
    TtlSec = 1
    MaxTime = 4
    g1 = g1
    g2 = g2
    m1 = m1
    m2 = m2
    Page = {g1, g2}
    NoPage = NoPage
    MaxSockets = 4
    Msg = {m1, m2}
    Key = {k1, k2, k3}
    NoKey = NoKey
    CacheMax = 2
    MaxAge = 1
    MaxClock = 3
    MaxAdds = 4
CHECK_DEADLOCK FALSE
INVARIANTS
    AppTypeOK
    CacheTypeOK
    WsTypeOK
    AndroidTypeOK
    ListedAreLive
    NotBackToAuthor
    KnownUnlessCrowded
PROPERTIES
    StayersGetIt
    GhostsAreCleared
    AppImplementsSeenMap
