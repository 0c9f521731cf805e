SPECIFICATION AppSpec
CONSTANTS
    Device = {d1, d2}
    NoDevice = NoDevice
    Packet = {}
    MaxConnections = 1
    MaxAttempts = 2
    MaxPlaces = 2
INVARIANT LimitOf5
