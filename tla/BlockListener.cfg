SPECIFICATION BlockListenerSpec
CONSTANTS
    IndexModulus = 4
    Capacity = 2
    Data = {d1, d2}
    NoData = NoData
    Hardware <- MCHardware
    MaxAbandoned = 2
    p1 = p1
    NoPeer = NoPeer
CHECK_DEADLOCK FALSE
INVARIANTS RequestsCounted
PROPERTIES IsBlockDevice BoundedWaits
