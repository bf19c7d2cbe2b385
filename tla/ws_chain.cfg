SPECIFICATION ServerSpec
CONSTANTS
    Conns = {c2}
    Chained = {c2}
    Requests <- SomeRequests
    APIConfigs <- SomeConfigs
    RegisterCap = 1
    UnregisterCap = 2
    BroadcastCap = 1
    SendCap = 2
    MaxKickers = 2
INVARIANT SocketsAreUpgraded
CHECK_DEADLOCK FALSE
