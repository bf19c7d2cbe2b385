SPECIFICATION ScanSpec
CONSTANTS
    Ips = {ip1}
    Ports = {p1, p2, p3}
    ScanWindow = 2
    DistinctPorts = 3
    EntryTTL = 2
    MaxDelay = 2
    MaxTime = 4
SYMMETRY Symmetry
INVARIANTS NoFalseScan ScanIsSeenWhileKept
