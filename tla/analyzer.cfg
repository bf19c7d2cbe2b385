SPECIFICATION FairSpec
CONSTANTS
    Ips = {ip1, lan}
    PrivateIps = {lan}
    Ports = {0, 80, 443}
    WindowSeconds = 1
    PPS = 2
    ScanWindow = 1
    DistinctPorts = 2
    InCap = 1
    OutCap = 1
    DecidedTTL = 2
    EntryTTL = 2
    MaxEvents = 5
    MaxTime = 4
INVARIANTS MarksFollowDecisions
PROPERTIES DecisionsAreSpaced AnalysisNeverStalls
CHECK_DEADLOCK FALSE
