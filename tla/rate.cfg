SPECIFICATION RateSpec
CONSTANTS
    Ips = {ip1, ip2}
    WindowSeconds = 3
    PPS = 1
    MaxLateness = 5
    MaxSlot = 5
    MaxRecords = 6
CHECK_DEADLOCK FALSE
INVARIANTS ExceededIsExact 
