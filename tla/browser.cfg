SPECIFICATION BrowserSpec
CONSTANTS
    Ips = {ip1, ip2}
    Undefined = Undefined
    Loads = {l1, l2}
    WireCap = 1
    MaxChanges = 3
    Sockets = {s1, s2, s3}
    NoSocket = NoSocket
INVARIANT OneSocket
PROPERTIES KeepsTrying CopyConverges ReloadShowsOwnChange CounterConverges
CHECK_DEADLOCK FALSE
