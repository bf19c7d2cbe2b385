SPECIFICATION Spec
CONSTANTS
    V4 <- OneV4
    V6 = {v6a}
    MappedV4 = {}
    LittleEndian = TRUE
    Reasons = {1, 2}
    Durations = {0, 1}
    HundredYears = 100
    CleanupPeriod = 2
    MapCapacity = 2
    MockMode = FALSE
    LoadedMaps = {"v4", "v6"}
    KernelErrors = TRUE
    MaxTime = 3
INVARIANT BlockedIsDropped
