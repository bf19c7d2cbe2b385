SPECIFICATION FairSpec
CONSTANTS
    V4 <- MirrorV4
    V6 = {v6a}
    MappedV4 = {}
    LittleEndian = FALSE
    Reasons = {1, 2}
    Durations = {1}
    HundredYears = 100
    CleanupPeriod = 2
    MapCapacity = 1
    MockMode = FALSE
    LoadedMaps = {"v4"}
    KernelErrors = TRUE
    MaxTime = 2
INVARIANTS ListedIsEnforced EnforcedIsListed CollectedHadLapsed BlockedIsDropped DroppedIsBlocked
PROPERTIES Promise ActiveBlockIsKept LapsedIsCleaned
