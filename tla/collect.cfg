SPECIFICATION CaptureSpec
CONSTANTS
    CPUs = {cpu0, cpu1}
    RingCap = 2
    OutCap = 1
    MaxEmitted = 5
    Width = 2
    Files <- SomeFiles
INVARIANTS SamplesAreAccountedFor EventsKeepOrder NothingIsLeftBehind PacketsMeetTheConfig
PROPERTY CancelIsSeen
CHECK_DEADLOCK FALSE
