SPECIFICATION Spec
CONSTANTS
    CPUs = {c0, c1}
    Sources = {s0}
    Window = 2
    CoarseLimit = 1
    SampleEveryN = 2
    MaxPackets = 4
    MaxTime = 2
SYMMETRY Symmetry
CHECK_DEADLOCK FALSE
INVARIANTS StatsBalance SampleGap
PROPERTY UnracedIsStreamed
