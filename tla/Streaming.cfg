SPECIFICATION Spec
CONSTANTS
    Speaker = {s1}
    HalfFrame = 1
    NumFrames = 4
    Window <- MCWindow
    TauActive = 60
    Steps = {3, 4, 5}
    Latencies = {2, 5, 7, 8, 12}
    AudioEnd = 11
INVARIANTS
    TypeOK
    BufferSuffices
    TimeAxisTiled
    SegmentsInOrder
    SegmentsMatchFrames
    EverythingHeard
