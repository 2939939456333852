SPECIFICATION Spec
CONSTANTS
    NThreads = 3
    Requests = {2, 4}
    Graphs <- TeamGraphs
    GraphWrap = 4
    MayAbort = TRUE
    MaxGraphs = 2
    MaxToggles = 1
INVARIANTS
    TypeOK
    Lockstep
    ParametersAtRest
    WakeInv
    NoLostWakeup
PROPERTIES
    ForkJoinSpec
