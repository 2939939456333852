SPECIFICATION Spec
CONSTANTS
    NThreads = 2
    Requests = {2, 4}
    Graphs <- StealGraphs
    GraphWrap = 2
    MayAbort = TRUE
    MaxGraphs = 3
    MaxToggles = 1
PROPERTIES
    ForkJoinSpec
