SPECIFICATION FairSpec
CONSTANTS
    NThreads = 2
    Requests = {1, 2}
    Graphs <- TinyGraphs
    GraphWrap = 4
    MayAbort = FALSE
    MaxGraphs = 3
    MaxToggles = 3
PROPERTIES
    ComputeReturns
    FreeJoins
    PauseParks
