SPECIFICATION Spec
CONSTANTS
    Alignment = 2
    MaxChunkSize = 12
    MaxChunks = 2
    Huge = 60
    NLeafs = 1
    NNodes = 4
    MaxSrc = 2
    MaxOutputs = 2
    Topologies <- MCTopologies
    LayoutSize <- MCLayoutSize
    Inputs <- MCInputs
    Scratch = 1
    SameTopology = TRUE
    None = None
INVARIANTS
    TypeOK
    SourcesIntact
    OutputsSurvive
    AllocatedWhileNeeded
    PlanFits
