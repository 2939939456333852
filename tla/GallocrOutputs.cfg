SPECIFICATION Spec
CONSTANTS
    Alignment = 2
    MaxChunkSize = 12
    MaxChunks = 2
    Huge = 60
    NLeafs = 1
    NNodes = 3
    MaxSrc = 2
    MaxOutputs = 2
    Topologies <- OutputView
    LayoutSize <- MCLayoutSize
    Inputs <- MCInputs
    Scratch = 1
    SameTopology = TRUE
    None = None
INVARIANTS
    OutputsNeverOverwritten
