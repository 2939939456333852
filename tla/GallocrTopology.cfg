SPECIFICATION Spec
CONSTANTS
    Alignment = 2
    MaxChunkSize = 12
    MaxChunks = 2
    Huge = 60
    NLeafs = 1
    NNodes = 2
    MaxSrc = 2
    MaxOutputs = 1
    Topologies <- ReadOnceOrTwice
    LayoutSize <- MCLayoutSize
    Inputs <- MCInputs
    Scratch = 1
    SameTopology = FALSE
    None = None
INVARIANTS
    SourcesIntact
