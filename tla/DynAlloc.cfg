SPECIFICATION Spec
CONSTANTS
    Alignment = 2
    MaxChunkSize = 6
    MaxChunks = 3
    Huge = 12
    Tensors = {t1, t2, t3, t4}
    Sizes = {1, 3, 5, 8}
    None = None
SYMMETRY Symmetry
INVARIANTS
    TypeOK
    NoOverlap
    Coalesced
    WithinMaxSize
    NoLeak
    FewBlocks
PROPERTIES
    PromiseSpec
