SPECIFICATION Spec
CONSTANTS
    Radius2 = 121
    Lengths = {10, 27, 37}
    Window = 25
    Step = 12
    FrameDuration = 5
    NumFrames = 5
    MinLen = 2
    Gap = 2
    NSlots = 2
    Patterns <- MCPatterns
    Points <- MCPoints
    MaxEmbeddings <- MCMaxEmbeddings
    MaxMoves = 1
INVARIANTS
    TypeOK
    SpeechAttributed
    PrintedFaithful
PROPERTY
    AgglomerationSpec
CHECK_DEADLOCK FALSE
