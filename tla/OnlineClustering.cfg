SPECIFICATION Spec
CONSTANTS
    NumLocal = 2
    MaxSpeakers = 3
    EmbedEvery = 2
    Embeddings <- Voices
    Unit <- MCUnit
    DeltaNew = 25
    NoEmbedding = NoEmbedding
    MaxChunks = 4
INVARIANTS
    TypeOK
    LongSpeakersApart
PROPERTIES
    OnceKnownAlwaysNamed
    SoloKeepsIdentity
