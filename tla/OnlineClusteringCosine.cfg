SPECIFICATION Spec
CONSTANTS
    NumLocal = 2
    MaxSpeakers = 2
    EmbedEvery = 1
    Embeddings <- SimilarVoices
    Unit <- MCUnit
    DeltaNew = 25
    NoEmbedding = NoEmbedding
    MaxChunks = 4
PROPERTIES
    NearestByCosine
