SPECIFICATION FairSpec
CONSTANTS
    N = 3
    MaxRounds = 3
INVARIANTS
    NobodyEarly
    IInv
PROPERTIES
    RendezvousSpec
    AllCross
