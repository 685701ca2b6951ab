SPECIFICATION FairSpec
CONSTANTS
    EndpointReads = 1
    Operators <- Two
    ClassMoves <- ClassChanges
    MaxUid = 1
    MaxGen = 2
    MaxRoutes = 0
    MaxEps = 0
    MaxFaults = 0
INVARIANT
    KeepsToSpec
PROPERTIES
    Converges
    DeletionCompletes
CHECK_DEADLOCK FALSE
