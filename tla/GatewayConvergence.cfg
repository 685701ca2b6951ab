SPECIFICATION FairSpec
CONSTANTS
    EndpointReads = 2
    Operators <- One
    ClassMoves <- ClassChanges
    MaxUid = 2
    MaxGen = 1
    MaxRoutes = 1
    MaxEps = 1
    MaxFaults = 1
INVARIANT
    HashNeverAhead
PROPERTIES
    Converges
    DeletionCompletes
CHECK_DEADLOCK FALSE
