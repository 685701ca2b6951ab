SPECIFICATION Spec
CONSTANTS
    EndpointReads = 1
    Operators <- One
    ClassMoves <- ClassChanges
    MaxUid = 2
    MaxGen = 2
    MaxRoutes = 1
    MaxEps = 0
    MaxFaults = 1
INVARIANTS
    TypeOK
    Inductive
    FinalizerGuards
    StatusIsBacked
    NeverForgotten
PROPERTY
    ContractSpec
CHECK_DEADLOCK FALSE
