SPECIFICATION Spec
CONSTANTS
    MaxFields = 6
    MaxDepth = 1
    MaxPairChecks = 6
    Endpoints <- MCEndpoints
CHECK_DEADLOCK FALSE
INVARIANTS
    TypeOK
    StillFails
    ReasonIsFound
    OvertimeIsBounded
