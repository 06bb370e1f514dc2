SPECIFICATION Spec
CONSTANTS
    MaxFields = 5
    MaxDepth = 1
    MaxPairChecks = 6
    Endpoints <- MCEndpoints
CHECK_DEADLOCK FALSE
INVARIANT RejectionIsMinimised
