\* A server that may be late, may write notifications and may die twice.
SPECIFICATION FairSpec
CONSTANTS
    t1 = t1  t2 = t2
    Callers <- MCCallers
    Nobody = Nobody
    MaxCalls = 2
    MaxDeaths = 2
INVARIANTS
    TypeOK
PROPERTIES
    ImplementsContract
    EveryCallEnds
