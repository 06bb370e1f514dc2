SPECIFICATION Spec
CONSTANTS
    Parallel = 2
    MaxRetries = 1
    MaxTries = 2
    Costs <- MCCosts
    Speculation <- MCSpeculation
    Critical = 6
    MaxNodes = 3
CHECK_DEADLOCK FALSE
INVARIANTS
    TypeOK
    BooksBalance
    AtMostParallelAsk
PROPERTIES
    GoesOnUnderBudget
    CriticsReturn
