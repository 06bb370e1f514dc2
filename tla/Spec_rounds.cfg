\* Two evaluations at a time, of three strategies, in two rounds.
SPECIFICATION FairSpec
CONSTANTS
    s1 = s1  s2 = s2  s3 = s3
    Strategies <- MCStrategies
    Attempt = Attempt
    Parallel = 2
    MaxRounds = 2
INVARIANTS
    TypeOK
    WinnerCanBeCheckedOut
PROPERTIES
    ImplementsContract
    NodeEnds
