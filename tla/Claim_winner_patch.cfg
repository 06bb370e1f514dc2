\* speculative_branch.py:9, one round.
SPECIFICATION Spec
CONSTANTS
    s1 = s1  s2 = s2  s3 = s3
    Strategies <- MCStrategies
    Attempt = Attempt
    Parallel = 2
    MaxRounds = 1
INVARIANTS
    WinnerKeepsPatch
