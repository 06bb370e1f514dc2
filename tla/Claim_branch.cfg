\* edges.py:110 and actor.py:150 with the real git provider.
SPECIFICATION Spec
CONSTANTS
    p1 = p1  c1 = c1  c2 = c2  e1 = e1  e2 = e2
    MaxCycles = 3
    Threshold = 25
    MaxReplan = 1
    MaxTdd = 3
    MaxEmpty = 3
    Warning = 5
    Critical = 8
    CostSteps <- MCNoCosts
    BlastPenalties <- MCNoBlast
    BlockingProblems <- MCOneProblem
    CriticProblems <- MCOneFinding
    TestErrors <- MCOneError
    GitStrict = TRUE
    SkipChoices <- MCNeverSkip
    BlastChecks <- MCNoCheck
    MaxRuns = 1
INVARIANTS
    ActorGetsBranch
