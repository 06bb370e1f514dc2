\* Five correction cycles, two replans, and the git provider of the tests.
SPECIFICATION FairSpec
CONSTANTS
    p1 = p1  c1 = c1  c2 = c2  e1 = e1  e2 = e2
    MaxCycles = 5
    Threshold = 25
    MaxReplan = 2
    MaxTdd = 2
    MaxEmpty = 2
    Warning = 5
    Critical = 8
    CostSteps <- MCNoCosts
    BlastPenalties <- MCBlast
    BlockingProblems <- MCOneProblem
    CriticProblems <- MCOneFinding
    TestErrors <- MCTwoErrors
    GitStrict = FALSE
    SkipChoices <- MCMaySkip
    BlastChecks <- MCBothChecks
    MaxRuns = 1
INVARIANTS
    MainBranchIsKept
PROPERTIES
    SessionEnds
