\* The default WorkflowConfig with the real git provider, a task run twice.
SPECIFICATION Spec
CONSTANTS
    p1 = p1  c1 = c1  c2 = c2  e1 = e1  e2 = e2
    MaxCycles = 3
    Threshold = 25
    MaxReplan = 1
    MaxTdd = 3
    MaxEmpty = 3
    Warning = 5
    Critical = 8
    CostSteps <- MCCosts
    BlastPenalties <- MCBlast
    BlockingProblems <- MCOneProblem
    CriticProblems <- MCTwoFindings
    TestErrors <- MCTwoErrors
    GitStrict = TRUE
    SkipChoices <- MCNeverSkip
    BlastChecks <- MCBothChecks
    MaxRuns = 2
INVARIANTS
    TypeOK
    OnlyVerifiedPatchesConsolidate
    NoCrossPlanLeak
    CountersBounded
    SpeculationOnlyAfterGreenTests
    OutcomeNeverStagnates
PROPERTIES
    EveryStepDescends
    FollowsAgentGraph
    ImplementsContract
