\* Three steps after the first hit; the program may pause five times.
SPECIFICATION FairSpec
CONSTANTS
    MaxSteps = 3
    MaxPauses = 5
INVARIANTS
    TypeOK
    VariablesAreOfThePause
    HitsComeInOrder
    ContainerIsReleased
PROPERTIES
    DebuggerEnds
