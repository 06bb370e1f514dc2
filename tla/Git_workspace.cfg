SPECIFICATION Spec
CONSTANTS
    Tasks = {A, B}
    User = User
    Pieces = {p, q}
    MaxCycles = 3
    MaxReplan = 1
    GitFails = TRUE
    Unparsable = {1}
    MaxSessions = 2
SYMMETRY Symmetries
VIEW View
CHECK_DEADLOCK FALSE
INVARIANTS
    TypeOK
    OnlyVerifiedWorkIsCommitted
    GreenIsComplete
    GreenStaysOnABranch
    EscalatedWorkIsStashed
    EscalationRollsBack
PROPERTIES
    MainKeepsItsCommits
    OnlyOwnStashIsDropped
