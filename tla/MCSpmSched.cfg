CONSTANTS
    NSps = 3
    Deps <- MCDeps
    LockUsers = {1, 2, 3}
    RestartLimit = 1
    PassLimit = 3
SPECIFICATION FairSpec
INVARIANTS
    LockSurvives
    NobodyForgotten
PROPERTY DispatchEnds
