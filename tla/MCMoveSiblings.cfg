SPECIFICATION Spec
CONSTANTS
    r1 = r1
    r2 = r2
    m1 = m1
    m2 = m2
    NoPod = NoPod
    Parents <- TwoParents
    Moves <- TwoMoves
    ParentOf <- OwnParents
    Volume <- NoVolume
    Desired = 1
    PodIds <- SixPods
    HasGrandParent = TRUE
    InitDelay = 0
    Threshold = 3
    Period = 10
    PodAge = 1800
    MaxFailures = 0
    MaxRestoreFailures = 0
    MaxCrashes = 0
    MaxEvictions = 0
INVARIANTS
    PausedWhileDummy
CHECK_DEADLOCK FALSE
