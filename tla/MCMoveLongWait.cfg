SPECIFICATION Spec
CONSTANTS
    r1 = r1
    r2 = r2
    m1 = m1
    m2 = m2
    NoPod = NoPod
    Parents <- OneParent
    Moves <- OneMove
    ParentOf <- SameParent
    Volume <- NoVolume
    Desired = 1
    PodIds <- FivePods
    HasGrandParent = TRUE
    InitDelay = 0
    Threshold = 3
    Period = 31
    PodAge = 1800
    MaxFailures = 0
    MaxRestoreFailures = 0
    MaxCrashes = 0
    MaxEvictions = 0
INVARIANTS
    CloneSurvives
CHECK_DEADLOCK FALSE
