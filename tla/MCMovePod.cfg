SPECIFICATION FairSpec
CONSTANTS
    r1 = r1
    r2 = r2
    m1 = m1
    m2 = m2
    NoPod = NoPod
    Parents <- OneParent
    Moves <- TwoMoves
    ParentOf <- SameParent
    Volume <- SecondHasVolume
    Desired = 1
    PodIds <- FivePods
    HasGrandParent = TRUE
    InitDelay = 0
    Threshold = 3
    Period = 10
    PodAge = 1800
    MaxFailures = 1
    MaxRestoreFailures = 1
    MaxCrashes = 1
    MaxEvictions = 1
INVARIANTS
    CloneSurvives
    Availability
PROPERTIES
    DeletesOnlyOriginals
    EventuallyHealthy
CHECK_DEADLOCK FALSE
