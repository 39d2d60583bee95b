SPECIFICATION FairSpec
CONSTANTS
    q1 = q1
    q2 = q2
    a1 = a1
    a2 = a2
    a3 = a3
    NoAction = NoAction
    Quotas <- TwoQuotas
    Actions <- ThreeActions
    Orig <- FullAndRoom
    Base <- UsedSoFar
    Need <- PodSizes
    MaxFailures = 2
    MaxCrashes = 1
INVARIANTS
    RaisedIsMarked
    OriginalKept
    LeakBounded
PROPERTIES
    EventuallyRestored
CHECK_DEADLOCK FALSE
